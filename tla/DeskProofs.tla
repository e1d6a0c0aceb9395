----------------------------- MODULE DeskProofs -----------------------------
(***************************************************************************)
(* Proofs about the trading desk, for any positions, returns, thresholds,  *)
(* triggers and bounds: no session runs unwatched without a failure or an  *)
(* approval, nobody is held off trading without a cause among the closed   *)
(* positions, of owners whose steps come in turn only the expiry of a      *)
(* cooldown lowers the risk state, and triggers that are evaluated in turn *)
(* keep to the bar and to the cap of the day.                              *)
(***************************************************************************)
EXTENDS MCTradingDesk, FoldFacts, TLAPS

-----------------------------------------------------------------------------
(* Sessions are watched. *)

Before == {"none", "gate", "clear", "run", "refused"}
Closing == {"close", "refresh", "compare", "forgive", "trip", "done"}
Places == Before \union Closing \union {"blocked", "approved", "bind", "failed", "open", "stop"}

Counting == errors \in Nat /\ approvals \in Nat /\ posts \in Nat
DeskShaped ==
  /\ pc \in [Positions -> Places]
  /\ session \in [Positions -> {"none", "running", "stopped"}]
  /\ linked \in [Positions -> BOOLEAN]
  /\ Counting

\* Before its run an entry has no session; the session of an exit that has one is stopped.
Followed(p) ==
  /\ pc[p] \in Before => session[p] = "none"
  /\ pc[p] \in Closing /\ linked[p] => session[p] # "running"

Unwatched == {p \in Positions : session[p] = "running" /\ ~Watched(p)}

WatchInv ==
  /\ DeskShaped /\ \A p \in Positions : Followed(p)
  /\ IsFiniteSet(Unwatched) /\ Cardinality(Unwatched) <= errors + approvals

\* One more unwatched session at most, and only where something failed or was approved.
Costs(p) ==
  \/ Unwatched' \subseteq Unwatched /\ errors' + approvals' >= errors + approvals
  \/ Unwatched' \subseteq Unwatched \union {p} /\ errors' + approvals' >= errors + approvals + 1

LEMMA CostsKeep ==
  ASSUME WatchInv, NEW p, Costs(p), DeskShaped', \A q \in Positions : Followed(q)'
  PROVE  WatchInv'
<1>1. IsFiniteSet(Unwatched) /\ Cardinality(Unwatched) <= errors + approvals
  BY DEF WatchInv
<1>2. errors + approvals \in Nat /\ errors' + approvals' \in Nat
  <2>1. Counting /\ Counting'
    BY DEF WatchInv, DeskShaped
  <2>2. errors \in Nat /\ approvals \in Nat
    BY <2>1 DEF Counting
  <2>3. errors' \in Nat /\ approvals' \in Nat
    BY <2>1 DEF Counting
  <2>4. \A a, b \in Nat : a + b \in Nat
    OBVIOUS
  <2> QED BY <2>2, <2>3, <2>4
<1>3. Cardinality(Unwatched) \in Nat
  BY <1>1, FS_CardinalityType
<1>4. CASE Unwatched' \subseteq Unwatched /\ errors' + approvals' >= errors + approvals
  <2>1. IsFiniteSet(Unwatched') /\ Cardinality(Unwatched') <= Cardinality(Unwatched)
    BY <1>1, <1>4, FS_Subset
  <2>2. Cardinality(Unwatched') \in Nat
    BY <2>1, FS_CardinalityType
  <2> QED BY <1>1, <1>2, <1>3, <1>4, <2>1, <2>2 DEF WatchInv
<1>5. CASE /\ Unwatched' \subseteq Unwatched \union {p}
           /\ errors' + approvals' >= errors + approvals + 1
  <2>1. /\ IsFiniteSet(Unwatched \union {p})
        /\ \/ Cardinality(Unwatched \union {p}) = Cardinality(Unwatched)
           \/ Cardinality(Unwatched \union {p}) = Cardinality(Unwatched) + 1
    BY <1>1, FS_AddElement
  <2>2. IsFiniteSet(Unwatched') /\ Cardinality(Unwatched') <= Cardinality(Unwatched \union {p})
    BY <1>5, <2>1, FS_Subset
  <2>3. Cardinality(Unwatched') \in Nat
    BY <2>2, FS_CardinalityType
  <2> QED BY <1>1, <1>2, <1>3, <1>5, <2>1, <2>2, <2>3 DEF WatchInv
<1> QED BY <1>4, <1>5 DEF Costs

\* A step of one position that leaves the others alone.
Alone(p) == /\ \A q \in Positions \ {p} : pc'[q] = pc[q] /\ session'[q] = session[q]
                                           /\ linked'[q] = linked[q]
            /\ posts' = posts

Paid == errors' + approvals' >= errors + approvals + 1
Free == errors' + approvals' >= errors + approvals

\* A step costs no less than nothing, and one if it failed or approved.
LEMMA PaidOrFree ==
  ASSUME DeskShaped
  PROVE  /\ Fails /\ UNCHANGED approvals => Paid
         /\ approvals' = approvals + 1 /\ UNCHANGED errors => Paid
         /\ UNCHANGED <<errors, approvals>> => Free
<1>1. errors \in Nat /\ approvals \in Nat
  BY DEF DeskShaped, Counting
<1> QED BY <1>1 DEF Paid, Free, Fails

\* A step of one position keeps the count.
LEMMA StepKeepsWatch ==
  ASSUME WatchInv, NEW p \in Positions, Alone(p), DeskShaped', Followed(p)',
         \/ Paid
         \/ /\ Free
            /\ session'[p] = "running" /\ ~Watched(p)' => session[p] = "running" /\ ~Watched(p)
  PROVE  WatchInv'
<1>1. \A q \in Positions : Followed(q)'
  BY DEF WatchInv, Followed, Alone
<1>2. \A q \in Positions \ {p} : q \in Unwatched' => q \in Unwatched
  BY DEF Unwatched, Watched, Alone
<1>3. Costs(p)
  BY <1>2 DEF Costs, Unwatched, Paid, Free
<1> QED BY <1>1, <1>3, CostsKeep

\* An entry: only a failure or an approval leaves a session unwatched.
LEMMA EntryKeepsWatch ==
  ASSUME WatchInv, NEW p \in Positions, Entry(p)
  PROVE  WatchInv'
<1>1. DeskShaped /\ Followed(p)
  BY DEF WatchInv
<1> USE DEF DeskShaped, Counting, Places, Before, Closing, Goto
<1>2. CASE Request(p)
  <2>1. DeskShaped' /\ Alone(p)
    BY <1>1, <1>2 DEF Request, Alone
  <2> QED BY <1>1, <1>2, <2>1, StepKeepsWatch, PaidOrFree DEF Request, Followed, Watched
<1>3. CASE Gate(p)
  <2>1. DeskShaped' /\ Alone(p)
    BY <1>1, <1>3 DEF Gate, Alone
  <2> QED BY <1>1, <1>3, <2>1, StepKeepsWatch, PaidOrFree DEF Gate, Followed, Watched
<1>4. CASE Clear(p)
  <2>1. DeskShaped' /\ Alone(p)
    BY <1>1, <1>4 DEF Clear, Alone
  <2> QED BY <1>1, <1>4, <2>1, StepKeepsWatch, PaidOrFree DEF Clear, Followed, Watched
<1>5. CASE Start(p)
  <2>1. DeskShaped' /\ Alone(p)
    BY <1>1, <1>5 DEF Start, Alone, Fails
  <2> QED BY <1>1, <1>5, <2>1, StepKeepsWatch, PaidOrFree DEF Start, Followed, Watched
<1>6. CASE Bind(p)
  <2>1. DeskShaped' /\ Alone(p)
    <3>1. errors' = errors \/ Fails
      BY <1>6 DEF Bind
    <3>2. /\ linked' = linked \/ linked' = [linked EXCEPT ![p] = TRUE]
          /\ pc' = [pc EXCEPT ![p] = "open"] \/ pc' = [pc EXCEPT ![p] = "failed"]
          /\ UNCHANGED <<session, approvals, posts>>
      BY <1>6 DEF Bind
    <3>3. /\ linked' \in [Positions -> BOOLEAN] /\ pc' \in [Positions -> Places]
          /\ \A q \in Positions \ {p} : pc'[q] = pc[q] /\ linked'[q] = linked[q]
      BY <1>1, <3>2
    <3>4. errors' \in Nat
      BY <1>1, <3>1 DEF Fails
    <3> QED BY <1>1, <3>2, <3>3, <3>4 DEF Alone
  <2> QED BY <1>1, <1>6, <2>1, StepKeepsWatch, PaidOrFree DEF Bind, Followed, Watched
<1>7. CASE Approve(p)
  <2>1. DeskShaped' /\ Alone(p)
    BY <1>1, <1>7 DEF Approve, Alone
  <2> QED BY <1>1, <1>7, <2>1, StepKeepsWatch, PaidOrFree DEF Approve, Followed, Watched
<1> QED BY <1>2, <1>3, <1>4, <1>5, <1>6, <1>7 DEF Entry

\* An exit: it closes only what it stopped.
LEMMA ExitKeepsWatch ==
  ASSUME WatchInv, NEW p \in Positions, Exit(p)
  PROVE  WatchInv'
<1>1. DeskShaped /\ Followed(p)
  BY DEF WatchInv
<1> USE DEF DeskShaped, Counting, Places, Before, Closing, Goto
<1>2. CASE Claim(p)
  <2>1. DeskShaped' /\ Alone(p)
    BY <1>1, <1>2 DEF Claim, Alone
  <2> QED BY <1>1, <1>2, <2>1, StepKeepsWatch, PaidOrFree DEF Claim, Followed, Watched
<1>3. CASE Stop(p)
  <2>1. DeskShaped' /\ Alone(p)
    BY <1>1, <1>3 DEF Stop, Alone, Fails
  <2> QED BY <1>1, <1>3, <2>1, StepKeepsWatch, PaidOrFree DEF Stop, Followed, Watched
<1>4. CASE MarkClosed(p)
  <2>1. DeskShaped' /\ Alone(p)
    BY <1>1, <1>4 DEF MarkClosed, Alone, Fails
  <2> QED BY <1>1, <1>4, <2>1, StepKeepsWatch, PaidOrFree DEF MarkClosed, Followed, Watched
<1>5. CASE ReadReturns(p)
  <2>1. DeskShaped' /\ Alone(p)
    BY <1>1, <1>5 DEF ReadReturns, Alone
  <2> QED BY <1>1, <1>5, <2>1, StepKeepsWatch, PaidOrFree DEF ReadReturns, Followed, Watched
<1>6. CASE Compare(p) \/ Forgive(p) \/ Trip(p) \/ RefreshFails(p)
  <2>1. pc[p] \in Closing /\ UNCHANGED <<session, linked, posts, approvals>>
    BY <1>6 DEF Compare, Forgive, Trip, RefreshFails
  <2>2. PICK where \in {"forgive", "trip", "done"} : pc' = [pc EXCEPT ![p] = where]
    BY <1>6 DEF Compare, Forgive, Trip, RefreshFails, GotoFrom, Against
  <2>3. errors' = errors \/ Fails
    BY <1>6 DEF Compare, Forgive, Trip, RefreshFails
  <2>4. DeskShaped' /\ Alone(p)
    BY <1>1, <2>1, <2>2, <2>3 DEF Alone, Fails
  <2>5. pc'[p] = where
    BY <1>1, <2>2
  <2>6. Followed(p)' /\ (~Watched(p)' => ~Watched(p))
    BY <1>1, <2>1, <2>5 DEF Followed, Watched
  <2> QED BY <1>1, <2>1, <2>3, <2>4, <2>6, StepKeepsWatch, PaidOrFree
<1> QED BY <1>2, <1>3, <1>4, <1>5, <1>6 DEF Exit

\* What the owner, the clock and the triggers do has nothing to do with sessions.
LEMMA OthersKeepWatch ==
  ASSUME WatchInv, UNCHANGED <<pc, session, linked, errors, approvals>>, posts' \in Nat
  PROVE  WatchInv'
<1>1. DeskShaped' /\ \A p \in Positions : Followed(p)'
  BY DEF WatchInv, DeskShaped, Counting, Followed
<1>2. Unwatched' = Unwatched
  BY DEF Unwatched, Watched
<1> QED BY <1>1, <1>2 DEF WatchInv

\* Every step of the desk.
LEMMA WatchKept == WatchInv /\ [DeskNext]_deskVars => WatchInv'
<1> SUFFICES ASSUME WatchInv, [DeskNext]_deskVars PROVE WatchInv'
  OBVIOUS
<1>1. posts \in Nat
  BY DEF WatchInv, DeskShaped, Counting
<1>2. ASSUME NEW p \in Positions, Entry(p) \/ Exit(p) PROVE WatchInv'
  BY <1>2, EntryKeepsWatch, ExitKeepsWatch
<1>3. ASSUME PostRisk PROVE WatchInv'
  BY <1>1, <1>3, OthersKeepWatch DEF PostRisk
<1>4. ASSUME UNCHANGED positionVars PROVE WatchInv'
  BY <1>1, <1>4, OthersKeepWatch DEF positionVars
<1> QED BY <1>2, <1>3, <1>4 DEF DeskNext, Wait, deskVars

\* At the start nothing runs.
LEMMA WatchInitially == DeskInit => WatchInv
<1> SUFFICES ASSUME DeskInit PROVE WatchInv
  OBVIOUS
<1>1. DeskShaped /\ \A p \in Positions : Followed(p)
  BY DEF DeskInit, DeskShaped, Counting, Places, Before, Closing, Followed
<1>2. Unwatched = {}
  BY DEF DeskInit, Unwatched
<1> QED BY <1>1, <1>2, FS_EmptySet DEF WatchInv, DeskShaped, Counting

(* A session runs that no intent will stop only where a call or a statement failed,  *)
(* or a stopped opening run was approved, and at most one for each                    *)
(* (positions/open.ts:12-15): of any number of positions that overlap in any way.     *)
THEOREM UnwatchedIsPaidFor == DeskSpec => []UnwatchedCostsAFailure
<1>1. WatchInv => UnwatchedCostsAFailure
  BY DEF WatchInv, UnwatchedCostsAFailure, Unwatched
<1> QED BY <1>1, WatchInitially, WatchKept, PTL DEF DeskSpec

-----------------------------------------------------------------------------
(* What the breakers make of a list of returns. *)

\* s is a part of t without a gap.
Part(s, t) ==
  \E k \in Nat : k + Len(s) <= Len(t) /\ \A i \in 1..Len(s) : s[i] = t[k + i]

\* A cause stays a cause when the list is part of a longer one.
LEMMA CauseInPart ==
  ASSUME NEW s \in Seq(Int), NEW t \in Seq(Int), Part(s, t), NEW state, Cause(s, state)
  PROVE  Cause(t, state)
<1>1. PICK k \in Nat : k + Len(s) <= Len(t) /\ \A i \in 1..Len(s) : s[i] = t[k + i]
  BY DEF Part
<1>2. /\ Len(s) \in Nat /\ Len(t) \in Nat /\ DOMAIN s = 1..Len(s) /\ DOMAIN t = 1..Len(t)
      /\ HaltLosses \in Nat \ {0} /\ AverseLosses \in Nat \ {0}
  BY BreakersAssumption
<1>3. ASSUME NEW n \in Nat \ {0}, Streak(s, n) PROVE Streak(t, n)
  <2>1. PICK i \in 1..(Len(s) - n + 1) : \A j \in i..(i + n - 1) : s[j] < 0
    BY <1>3 DEF Streak
  <2>2. k + i \in 1..(Len(t) - n + 1)
    BY <1>1, <1>2
  <2>3. ASSUME NEW j \in (k + i)..(k + i + n - 1) PROVE t[j] < 0
    <3>1. j - k \in i..(i + n - 1) /\ j - k \in 1..Len(s) /\ k + (j - k) = j
      BY <1>2
    <3> QED BY <1>1, <2>1, <3>1
  <2> QED BY <2>2, <2>3 DEF Streak
<1>4. ASSUME NEW c, \E i \in DOMAIN s : -s[i] >= c PROVE \E i \in DOMAIN t : -t[i] >= c
  <2>1. PICK i \in 1..Len(s) : -s[i] >= c
    BY <1>2, <1>4
  <2>2. k + i \in 1..Len(t) /\ t[k + i] = s[i]
    BY <1>1, <1>2
  <2> QED BY <1>2, <2>1, <2>2
<1> QED BY <1>2, <1>3, <1>4 DEF Cause

\* What refreshRiskState reads is the end of the list.
LEMMA RecentIs ==
  ASSUME NEW t \in Seq(Int)
  PROVE  Recent(t) \in Seq(Int) /\ Part(Recent(t), t)
<1>1. Len(t) \in Nat /\ Window \in Nat
  BY BreakersAssumption
<1> DEFINE m == Min({Window, Len(t)})
           k == Len(t) - m
<1>2. m \in {Window, Len(t)} /\ m <= Len(t)
  <2>1. {Window, Len(t)} \in SUBSET Nat
    BY <1>1
  <2> QED BY <2>1, MinIs
<1>3. m \in Nat /\ k \in Nat /\ k <= Len(t)
  BY <1>1, <1>2
<1> HIDE DEF m
<1>4. Recent(t) = SubSeq(t, k + 1, Len(t))
  BY DEF Recent, m
<1> HIDE DEF k
<1>5. /\ SubSeq(t, k + 1, Len(t)) \in Seq(Int) /\ Len(SubSeq(t, k + 1, Len(t))) = Len(t) - k
      /\ \A i \in 1..(Len(t) - k) : SubSeq(t, k + 1, Len(t))[i] = t[k + i]
  BY <1>1, <1>3
<1> QED BY <1>1, <1>3, <1>4, <1>5 DEF Part

\* A list is part of what it is appended to.
LEMMA AppendedPart ==
  ASSUME NEW t \in Seq(Int), NEW x \in Int
  PROVE  Append(t, x) \in Seq(Int) /\ Part(t, Append(t, x))
<1>1. /\ Append(t, x) \in Seq(Int) /\ Len(Append(t, x)) = Len(t) + 1 /\ Len(t) \in Nat
      /\ \A i \in 1..Len(t) : Append(t, x)[0 + i] = t[i]
  OBVIOUS
<1>2. 0 \in Nat /\ 0 + Len(t) <= Len(Append(t, x))
  BY <1>1
<1> QED BY <1>1, <1>2 DEF Part

\* The tail is of one return at least, and of no more than there are.
LEMMA TailSizeIs ==
  ASSUME NEW s \in Seq(Int), s # <<>>
  PROVE  TailSize(s) \in 1..Len(s)
<1>1. Len(s) \in Nat \ {0} /\ TailPart \in Nat \ {0}
  BY BreakersAssumption
<1>2. Len(s) \div TailPart \in 0..Len(s)
  BY <1>1
<1>3. {1, Len(s) \div TailPart} \in SUBSET (0..Len(s))
  BY <1>1, <1>2
<1>4. /\ TailSize(s) \in {1, Len(s) \div TailPart}
      /\ \A m \in {1, Len(s) \div TailPart} : TailSize(s) >= m
  BY <1>1, <1>3, MaxIs DEF TailSize
<1> QED BY <1>1, <1>2, <1>4

\* A tail that heavy has a return that bad.
LEMMA TailIs ==
  ASSUME NEW s \in Seq(Int), s # <<>>, NEW c \in Nat, TailSum(s) <= -(c * TailSize(s))
  PROVE  \E i \in DOMAIN s : -s[i] >= c
<1> DEFINE N == Len(s)
           k == TailSize(s)
           d == 1 - c
           Tails == kSubset(k, DOMAIN s)
           T == {SumOver(s, tail) : tail \in Tails}
<1>1. N \in Nat /\ DOMAIN s = 1..N /\ s \in [1..N -> Int] /\ k \in 1..N /\ d \in Int
  BY TailSizeIs
<1>2. IsFiniteSet(1..N)
  BY <1>1, FS_Interval
<1>3. SUFFICES ASSUME \A i \in 1..N : s[i] >= d PROVE FALSE
  <2>1. \A i \in 1..N : s[i] \in Int
    BY <1>1
  <2>2. \A i \in 1..N : ~ (-s[i] >= c) => s[i] >= d
    <3>1. \A t \in Int : ~ (-t >= c) => t >= d
      OBVIOUS
    <3> QED BY <2>1, <3>1
  <2>3. SUFFICES ASSUME \A i \in 1..N : ~ (-s[i] >= c) PROVE FALSE
    BY <1>1
  <2> QED BY <2>2, <2>3
<1> HIDE DEF k, d
<1>4. ASSUME NEW tail \in Tails PROVE SumOver(s, tail) \in Int /\ SumOver(s, tail) >= k * d
  <2>1. tail \in SUBSET (1..N) /\ Cardinality(tail) = k /\ IsFiniteSet(tail)
    BY <1>1, <1>2, FS_Subset DEF kSubset
  <2>2. SumOver(s, tail) \in Int
    BY <1>1, <2>1, SumOverRemove
  <2> DEFINE f == [i \in tail |-> s[i]]
  <2>3. f \in [tail -> Int] /\ \A x \in tail : f[x] >= d
    BY <1>1, <1>3, <2>1
  <2>4. SumOver(f, tail) = SumOver(s, tail)
    BY <2>1, SumOverSame
  <2> HIDE DEF f
  <2>5. SumOver(f, tail) >= Cardinality(tail) * d
    BY <1>1, <2>1, <2>3, SumOverAtLeast
  <2> QED BY <2>1, <2>2, <2>4, <2>5
<1>5. 1..k \in Tails
  BY <1>1, FS_Interval DEF kSubset
<1>6. T \in SUBSET Int /\ T # {} /\ k * d \in Int /\ \A m \in T : k * d <= m
  BY <1>1, <1>4, <1>5
<1>7. Min(T) \in Int /\ k * d <= Min(T)
  <2> HIDE DEF T
  <2>1. Min(T) \in T
    BY <1>6, MinFrom
  <2> QED BY <1>6, <2>1
<1>8. TailSum(s) = Min(T)
  BY DEF TailSum, SumOver, k
<1>9. Min(T) <= -(c * k)
  BY <1>8 DEF k
<1>10. k * d = k - c * k /\ c * k \in Int
  BY <1>1 DEF d
<1> HIDE DEF T
<1> QED BY <1>1, <1>7, <1>9, <1>10

\* What Verdict says has a cause.
LEMMA VerdictIs ==
  ASSUME NEW s \in Seq(Int), Verdict(s) # "normal"
  PROVE  Verdict(s) \in {"risk_averse", "halted"} /\ Cause(s, Verdict(s))
<1>1. /\ Len(s) \in Nat /\ DOMAIN s = 1..Len(s) /\ \A i \in 1..Len(s) : s[i] \in Int
      /\ HaltDrawdown \in Nat \ {0} /\ HaltLosses \in Nat \ {0}
      /\ AverseCvar \in Nat \ {0} /\ AverseLosses \in Nat \ {0}
  BY BreakersAssumption
<1>2. ASSUME WorstDrawdown(s) >= HaltDrawdown PROVE \E i \in DOMAIN s : -s[i] >= HaltDrawdown
  <2> DEFINE T == {0} \cup ToSet(s)
             B == 1 - HaltDrawdown
  <2>1. SUFFICES ASSUME ~ \E i \in DOMAIN s : -s[i] >= HaltDrawdown PROVE FALSE
    OBVIOUS
  <2>2. T \in SUBSET Int /\ T # {} /\ B \in Int /\ \A m \in T : B <= m
    BY <1>1, <2>1 DEF ToSet
  <2>3. WorstDrawdown(s) = -Min(T)
    BY DEF WorstDrawdown
  <2> HIDE DEF T
  <2>4. Min(T) \in Int /\ B <= Min(T)
    <3> HIDE DEF B
    <3>1. Min(T) \in T
      BY <2>2, MinFrom
    <3> QED BY <2>2, <3>1
  <2> QED BY <1>1, <1>2, <2>3, <2>4
<1>3. ASSUME NEW n \in Nat \ {0}, Consecutive(s) >= n PROVE Streak(s, n)
  <2> DEFINE L == Len(s)
             T == {m \in 0..L : \A i \in L - m + 1 .. L : s[i] < 0}
  <2>1. T \in SUBSET (0..L) /\ 0 \in T
    BY <1>1
  <2>2. Consecutive(s) = Max(T)
    BY DEF Consecutive
  <2>3. Max(T) \in T
    <3> HIDE DEF T
    <3> QED BY <1>1, <2>1, MaxIs
  <2> DEFINE m == Max(T)
  <2> HIDE DEF m
  <2>4. m \in 0..L /\ (\A i \in L - m + 1 .. L : s[i] < 0) /\ m >= n
    BY <1>3, <2>2, <2>3 DEF m
  <2>5. L - n + 1 \in 1..(L - n + 1) /\ \A j \in (L - n + 1)..(L - n + 1 + n - 1) : s[j] < 0
    BY <1>1, <2>4
  <2> QED BY <2>5 DEF Streak
<1>4. ASSUME TailSum(s) <= -(AverseCvar * TailSize(s)) PROVE \E i \in DOMAIN s : -s[i] >= AverseCvar
  <2>1. s # <<>>
    <3>1. ASSUME s = <<>> PROVE FALSE
      <4>1. TailSum(s) = 0 /\ Len(s) = 0
        BY <3>1 DEF TailSum
      <4>2. TailSize(s) \in Nat \ {0}
        <5>1. 0 \div TailPart = 0
          BY BreakersAssumption
        <5>2. TailSize(s) = Max({1, 0})
          BY <4>1, <5>1 DEF TailSize
        <5>3. {1, 0} \in SUBSET (0..1)
          OBVIOUS
        <5>4. Max({1, 0}) \in {1, 0} /\ Max({1, 0}) >= 1
          BY <5>3, MaxIs
        <5> QED BY <5>2, <5>4
      <4>3. \A a, b \in Nat \ {0} : ~ (0 <= -(a * b))
        OBVIOUS
      <4> QED BY <1>1, <1>4, <4>1, <4>2, <4>3
    <3> QED BY <3>1
  <2> QED BY <1>1, <1>4, <2>1, TailIs
<1>5. CASE WorstDrawdown(s) >= HaltDrawdown \/ Consecutive(s) >= HaltLosses
  <2>1. Verdict(s) = "halted"
    BY <1>5 DEF Verdict
  <2> QED BY <1>1, <1>2, <1>3, <1>5, <2>1 DEF Cause
<1>6. CASE ~ (WorstDrawdown(s) >= HaltDrawdown \/ Consecutive(s) >= HaltLosses)
  <2>1. /\ Verdict(s) = "risk_averse"
        /\ TailSum(s) <= -(AverseCvar * TailSize(s)) \/ Consecutive(s) >= AverseLosses
    BY <1>6 DEF Verdict
  <2> QED BY <1>1, <1>3, <1>4, <2>1 DEF Cause
<1> QED BY <1>5, <1>6

-----------------------------------------------------------------------------
(* Nobody is held off trading without a cause. *)

Caused == \A p \in Positions : \A state \in States : Cause(read[p], state) => Cause(closed, state)

\* Every refresh read a part of what is closed by now.
TripInv ==
  /\ closed \in Seq(Int)
  /\ read \in [Positions -> Seq(Int)]
  /\ posts \in Nat
  /\ Caused
  /\ TrippedForCause

\* What keeps it: the list of closed positions grows, a refresh reads a part of it or
\* forgets, and the risk state changes for a cause.
Grows == closed' \in Seq(Int) /\ Part(closed, closed')
Reads == \A p \in Positions : read'[p] = read[p] \/ read'[p] = <<>> \/ read'[p] = Recent(closed)
RiskMoves ==
  \/ risk'.state = risk.state /\ posts' = posts
  \/ risk'.state = "normal"
  \/ posts' # 0
  \/ \E p \in Positions : risk'.state = Verdict(read[p])

\* A list is part of itself.
LEMMA SelfPart == ASSUME NEW t \in Seq(Int) PROVE Part(t, t)
<1>1. Len(t) \in Nat /\ 0 + Len(t) <= Len(t) /\ \A i \in 1..Len(t) : t[i] = t[0 + i]
  OBVIOUS
<1> QED BY <1>1 DEF Part

\* No returns are no cause.
LEMMA NoCause ==
  ASSUME NEW state PROVE ~ Cause(<<>>, state)
<1>1. Len(<<>>) = 0 /\ DOMAIN <<>> = {}
  OBVIOUS
<1>2. \A n \in Nat \ {0} : ~ Streak(<<>>, n)
  BY <1>1 DEF Streak
<1>3. HaltLosses \in Nat \ {0} /\ AverseLosses \in Nat \ {0}
  BY BreakersAssumption
<1> QED BY <1>1, <1>2, <1>3 DEF Cause

\* Such a step keeps the invariant.
LEMMA TripKept ==
  ASSUME TripInv, Grows, Reads, RiskMoves, posts' \in Nat,
         read' \in [Positions -> Seq(Int)]
  PROVE  TripInv'
<1>1. closed \in Seq(Int) /\ closed' \in Seq(Int) /\ Part(closed, closed')
  BY DEF TripInv, Grows
<1>2. \A state : Cause(closed, state) => Cause(closed', state)
  BY <1>1, CauseInPart
<1>3. ASSUME NEW p \in Positions, NEW state \in States, Cause(read'[p], state)
      PROVE  Cause(closed', state)
  <2>1. CASE read'[p] = read[p]
    BY <1>2, <1>3, <2>1 DEF TripInv, Caused
  <2>2. CASE read'[p] = <<>>
    BY <1>3, <2>2, NoCause
  <2>3. CASE read'[p] = Recent(closed)
    <3>1. Recent(closed) \in Seq(Int) /\ Part(Recent(closed), closed)
      BY <1>1, RecentIs
    <3>2. Cause(closed, state)
      BY <1>1, <1>3, <2>3, <3>1, CauseInPart
    <3> QED BY <1>2, <3>2
  <2> QED BY <2>1, <2>2, <2>3 DEF Reads
<1>4. Caused'
  BY <1>3 DEF Caused
<1>5. ASSUME risk'.state # "normal", posts' = 0 PROVE Cause(closed', risk'.state)
  <2>1. CASE risk'.state = risk.state /\ posts' = posts
    BY <1>2, <1>5, <2>1 DEF TripInv, TrippedForCause
  <2>2. CASE \E p \in Positions : risk'.state = Verdict(read[p])
    <3>1. PICK p \in Positions : risk'.state = Verdict(read[p])
      BY <2>2
    <3>2. read[p] \in Seq(Int)
      BY DEF TripInv
    <3>3. Verdict(read[p]) \in {"risk_averse", "halted"} /\ Cause(read[p], Verdict(read[p]))
      BY <1>5, <3>1, <3>2, VerdictIs
    <3>4. Cause(closed, Verdict(read[p]))
      BY <3>3 DEF TripInv, Caused, States
    <3> QED BY <1>2, <3>1, <3>4
  <2> QED BY <1>5, <2>1, <2>2 DEF RiskMoves
<1>6. TrippedForCause'
  BY <1>5 DEF TrippedForCause
<1> QED BY <1>1, <1>4, <1>6 DEF TripInv

\* A step that leaves the list, what was read and the owner's own changes as they are.
LEMMA RiskAlone ==
  ASSUME TripInv, closed' = closed, read' = read, posts' = posts,
         risk' = risk \/ risk'.state \in {risk.state, "normal"}
  PROVE  TripInv'
<1>1. Grows
  BY SelfPart DEF TripInv, Grows
<1>2. Reads /\ RiskMoves
  BY DEF Reads, RiskMoves
<1> QED BY <1>1, <1>2, TripKept DEF TripInv

\* Triggers close nothing, and trip nothing.
LEMMA TriggersLeaveClosed ==
  ASSUME TriggersNext
  PROVE  closed' = closed /\ (risk' = risk \/ risk'.state = "normal")
<1>1. ASSUME NEW e \in Evals, EvalStep(e)
      PROVE  closed' = closed /\ (risk' = risk \/ risk'.state = "normal")
  <2>1. CASE ClearExpired(e)
    BY <2>1 DEF ClearExpired, ClearRisk, Normal
  <2>2. CASE Wake(e) \/ ReadConfig(e) \/ Insert(e)
    BY <2>2 DEF Wake, ReadConfig, Insert, riskVars
  <2>3. CASE Dedupe(e) \/ Cooldown(e) \/ CountDay(e) \/ CheckBudget(e) \/ ReadRisk(e)
    BY <2>3 DEF Dedupe, Cooldown, CountDay, CheckBudget, ReadRisk, riskVars
  <2> QED BY <1>1, <2>1, <2>2, <2>3 DEF EvalStep
<1>2. ASSUME NEW i \in DOMAIN rows, ExecutionStep(i) PROVE closed' = closed /\ risk' = risk
  BY <1>2 DEF ExecutionStep, Execute, Charge, Promote, Future, riskVars
<1>3. ASSUME Change \/ Cool PROVE closed' = closed /\ risk' = risk
  BY <1>3 DEF Change, Cool, riskVars
<1> QED BY <1>1, <1>2, <1>3 DEF TriggersNext

\* Every step of the desk.
LEMMA TripStep == TripInv /\ [DeskNext]_deskVars => TripInv'
<1> SUFFICES ASSUME TripInv, [DeskNext]_deskVars PROVE TripInv'
  OBVIOUS
<1>1. closed \in Seq(Int) /\ read \in [Positions -> Seq(Int)] /\ posts \in Nat
  BY DEF TripInv
<1>2. Part(closed, closed)
  BY <1>1, SelfPart
<1>3. ASSUME NEW p \in Positions, Entry(p) PROVE TripInv'
  <2>1. closed' = closed /\ read' = read /\ posts' = posts
        /\ (risk' = risk \/ risk'.state \in {risk.state, "normal"})
    BY <1>3 DEF Entry, Request, Gate, Clear, Start, Bind, Approve, ClearRisk, Normal
  <2> QED BY <2>1, RiskAlone
<1>4. ASSUME NEW p \in Positions, Claim(p) \/ Stop(p) PROVE TripInv'
  <2>1. closed' = closed /\ read' = read /\ posts' = posts /\ risk' = risk
    BY <1>4 DEF Claim, Stop
  <2> QED BY <2>1, RiskAlone
<1>5. ASSUME NEW p \in Positions, MarkClosed(p) PROVE TripInv'
  <2>1. /\ read' = read /\ posts' = posts /\ risk' = risk
        /\ closed' = closed \/ \E return \in Returns : closed' = Append(closed, return)
    BY <1>5 DEF MarkClosed, Close, riskVars
  <2>2. Grows
    BY <1>1, <1>2, <2>1, AppendedPart, ReturnsAssumption DEF Grows
  <2>3. Reads /\ RiskMoves
    BY <2>1 DEF Reads, RiskMoves
  <2> QED BY <1>1, <2>1, <2>2, <2>3, TripKept
<1>6. ASSUME NEW p \in Positions,
             ReadReturns(p) \/ Compare(p) \/ Forgive(p) \/ Trip(p) \/ RefreshFails(p)
      PROVE  TripInv'
  <2>1. closed' = closed /\ posts' = posts
    BY <1>6 DEF ReadReturns, Compare, Forgive, Trip, RefreshFails, ClearRisk, SetRisk
  <2>2. \/ read' = read
        \/ read' = [read EXCEPT ![p] = Recent(closed)]
        \/ read' = [read EXCEPT ![p] = <<>>]
    BY <1>6 DEF ReadReturns, Compare, Forgive, Trip, RefreshFails, GotoFrom
  <2>3. Recent(closed) \in Seq(Int) /\ <<>> \in Seq(Int)
    BY <1>1, RecentIs
  <2>4. Reads /\ read' \in [Positions -> Seq(Int)]
    BY <1>1, <2>2, <2>3 DEF Reads
  <2>5. RiskMoves
    <3>1. CASE ReadReturns(p) \/ Compare(p) \/ RefreshFails(p)
      BY <2>1, <3>1 DEF ReadReturns, Compare, RefreshFails, RiskMoves
    <3>2. CASE Forgive(p)
      BY <3>2 DEF Forgive, ClearRisk, Normal, RiskMoves
    <3>3. CASE Trip(p)
      BY <3>3 DEF Trip, SetRisk, RiskMoves
    <3> QED BY <1>6, <3>1, <3>2, <3>3
  <2>6. Grows
    BY <1>1, <1>2, <2>1 DEF Grows
  <2> QED BY <1>1, <2>1, <2>4, <2>5, <2>6, TripKept
<1>7. ASSUME PostRisk PROVE TripInv'
  <2>1. closed' = closed /\ read' = read /\ posts' = posts + 1
    BY <1>7 DEF PostRisk, SetRisk
  <2>2. Grows /\ Reads /\ RiskMoves
    BY <1>1, <1>2, <2>1 DEF Grows, Reads, RiskMoves
  <2> QED BY <1>1, <2>1, <2>2, TripKept
<1>8. ASSUME Wait PROVE TripInv'
  <2>1. /\ closed' = closed /\ read' = read /\ posts' = posts
        /\ risk' = risk \/ risk'.state = risk.state
    BY <1>8 DEF Wait, CooldownPasses, positionVars
  <2> QED BY <2>1, RiskAlone
<1>9. ASSUME TriggersNext, UNCHANGED positionVars PROVE TripInv'
  <2>1. closed' = closed /\ (risk' = risk \/ risk'.state = "normal")
    BY <1>9, TriggersLeaveClosed
  <2> QED BY <1>9, <2>1, RiskAlone DEF positionVars
<1>10. ASSUME UNCHANGED deskVars PROVE TripInv'
  BY <1>10, RiskAlone DEF deskVars, positionVars, riskVars
<1> QED BY <1>3, <1>4, <1>5, <1>6, <1>7, <1>8, <1>9, <1>10 DEF DeskNext, Exit

\* At the start nothing is closed and nothing is tripped.
LEMMA TripInitially == DeskInit => TripInv
<1> SUFFICES ASSUME DeskInit PROVE TripInv
  OBVIOUS
<1>1. closed \in Seq(Int) /\ posts \in Nat /\ read \in [Positions -> Seq(Int)]
  BY DEF DeskInit
<1>2. \A p \in Positions : read[p] = <<>>
  BY DEF DeskInit
<1>3. Caused
  BY <1>2, NoCause DEF Caused
<1>4. TrippedForCause
  BY DEF DeskInit, Normal, TrippedForCause
<1> QED BY <1>1, <1>3, <1>4 DEF TripInv

\* The owner is never held off trading without a cause among the closed positions, until
\* they set the state themselves, however exits, refreshes and triggers overlap
\* (risk/index.ts:39-54, 97-121).
THEOREM TripsHaveACause == DeskSpec => []TrippedForCause
<1>1. TripInv => TrippedForCause
  BY DEF TripInv
<1> QED BY <1>1, TripInitially, TripStep, PTL DEF DeskSpec

-----------------------------------------------------------------------------
(* Triggers fire for an event, and on a day, no more often than what was on its way at a *)
(* time allows. *)

Checking == {"cooldown", "count"} \union Railed
Walking == {"dedupe"} \union Checking
FireKeys == TypeSet \X Events

Config == [armed : BOOLEAN, live : BOOLEAN, cools : BOOLEAN]
EvalShape == [pc : {"asleep", "config"} \union Walking, event : Events \union {NoEvent},
              todo : SUBSET TypeSet, cfg : {<<>>} \union [TypeSet -> Config],
              level : BOOLEAN, allowed : BOOLEAN]
Row == [type : TypeSet, event : Events \union {NoEvent}, acted : BOOLEAN, shadow : BOOLEAN,
        agent : {"none", "plan", "budget", "done", "failed"},
        owner : {"none", "plan", "budget", "future", "done", "failed"}]

TriggersShaped ==
  /\ config \in [TypeSet -> Config]
  /\ settings \in [enabled : BOOLEAN, L2 : BOOLEAN]
  /\ rows \in Seq(Row)
  /\ eval \in [Evals -> EvalShape]
  /\ racers \in [FireKeys -> Nat] /\ crowd \in Nat

\* What executed has acted.
Executed == \A i \in DOMAIN rows : rows[i].agent \in {"budget", "done"} => rows[i].acted

\* An evaluation that is at a candidate has one.
Busy == \A e \in Evals : eval[e].pc \in Walking => eval[e].todo # {}

\* An evaluation that found a key free, or the cap, stands for the row that it may add.
KeyRoom == \A k \in FireKeys : Cardinality(RowsOf(k)) + Cardinality(Past(k)) <= racers[k]
DayRoom == Cardinality(OwnFires) + Cardinality(Counted) <= MaxPerDay + crowd

FireInv == TriggersShaped /\ Executed /\ Busy /\ KeyRoom /\ DayRoom

\* Rows are finitely many.
LEMMA RowsCount ==
  ASSUME rows \in Seq(Row), NEW T \in SUBSET DOMAIN rows
  PROVE  IsFiniteSet(T) /\ Cardinality(T) \in Nat
<1>1. IsFiniteSet(1..Len(rows)) /\ DOMAIN rows = 1..Len(rows)
  BY FS_Interval
<1> QED BY <1>1, FS_Subset, FS_CardinalityType

\* The sets that are counted are finite.
LEMMA FireCounts ==
  ASSUME rows \in Seq(Row)
  PROVE  /\ \A k : IsFiniteSet(RowsOf(k)) /\ Cardinality(RowsOf(k)) \in Nat
         /\ \A k : IsFiniteSet(Past(k)) /\ Cardinality(Past(k)) \in Nat
         /\ IsFiniteSet(OwnFires) /\ Cardinality(OwnFires) \in Nat
         /\ IsFiniteSet(Acted) /\ Cardinality(Acted) \in Nat
         /\ IsFiniteSet(InFlight) /\ Cardinality(InFlight) \in Nat
         /\ IsFiniteSet(Counted) /\ Cardinality(Counted) \in Nat
<1>1. /\ \A k : RowsOf(k) \in SUBSET DOMAIN rows
      /\ OwnFires \in SUBSET DOMAIN rows /\ Acted \in SUBSET DOMAIN rows
      /\ InFlight \in SUBSET DOMAIN rows
  BY DEF RowsOf, OwnFires, Acted, InFlight
<1>2. (\A k : Past(k) \subseteq Evals) /\ Counted \subseteq Evals
  BY DEF Past, Counted
<1> QED BY <1>1, <1>2, RowsCount, EvalsAssumption, FS_Subset, FS_CardinalityType

\* One element more counts one more at most.
LEMMA OneMore ==
  ASSUME NEW S, IsFiniteSet(S), NEW x, NEW T, T \subseteq S \union {x}
  PROVE  IsFiniteSet(T) /\ Cardinality(T) \in Nat /\ Cardinality(T) <= Cardinality(S) + 1
<1>1. /\ IsFiniteSet(S \union {x}) /\ Cardinality(S \union {x}) \in Nat /\ Cardinality(S) \in Nat
      /\ Cardinality(S \union {x}) <= Cardinality(S) + 1
  BY FS_AddElement, FS_CardinalityType
<1>2. IsFiniteSet(T) /\ Cardinality(T) <= Cardinality(S \union {x})
  BY <1>1, FS_Subset
<1> QED BY <1>1, <1>2, FS_CardinalityType

\* One element less counts one less.
LEMMA OneLess ==
  ASSUME NEW S, IsFiniteSet(S), NEW x \in S, NEW T, T \subseteq S \ {x}
  PROVE  IsFiniteSet(T) /\ Cardinality(T) \in Nat /\ Cardinality(T) <= Cardinality(S) - 1
<1>1. /\ IsFiniteSet(S \ {x}) /\ Cardinality(S \ {x}) \in Nat /\ Cardinality(S) \in Nat
      /\ Cardinality(S \ {x}) = Cardinality(S) - 1
  BY FS_RemoveElement, FS_CardinalityType
<1>2. IsFiniteSet(T) /\ Cardinality(T) <= Cardinality(S \ {x})
  BY <1>1, FS_Subset
<1> QED BY <1>1, <1>2, FS_CardinalityType

\* A part counts no more.
LEMMA NoMore ==
  ASSUME NEW S, IsFiniteSet(S), NEW T, T \subseteq S
  PROVE  IsFiniteSet(T) /\ Cardinality(T) \in Nat /\ Cardinality(T) <= Cardinality(S)
BY FS_Subset, FS_CardinalityType

\* The larger of two.
LEMMA Larger ==
  ASSUME NEW a \in Nat, NEW b \in Nat
  PROVE  Max({a, b}) \in Nat /\ Max({a, b}) >= a /\ Max({a, b}) >= b
<1>1. \E x \in {a, b} : \A y \in {a, b} : x >= y
  <2>1. CASE a >= b
    BY <2>1
  <2>2. CASE ~(a >= b)
    BY <2>2
  <2> QED BY <2>1, <2>2
<1>2. Max({a, b}) \in {a, b} /\ \A y \in {a, b} : Max({a, b}) >= y
  BY <1>1 DEF Max
<1> QED BY <1>2

\* The candidate at hand is one of them.
LEMMA TypeIn ==
  ASSUME NEW e, eval[e].todo \in SUBSET TypeSet, eval[e].todo # {}
  PROVE  Type(e) \in eval[e].todo /\ Type(e) \in TypeSet
<1> DEFINE I == {i \in DOMAIN Types : Types[i] \in eval[e].todo}
<1>1. I \in SUBSET Nat /\ I # {}
  BY TypesAssumption DEF TypeSet, ToSet
<1>2. Min(I) \in I
  <2> HIDE DEF I
  <2> QED BY <1>1, MinIs
<1>3. Type(e) = Types[Min(I)]
  BY DEF Type
<1> QED BY <1>2, <1>3

\* The agent's own fires have acted or are in flight.
LEMMA OwnCount ==
  ASSUME TriggersShaped, Executed
  PROVE  Cardinality(OwnFires) <= Cardinality(Acted) + Cardinality(InFlight)
<1>1. rows \in Seq(Row)
  BY DEF TriggersShaped
<1>2. OwnFires \subseteq Acted \union InFlight
  BY DEF OwnFires, Acted, InFlight, Executed
<1>3. /\ Acted \in SUBSET DOMAIN rows /\ InFlight \in SUBSET DOMAIN rows
      /\ Acted \union InFlight \in SUBSET DOMAIN rows /\ OwnFires \in SUBSET DOMAIN rows
      /\ Acted \intersect InFlight \in SUBSET DOMAIN rows
  BY DEF Acted, InFlight, OwnFires
<1>4. Cardinality(OwnFires) <= Cardinality(Acted \union InFlight)
  BY <1>1, <1>2, <1>3, RowsCount, FS_Subset
<1>5. Cardinality(Acted \union InFlight)
        = Cardinality(Acted) + Cardinality(InFlight) - Cardinality(Acted \intersect InFlight)
  BY <1>1, <1>3, RowsCount, FS_Union
<1>6. \A T \in {Acted, InFlight, OwnFires, Acted \union InFlight, Acted \intersect InFlight} :
        Cardinality(T) \in Nat
  BY <1>1, <1>3, RowsCount
<1> QED BY <1>4, <1>5, <1>6

-----------------------------------------------------------------------------
(* Steps of an evaluation that leave the rows alone. *)

\* One evaluation moves, and what it found free it enters into the history.
LEMMA FitsMove ==
  ASSUME FireInv, NEW e \in Evals, NEW r \in EvalShape, eval' = [eval EXCEPT ![e] = r],
         r.pc \in Walking => r.todo # {},
         rows' = rows, config' = config, settings' = settings,
         racers' \in [FireKeys -> Nat], crowd' \in Nat,
         \A k \in FireKeys :
           \/ Past(k)' \subseteq Past(k) /\ racers'[k] >= racers[k]
           \/ /\ RowsOf(k) = {} /\ Past(k)' \subseteq Past(k) \union {e}
              /\ racers'[k] >= Cardinality(Past(k)) + 1,
         \/ Counted' \subseteq Counted /\ crowd' >= crowd
         \/ /\ Counted' \subseteq Counted \union {e}
            /\ Cardinality(Acted) <= MaxPerDay - 1 /\ crowd' >= OnTheWay
  PROVE  FireInv'
<1>1. rows \in Seq(Row) /\ rows' \in Seq(Row) /\ racers \in [FireKeys -> Nat] /\ crowd \in Nat
  BY DEF FireInv, TriggersShaped
<1>2. TriggersShaped' /\ Executed'
  BY DEF FireInv, TriggersShaped, Executed
<1>3. Busy'
  BY DEF FireInv, TriggersShaped, Busy
<1>4. OwnFires' = OwnFires /\ \A k : RowsOf(k)' = RowsOf(k)
  BY DEF OwnFires, RowsOf, RowKey
<1>5. KeyRoom'
  <2> SUFFICES ASSUME NEW k \in FireKeys
               PROVE  Cardinality(RowsOf(k)') + Cardinality(Past(k)') <= racers'[k]
    BY DEF KeyRoom
  <2>1. /\ Cardinality(RowsOf(k)) \in Nat /\ Cardinality(Past(k)) \in Nat
        /\ IsFiniteSet(Past(k)) /\ RowsOf(k)' = RowsOf(k)
        /\ racers[k] \in Nat /\ racers'[k] \in Nat
    BY <1>1, <1>4, FireCounts
  <2>2. CASE Past(k)' \subseteq Past(k) /\ racers'[k] >= racers[k]
    <3>1. Cardinality(Past(k)') \in Nat /\ Cardinality(Past(k)') <= Cardinality(Past(k))
      BY <2>1, <2>2, NoMore
    <3>2. Cardinality(RowsOf(k)) + Cardinality(Past(k)) <= racers[k]
      BY DEF FireInv, KeyRoom
    <3> QED BY <2>1, <2>2, <3>1, <3>2
  <2>3. CASE /\ RowsOf(k) = {} /\ Past(k)' \subseteq Past(k) \union {e}
             /\ racers'[k] >= Cardinality(Past(k)) + 1
    <3>1. Cardinality(Past(k)') \in Nat /\ Cardinality(Past(k)') <= Cardinality(Past(k)) + 1
      BY <2>1, <2>3, OneMore
    <3>2. Cardinality(RowsOf(k)) = 0
      BY <2>3, FS_EmptySet
    <3> QED BY <2>1, <2>3, <3>1, <3>2
  <2> QED BY <2>2, <2>3
<1>6. DayRoom'
  <2>1. /\ Cardinality(OwnFires) \in Nat /\ Cardinality(Counted) \in Nat /\ IsFiniteSet(Counted)
        /\ Cardinality(Acted) \in Nat /\ Cardinality(InFlight) \in Nat /\ MaxPerDay \in Nat
    BY <1>1, FireCounts, TypesAssumption
  <2>2. CASE Counted' \subseteq Counted /\ crowd' >= crowd
    <3>1. Cardinality(Counted') \in Nat /\ Cardinality(Counted') <= Cardinality(Counted)
      BY <2>1, <2>2, NoMore
    <3>2. Cardinality(OwnFires) + Cardinality(Counted) <= MaxPerDay + crowd
      BY DEF FireInv, DayRoom
    <3> QED BY <1>1, <1>4, <2>1, <2>2, <3>1, <3>2 DEF DayRoom
  <2>3. CASE /\ Counted' \subseteq Counted \union {e}
             /\ Cardinality(Acted) <= MaxPerDay - 1 /\ crowd' >= OnTheWay
    <3>1. Cardinality(Counted') \in Nat /\ Cardinality(Counted') <= Cardinality(Counted) + 1
      BY <2>1, <2>3, OneMore
    <3>2. Cardinality(OwnFires) <= Cardinality(Acted) + Cardinality(InFlight)
      BY OwnCount DEF FireInv
    <3>3. crowd' >= Cardinality(InFlight) + Cardinality(Counted)
      BY <2>3 DEF OnTheWay
    <3> QED BY <1>4, <2>1, <2>3, <3>1, <3>2, <3>3 DEF DayRoom
  <2> QED BY <2>2, <2>3
<1> QED BY <1>2, <1>3, <1>5, <1>6 DEF FireInv

\* The key of an evaluation is that of its event and its candidates.
LEMMA KeyKept ==
  ASSUME NEW e, eval'[e].todo = eval[e].todo, eval'[e].event = eval[e].event
  PROVE  Key(e)' = Key(e)
BY DEF Key, Type

\* A move that finds nothing free stays at a candidate that it had checked, or at none.
LEMMA QuietMove ==
  ASSUME FireInv, NEW e \in Evals, NEW r \in EvalShape, eval' = [eval EXCEPT ![e] = r],
         r.pc \in Walking => r.todo # {},
         r.pc \in Checking => /\ eval[e].pc \in Checking
                              /\ r.todo = eval[e].todo /\ r.event = eval[e].event,
         r.pc \in Railed /\ r.allowed => eval[e].pc \in Railed /\ eval[e].allowed,
         rows' = rows, config' = config, settings' = settings,
         racers' = racers, crowd' = crowd
  PROVE  FireInv'
<1>1. /\ racers \in [FireKeys -> Nat] /\ crowd \in Nat
      /\ eval'[e] = r /\ \A d \in Evals : d # e => eval'[d] = eval[d]
  BY DEF FireInv, TriggersShaped
<1>2. \A d \in Evals : eval'[d].pc \in Checking => eval[d].pc \in Checking /\ Key(d)' = Key(d)
  <2> SUFFICES ASSUME NEW d \in Evals, eval'[d].pc \in Checking
               PROVE  eval[d].pc \in Checking /\ Key(d)' = Key(d)
    OBVIOUS
  <2>1. eval[d].pc \in Checking /\ eval'[d].todo = eval[d].todo /\ eval'[d].event = eval[d].event
    BY <1>1
  <2> QED BY <2>1, KeyKept
<1>3. \A k : Past(k)' \subseteq Past(k)
  BY <1>2 DEF Past, Checking
<1>4. Counted' \subseteq Counted
  BY <1>1 DEF Counted
<1>5. \A k \in FireKeys : racers'[k] \in Nat /\ racers'[k] >= racers[k]
  BY <1>1
<1>6. crowd' >= crowd
  BY <1>1
<1> QED BY <1>1, <1>3, <1>4, <1>5, <1>6, FitsMove

\* What the next candidate's evaluation looks like.
LEMMA LaterShaped ==
  ASSUME FireInv, NEW e \in Evals, NEW todo \in SUBSET TypeSet
  PROVE  /\ Later(e, todo) \in EvalShape
         /\ todo = {} => Later(e, todo).pc = "asleep"
         /\ todo # {} => Later(e, todo).pc = "dedupe" /\ Later(e, todo).todo = todo
<1>1. eval[e] \in EvalShape
  BY DEF FireInv, TriggersShaped
<1>2. Asleep \in EvalShape
  BY DEF Asleep, EvalShape, Walking
<1> QED BY <1>1, <1>2 DEF Later, EvalShape, Walking, Asleep

\* An event is taken up.
LEMMA WakeFires == ASSUME FireInv, NEW e \in Evals, Wake(e) PROVE FireInv'
<1>1. PICK event \in Events :
        eval' = [eval EXCEPT ![e] = [Asleep EXCEPT !.pc = "config", !.event = event,
                                                   !.level = settings.L2]]
  BY DEF Wake
<1> DEFINE r == [Asleep EXCEPT !.pc = "config", !.event = event, !.level = settings.L2]
<1>2. r \in EvalShape /\ r.pc = "config"
  BY DEF FireInv, TriggersShaped, Asleep, EvalShape
<1>3. /\ rows' = rows /\ config' = config /\ settings' = settings
      /\ racers' = racers /\ crowd' = crowd
  BY DEF Wake, historyVars
<1>4. eval' = [eval EXCEPT ![e] = r]
  BY <1>1
<1>5. r.pc \notin Walking /\ r.pc \notin Checking /\ r.pc \notin Railed
  BY <1>2 DEF Walking, Checking, Railed
<1> HIDE DEF r
<1> QED BY <1>2, <1>3, <1>4, <1>5, QuietMove

\* The candidates are types.
LEMMA ReadConfigFires == ASSUME FireInv, NEW e \in Evals, ReadConfig(e) PROVE FireInv'
<1>1. PICK met \in SUBSET TypeSet :
        eval' = [eval EXCEPT ![e] = [Later(e, met)
                                       EXCEPT !.cfg = IF met = {} THEN <<>> ELSE config]]
  BY DEF ReadConfig
<1> DEFINE r == [Later(e, met) EXCEPT !.cfg = IF met = {} THEN <<>> ELSE config]
<1>2. Later(e, met) \in EvalShape /\ (met = {} => Later(e, met).pc = "asleep")
      /\ (met # {} => Later(e, met).pc = "dedupe" /\ Later(e, met).todo = met)
  BY LaterShaped
<1>3. r \in EvalShape /\ r.pc = Later(e, met).pc /\ r.todo = Later(e, met).todo
  BY <1>2 DEF FireInv, TriggersShaped, EvalShape
<1>4. /\ rows' = rows /\ config' = config /\ settings' = settings
      /\ racers' = racers /\ crowd' = crowd
  BY DEF ReadConfig, historyVars
<1>5. eval' = [eval EXCEPT ![e] = r]
  BY <1>1
<1> HIDE DEF r
<1>6. r.pc \notin Checking /\ r.pc \notin Railed /\ (r.pc \in Walking => r.todo # {})
  BY <1>2, <1>3 DEF Walking, Checking, Railed
<1> QED BY <1>3, <1>4, <1>5, <1>6, QuietMove

\* What an evaluation knows of itself at a candidate.
LEMMA AtCandidate ==
  ASSUME FireInv, NEW e \in Evals, eval[e].pc \in Walking
  PROVE  /\ eval[e] \in EvalShape /\ eval[e].todo \in SUBSET TypeSet /\ eval[e].todo # {}
         /\ eval[e].allowed \in BOOLEAN
BY DEF FireInv, TriggersShaped, EvalShape, Busy

\* A candidate is passed over.
LEMMA SkipFires ==
  ASSUME FireInv, NEW e \in Evals, eval[e].pc \in Walking, Skip(e),
         rows' = rows, config' = config, settings' = settings, racers' = racers, crowd' = crowd
  PROVE  FireInv'
<1> DEFINE todo == eval[e].todo \ {Type(e)}
<1>1. todo \in SUBSET TypeSet
  BY AtCandidate
<1>2. eval' = [eval EXCEPT ![e] = Later(e, todo)]
  BY DEF Skip
<1> HIDE DEF todo
<1>3. /\ Later(e, todo) \in EvalShape /\ (todo = {} => Later(e, todo).pc = "asleep")
      /\ (todo # {} => Later(e, todo).pc = "dedupe" /\ Later(e, todo).todo = todo)
  BY <1>1, LaterShaped
<1>4. /\ Later(e, todo).pc \notin Checking /\ Later(e, todo).pc \notin Railed
      /\ Later(e, todo).pc \in Walking => Later(e, todo).todo # {}
  BY <1>3 DEF Walking, Checking, Railed
<1> QED BY <1>2, <1>3, <1>4, QuietMove

\* A step to the next check of the same candidate.
LEMMA CheckFires ==
  ASSUME FireInv, NEW e \in Evals, eval[e].pc \in Checking,
         NEW to \in Checking, NEW ok \in BOOLEAN,
         eval' = [eval EXCEPT ![e].pc = to, ![e].allowed = ok],
         ok /\ to \in Railed => eval[e].pc \in Railed /\ eval[e].allowed,
         rows' = rows, config' = config, settings' = settings, racers' = racers, crowd' = crowd
  PROVE  FireInv'
<1> DEFINE r == [eval[e] EXCEPT !.pc = to, !.allowed = ok]
<1>1. eval[e] \in EvalShape /\ eval[e].todo # {}
  BY AtCandidate DEF Walking
<1>2. /\ r \in EvalShape /\ r.pc = to /\ r.allowed = ok /\ r.todo = eval[e].todo
      /\ r.event = eval[e].event
  BY <1>1 DEF EvalShape, Walking
<1>3. eval' = [eval EXCEPT ![e] = r]
  BY DEF FireInv, TriggersShaped
<1> HIDE DEF r
<1> QED BY <1>1, <1>2, <1>3, QuietMove

\* A key is found free: nobody has a row of it, and who else is past its dedupe is counted.
LEMMA DedupeFires ==
  ASSUME FireInv, NEW e \in Evals, Dedupe(e), Same(e) = {}, EvalTo(e, "cooldown"),
         racers' = [racers EXCEPT ![Key(e)] = Max({@, Cardinality(Past(Key(e))) + 1})]
  PROVE  FireInv'
<1> DEFINE r == [eval[e] EXCEPT !.pc = "cooldown"]
<1>1. /\ eval[e].pc = "dedupe" /\ rows' = rows /\ config' = config /\ settings' = settings
      /\ crowd' = crowd
  BY DEF Dedupe, EvalAt
<1>2. eval[e] \in EvalShape /\ eval[e].todo # {}
  BY <1>1, AtCandidate DEF Walking
<1>3. /\ r \in EvalShape /\ r.pc = "cooldown" /\ r.todo = eval[e].todo /\ r.event = eval[e].event
  BY <1>2 DEF EvalShape, Walking, Checking
<1>4. eval' = [eval EXCEPT ![e] = r] /\ eval'[e] = r /\ \A d \in Evals : d # e => eval'[d] = eval[d]
  BY DEF FireInv, TriggersShaped, EvalTo
<1> HIDE DEF r
<1>5. Key(e)' = Key(e)
  BY <1>3, <1>4, KeyKept
<1>6. \A d \in Evals : d # e => Key(d)' = Key(d)
  BY <1>4, KeyKept
<1>7. rows \in Seq(Row) /\ racers \in [FireKeys -> Nat] /\ crowd \in Nat
  BY DEF FireInv, TriggersShaped
<1> DEFINE n == Cardinality(Past(Key(e))) + 1
<1>8. n \in Nat
  BY <1>7, FireCounts
<1>9. racers' = [racers EXCEPT ![Key(e)] = Max({racers[Key(e)], n})]
  OBVIOUS
<1> HIDE DEF n
<1>10. ASSUME NEW k \in FireKeys
       PROVE  /\ racers'[k] \in Nat
              /\ \/ Past(k)' \subseteq Past(k) /\ racers'[k] >= racers[k]
                 \/ /\ RowsOf(k) = {} /\ Past(k)' \subseteq Past(k) \union {e}
                    /\ racers'[k] >= Cardinality(Past(k)) + 1
  <2>1. Past(k)' \subseteq Past(k) \union {e}
    BY <1>4, <1>6 DEF Past
  <2>2. racers[k] \in Nat
    BY <1>7
  <2>3. CASE k = Key(e)
    <3>1. racers'[k] = Max({racers[k], n})
      BY <1>7, <1>9, <2>3
    <3>2. RowsOf(k) = {}
      BY <2>3 DEF RowsOf, Same
    <3> QED BY <1>8, <2>1, <2>2, <2>3, <3>1, <3>2, Larger DEF n
  <2>4. CASE k # Key(e)
    <3>1. racers'[k] = racers[k]
      BY <1>7, <1>9, <2>4
    <3>2. Past(k)' \subseteq Past(k)
      BY <1>5, <2>1, <2>4 DEF Past
    <3> QED BY <2>2, <3>1, <3>2
  <2> QED BY <2>3, <2>4
<1>11. racers' \in [FireKeys -> Nat]
  <2>1. DOMAIN racers' = FireKeys /\ racers' = [k \in FireKeys |-> racers'[k]]
    BY <1>7, <1>9
  <2> QED BY <1>10, <2>1
<1>12. Counted' \subseteq Counted /\ crowd' >= crowd
  BY <1>1, <1>3, <1>4, <1>7 DEF Counted, Railed
<1> QED BY <1>1, <1>2, <1>3, <1>4, <1>7, <1>10, <1>11, <1>12, FitsMove

\* The cap is counted: what is on its way is entered where it is free.
LEMMA CountFires == ASSUME FireInv, NEW e \in Evals, CountDay(e) PROVE FireInv'
<1> DEFINE ok == eval[e].allowed /\ ~ OverCap
           r == [eval[e] EXCEPT !.pc = "budget", !.allowed = ok]
<1>1. /\ eval[e].pc = "count" /\ rows' = rows /\ config' = config /\ settings' = settings
      /\ racers' = racers /\ crowd' = IF OverCap THEN crowd ELSE Max({crowd, OnTheWay})
      /\ eval' = [eval EXCEPT ![e].pc = "budget", ![e].allowed = ok]
  BY DEF CountDay, EvalAt, Rail, FireInv, TriggersShaped
<1>2. eval[e] \in EvalShape /\ eval[e].todo # {} /\ eval[e].allowed \in BOOLEAN
  BY <1>1, AtCandidate DEF Walking, Checking
<1>3. ok \in BOOLEAN /\ (ok => ~OverCap)
  BY <1>2
<1> HIDE DEF ok
<1>4. /\ r \in EvalShape /\ r.pc = "budget" /\ r.todo = eval[e].todo /\ r.event = eval[e].event
      /\ r.allowed = ok
  BY <1>2, <1>3 DEF EvalShape, Walking, Checking, Railed
<1>5. eval' = [eval EXCEPT ![e] = r] /\ eval'[e] = r /\ \A d \in Evals : d # e => eval'[d] = eval[d]
  BY <1>1 DEF FireInv, TriggersShaped
<1> HIDE DEF r
<1>6. rows \in Seq(Row) /\ racers \in [FireKeys -> Nat] /\ crowd \in Nat
  BY DEF FireInv, TriggersShaped
<1>7. /\ Cardinality(Acted) \in Nat /\ Cardinality(InFlight) \in Nat /\ Cardinality(Counted) \in Nat
      /\ MaxPerDay \in Nat
  BY <1>6, FireCounts, TypesAssumption
<1>8. \A d \in Evals : eval'[d].pc \in Checking => eval[d].pc \in Checking /\ Key(d)' = Key(d)
  <2>1. Key(e)' = Key(e)
    BY <1>4, <1>5, KeyKept
  <2>2. \A d \in Evals : d # e => Key(d)' = Key(d)
    BY <1>5, KeyKept
  <2> QED BY <1>1, <1>5, <2>1, <2>2 DEF Checking
<1>9. \A k \in FireKeys : Past(k)' \subseteq Past(k) /\ racers'[k] >= racers[k]
  <2>1. \A k : Past(k)' \subseteq Past(k)
    BY <1>8 DEF Past, Checking
  <2>2. \A k \in FireKeys : racers'[k] >= racers[k]
    BY <1>1, <1>6
  <2> QED BY <2>1, <2>2
<1>10. /\ crowd' \in Nat
       /\ \/ Counted' \subseteq Counted /\ crowd' >= crowd
          \/ /\ Counted' \subseteq Counted \union {e}
             /\ Cardinality(Acted) <= MaxPerDay - 1 /\ crowd' >= OnTheWay
  <2>1. CASE OverCap
    <3>1. ~ok /\ crowd' = crowd
      BY <1>1, <1>3, <2>1
    <3> QED BY <1>4, <1>5, <1>6, <3>1 DEF Counted
  <2>2. CASE ~OverCap
    <3>1. OnTheWay \in Nat
      BY <1>7 DEF OnTheWay
    <3>2. crowd' \in Nat /\ crowd' >= OnTheWay
      BY <1>1, <1>6, <2>2, <3>1, Larger
    <3>3. Cardinality(Acted) <= MaxPerDay - 1
      BY <1>7, <2>2 DEF OverCap
    <3>4. Counted' \subseteq Counted \union {e}
      BY <1>5 DEF Counted
    <3> QED BY <3>2, <3>3, <3>4
  <2> QED BY <2>1, <2>2
<1> QED BY <1>1, <1>2, <1>4, <1>5, <1>6, <1>9, <1>10, FitsMove

\* The checks of a candidate are such steps.
LEMMA ChecksFire ==
  ASSUME FireInv, NEW e \in Evals,
         Dedupe(e) \/ Cooldown(e) \/ CheckBudget(e) \/ ReadRisk(e) \/ ClearExpired(e)
  PROVE  FireInv'
<1>0. eval[e] \in EvalShape /\ eval[e].allowed \in BOOLEAN
  BY DEF FireInv, TriggersShaped, EvalShape
<1>1. CASE Dedupe(e)
  <2>1. /\ eval[e].pc = "dedupe" /\ rows' = rows /\ config' = config /\ settings' = settings
        /\ crowd' = crowd
    BY <1>1 DEF Dedupe, EvalAt
  <2>2. CASE Skip(e) /\ UNCHANGED racers
    BY <2>1, <2>2, SkipFires DEF Walking
  <2> QED BY <1>1, <2>2, DedupeFires DEF Dedupe
<1>2. CASE Cooldown(e)
  <2>1. /\ eval[e].pc = "cooldown" /\ rows' = rows /\ config' = config /\ settings' = settings
        /\ racers' = racers /\ crowd' = crowd
    BY <1>2 DEF Cooldown, EvalAt, historyVars
  <2>2. CASE Skip(e)
    BY <2>1, <2>2, SkipFires DEF Walking, Checking
  <2>3. CASE EvalTo(e, "count")
    <3>1. eval' = [eval EXCEPT ![e].pc = "count", ![e].allowed = eval[e].allowed]
      BY <1>0, <2>3 DEF EvalTo, FireInv, TriggersShaped, EvalShape
    <3> QED BY <1>0, <2>1, <3>1, CheckFires DEF Checking, Railed
  <2> QED BY <1>2, <2>2, <2>3 DEF Cooldown
<1>3. CASE CheckBudget(e)
  <2>1. PICK spent \in BOOLEAN : Rail(e, runs < MaxRuns /\ ~spent, "risk")
    BY <1>3 DEF CheckBudget
  <2> DEFINE ok == eval[e].allowed /\ runs < MaxRuns /\ ~spent
  <2>2. /\ eval[e].pc = "budget" /\ rows' = rows /\ config' = config /\ settings' = settings
        /\ racers' = racers /\ crowd' = crowd
        /\ eval' = [eval EXCEPT ![e].pc = "risk", ![e].allowed = ok]
    BY <1>3, <2>1 DEF CheckBudget, EvalAt, Rail, FireInv, TriggersShaped, historyVars
  <2>3. ok \in BOOLEAN /\ (ok => eval[e].allowed)
    BY <1>0
  <2> HIDE DEF ok
  <2> QED BY <2>2, <2>3, CheckFires DEF Checking, Railed
<1>4. CASE ReadRisk(e)
  <2>1. /\ eval[e].pc = "risk" /\ rows' = rows /\ config' = config /\ settings' = settings
        /\ racers' = racers /\ crowd' = crowd
    BY <1>4 DEF ReadRisk, EvalAt, historyVars
  <2>2. CASE EvalTo(e, "clear")
    <3>1. eval' = [eval EXCEPT ![e].pc = "clear", ![e].allowed = eval[e].allowed]
      BY <1>0, <2>2 DEF EvalTo, FireInv, TriggersShaped, EvalShape
    <3> QED BY <1>0, <2>1, <3>1, CheckFires DEF Checking, Railed
  <2>3. CASE Rail(e, risk.state # "halted", "insert")
    <3> DEFINE ok == eval[e].allowed /\ risk.state # "halted"
    <3>1. eval' = [eval EXCEPT ![e].pc = "insert", ![e].allowed = ok]
      BY <2>3 DEF Rail, FireInv, TriggersShaped
    <3>2. ok \in BOOLEAN /\ (ok => eval[e].allowed)
      BY <1>0
    <3> HIDE DEF ok
    <3> QED BY <2>1, <3>1, <3>2, CheckFires DEF Checking, Railed
  <2> QED BY <1>4, <2>2, <2>3 DEF ReadRisk
<1>5. CASE ClearExpired(e)
  <2>1. /\ eval[e].pc = "clear" /\ rows' = rows /\ config' = config /\ settings' = settings
        /\ racers' = racers /\ crowd' = crowd /\ EvalTo(e, "insert")
    BY <1>5 DEF ClearExpired, EvalAt, historyVars
  <2>2. eval' = [eval EXCEPT ![e].pc = "insert", ![e].allowed = eval[e].allowed]
    BY <1>0, <2>1 DEF EvalTo, FireInv, TriggersShaped, EvalShape
  <2> QED BY <1>0, <2>1, <2>2, CheckFires DEF Checking, Railed
<1> QED BY <1>1, <1>2, <1>3, <1>4, <1>5

-----------------------------------------------------------------------------
(* Steps that change the rows. *)

\* A row is added for which its evaluation stood, as a fire only if it was counted.
LEMMA InsertFires == ASSUME FireInv, NEW e \in Evals, Insert(e) PROVE FireInv'
<1> DEFINE live == eval[e].cfg[Type(e)].live /\ eval[e].level /\ eval[e].allowed
           row == [type |-> Type(e), event |-> eval[e].event, acted |-> FALSE, shadow |-> ~live,
                   agent |-> IF live THEN "plan" ELSE "none", owner |-> "none"]
           n == Len(rows) + 1
           todo == eval[e].todo \ {Type(e)}
<1>1. /\ eval[e].pc = "insert" /\ config' = config /\ settings' = settings
      /\ racers' = racers /\ crowd' = crowd
      /\ rows' = Append(rows, row) /\ eval' = [eval EXCEPT ![e] = Later(e, todo)]
  BY DEF Insert, EvalAt, Skip, historyVars
<1>2. eval[e] \in EvalShape /\ eval[e].todo \in SUBSET TypeSet /\ eval[e].todo # {}
  BY <1>1, AtCandidate DEF Walking, Checking, Railed
<1>3. todo \in SUBSET TypeSet /\ Type(e) \in TypeSet
  BY <1>2, TypeIn
<1>4. /\ row \in Row /\ row.agent \in {"plan", "none"}
      /\ <<row.type, row.event>> = Key(e) /\ (row.agent = "plan" => eval[e].allowed)
  <2>1. (~live) \in BOOLEAN
    OBVIOUS
  <2> HIDE DEF live
  <2>2. eval[e].event \in Events \union {NoEvent}
    BY <1>2 DEF EvalShape
  <2>3. row \in Row /\ row.agent \in {"plan", "none"}
    BY <1>3, <2>1, <2>2 DEF Row
  <2>4. row.agent = "plan" => live
    OBVIOUS
  <2>5. <<row.type, row.event>> = Key(e)
    BY DEF Key
  <2> QED BY <2>3, <2>4, <2>5 DEF live
<1> HIDE DEF row, todo
<1>5. rows \in Seq(Row) /\ Len(rows) \in Nat /\ DOMAIN rows = 1..Len(rows)
  BY DEF FireInv, TriggersShaped
<1>6. /\ rows' \in Seq(Row) /\ DOMAIN rows' = 1..n /\ rows'[n] = row
      /\ \A i \in DOMAIN rows : rows'[i] = rows[i] /\ i # n /\ i \in 1..n
      /\ \A i \in 1..n : i \in DOMAIN rows \/ i = n
  BY <1>1, <1>4, <1>5
<1> HIDE DEF n
<1>7. /\ Later(e, todo) \in EvalShape /\ (todo = {} => Later(e, todo).pc = "asleep")
      /\ (todo # {} => Later(e, todo).pc = "dedupe" /\ Later(e, todo).todo = todo)
  BY <1>3, LaterShaped
<1>8. eval'[e] = Later(e, todo) /\ \A d \in Evals : d # e => eval'[d] = eval[d]
  BY <1>1 DEF FireInv, TriggersShaped
<1>9. TriggersShaped'
  BY <1>1, <1>6, <1>7 DEF FireInv, TriggersShaped
<1>10. Executed'
  <2> SUFFICES ASSUME NEW i \in DOMAIN rows', rows'[i].agent \in {"budget", "done"}
               PROVE  rows'[i].acted
    BY DEF Executed
  <2>1. i # n /\ i \in DOMAIN rows
    BY <1>4, <1>6
  <2> QED BY <1>6, <2>1 DEF FireInv, Executed
<1>11. Busy'
  <2>1. todo = {} => eval'[e].pc \notin Walking
    BY <1>7, <1>8 DEF Walking, Checking, Railed
  <2>2. todo # {} => eval'[e].todo # {}
    BY <1>7, <1>8
  <2> QED BY <1>8, <2>1, <2>2 DEF FireInv, Busy
<1>12. eval'[e].pc \notin Checking /\ \A d \in Evals : d # e => Key(d)' = Key(d)
  BY <1>7, <1>8, KeyKept DEF Checking, Railed
<1>13. KeyRoom'
  <2> SUFFICES ASSUME NEW k \in FireKeys
               PROVE  Cardinality(RowsOf(k)') + Cardinality(Past(k)') <= racers'[k]
    BY DEF KeyRoom
  <2>1. /\ IsFiniteSet(RowsOf(k)) /\ Cardinality(RowsOf(k)) \in Nat
        /\ IsFiniteSet(Past(k)) /\ Cardinality(Past(k)) \in Nat
    BY <1>5, FireCounts
  <2>2. racers'[k] = racers[k] /\ racers[k] \in Nat
        /\ Cardinality(RowsOf(k)) + Cardinality(Past(k)) <= racers[k]
    BY <1>1 DEF FireInv, TriggersShaped, KeyRoom
  <2>3. Past(k)' \subseteq Past(k) \ {e}
    BY <1>8, <1>12 DEF Past, Checking
  <2>4. CASE k = Key(e)
    <3>1. e \in Past(k)
      BY <1>1, <2>4 DEF Past, Railed
    <3>2. RowsOf(k)' \subseteq RowsOf(k) \union {n}
      BY <1>6 DEF RowsOf, RowKey
    <3>3. Cardinality(RowsOf(k)') \in Nat /\ Cardinality(RowsOf(k)') <= Cardinality(RowsOf(k)) + 1
      BY <2>1, <3>2, OneMore
    <3>4. Cardinality(Past(k)') \in Nat /\ Cardinality(Past(k)') <= Cardinality(Past(k)) - 1
      BY <2>1, <2>3, <3>1, OneLess
    <3> QED BY <2>1, <2>2, <3>3, <3>4
  <2>5. CASE k # Key(e)
    <3>1. RowsOf(k)' \subseteq RowsOf(k)
      BY <1>4, <1>6, <2>5 DEF RowsOf, RowKey
    <3>2. Cardinality(RowsOf(k)') \in Nat /\ Cardinality(RowsOf(k)') <= Cardinality(RowsOf(k))
      BY <2>1, <3>1, NoMore
    <3>3. Past(k)' \subseteq Past(k)
      BY <2>3
    <3>4. Cardinality(Past(k)') \in Nat /\ Cardinality(Past(k)') <= Cardinality(Past(k))
      BY <2>1, <3>3, NoMore
    <3> QED BY <2>1, <2>2, <3>2, <3>4
  <2> QED BY <2>4, <2>5
<1>14. DayRoom'
  <2>1. /\ IsFiniteSet(OwnFires) /\ Cardinality(OwnFires) \in Nat
        /\ IsFiniteSet(Counted) /\ Cardinality(Counted) \in Nat
        /\ MaxPerDay \in Nat /\ crowd' = crowd /\ crowd \in Nat
        /\ Cardinality(OwnFires) + Cardinality(Counted) <= MaxPerDay + crowd
    BY <1>1, <1>5, FireCounts, TypesAssumption DEF FireInv, TriggersShaped, DayRoom
  <2>2. Counted' \subseteq Counted \ {e}
    BY <1>8, <1>12 DEF Counted, Checking
  <2>3. CASE row.agent = "plan"
    <3>1. e \in Counted
      BY <1>1, <1>4, <2>3 DEF Counted, Railed
    <3>2. OwnFires' \subseteq OwnFires \union {n}
      BY <1>6 DEF OwnFires
    <3>3. Cardinality(OwnFires') \in Nat /\ Cardinality(OwnFires') <= Cardinality(OwnFires) + 1
      BY <2>1, <3>2, OneMore
    <3>4. Cardinality(Counted') \in Nat /\ Cardinality(Counted') <= Cardinality(Counted) - 1
      BY <2>1, <2>2, <3>1, OneLess
    <3> QED BY <2>1, <3>3, <3>4 DEF DayRoom
  <2>4. CASE row.agent = "none"
    <3>1. OwnFires' \subseteq OwnFires
      BY <1>6, <2>4 DEF OwnFires
    <3>2. Cardinality(OwnFires') \in Nat /\ Cardinality(OwnFires') <= Cardinality(OwnFires)
      BY <2>1, <3>1, NoMore
    <3>3. Counted' \subseteq Counted
      BY <2>2
    <3>4. Cardinality(Counted') \in Nat /\ Cardinality(Counted') <= Cardinality(Counted)
      BY <2>1, <3>3, NoMore
    <3> QED BY <2>1, <3>2, <3>4 DEF DayRoom
  <2> QED BY <1>4, <2>3, <2>4
<1> QED BY <1>9, <1>10, <1>11, <1>13, <1>14 DEF FireInv

\* A row moves on: it keeps its key, and nothing that was not the agent's own fire becomes
\* one.
LEMMA RowKeeps ==
  ASSUME FireInv, NEW i \in DOMAIN rows, NEW row \in Row,
         rows' = [rows EXCEPT ![i] = row], eval' = eval, settings' = settings,
         racers' = racers, crowd' = crowd, config' \in [TypeSet -> Config],
         row.type = rows[i].type, row.event = rows[i].event,
         row.agent \in {"plan", "budget", "done"} => rows[i].agent \in {"plan", "budget", "done"},
         row.agent \in {"budget", "done"} => row.acted
  PROVE  FireInv'
<1>1. rows \in Seq(Row) /\ DOMAIN rows' = DOMAIN rows /\ rows'[i] = row
      /\ \A j \in DOMAIN rows : j # i => rows'[j] = rows[j]
  BY DEF FireInv, TriggersShaped
<1>2. \A j \in DOMAIN rows : rows'[j].type = rows[j].type /\ rows'[j].event = rows[j].event
  BY <1>1
<1>3. TriggersShaped'
  BY <1>1 DEF FireInv, TriggersShaped
<1>4. Executed' /\ Busy'
  BY <1>1 DEF FireInv, Executed, Busy
<1>5. \A k : RowsOf(k)' = RowsOf(k) /\ Past(k)' = Past(k)
  BY <1>1, <1>2 DEF RowsOf, RowKey, Past, Key, Type
<1>6. KeyRoom'
  BY <1>5 DEF FireInv, KeyRoom
<1>7. OwnFires' \subseteq OwnFires /\ Counted' = Counted
  BY <1>1 DEF OwnFires, Counted
<1>8. /\ IsFiniteSet(OwnFires) /\ Cardinality(OwnFires) \in Nat /\ Cardinality(Counted) \in Nat
      /\ MaxPerDay \in Nat /\ crowd \in Nat
  BY <1>1, FireCounts, TypesAssumption DEF FireInv, TriggersShaped
<1>9. Cardinality(OwnFires') <= Cardinality(OwnFires) /\ Cardinality(OwnFires') \in Nat
  BY <1>7, <1>8, NoMore
<1>10. DayRoom'
  BY <1>7, <1>8, <1>9 DEF FireInv, DayRoom
<1> QED BY <1>3, <1>4, <1>6, <1>10 DEF FireInv

\* The plans of a fire and of a promotion move their row on.
LEMMA ExecutionFires ==
  ASSUME FireInv, NEW i \in DOMAIN rows, ExecutionStep(i)
  PROVE  FireInv'
<1>1. rows[i] \in Row /\ rows \in Seq(Row) /\ config \in [TypeSet -> Config]
      /\ (rows[i].agent \in {"budget", "done"} => rows[i].acted)
  BY DEF FireInv, TriggersShaped, Executed
<1>2. ASSUME NEW row \in Row, rows' = [rows EXCEPT ![i] = row], eval' = eval,
             settings' = settings, racers' = racers, crowd' = crowd,
             config' \in [TypeSet -> Config], row.type = rows[i].type, row.event = rows[i].event,
             \/ row.agent = rows[i].agent /\ (rows[i].acted => row.acted)
             \/ rows[i].agent = "plan" /\ row.agent = "budget" /\ row.acted
             \/ row.agent = "failed"
             \/ rows[i].agent = "budget" /\ row.agent = "done" /\ (rows[i].acted => row.acted)
      PROVE  FireInv'
  BY <1>1, <1>2, RowKeeps
<1>3. ASSUME Execute(i, "agent") PROVE FireInv'
  <2>1. /\ rows[i].agent = "plan" /\ eval' = eval /\ settings' = settings /\ config' = config
        /\ racers' = racers /\ crowd' = crowd
    BY <1>3 DEF Execute, historyVars
  <2>2. CASE rows' = [rows EXCEPT ![i].acted = TRUE, ![i].shadow = FALSE, ![i].agent = "budget"]
    <3> DEFINE row == [rows[i] EXCEPT !.acted = TRUE, !.shadow = FALSE, !.agent = "budget"]
    <3>1. row \in Row /\ row.type = rows[i].type /\ row.event = rows[i].event
          /\ row.agent = "budget" /\ row.acted
      BY <1>1 DEF Row
    <3>2. rows' = [rows EXCEPT ![i] = row]
      BY <1>1, <2>2
    <3> HIDE DEF row
    <3> QED BY <1>1, <1>2, <2>1, <3>1, <3>2
  <2>3. CASE rows' = [rows EXCEPT ![i].agent = "failed"]
    <3> DEFINE row == [rows[i] EXCEPT !.agent = "failed"]
    <3>1. row \in Row /\ row.type = rows[i].type /\ row.event = rows[i].event
          /\ row.agent = "failed"
      BY <1>1 DEF Row
    <3>2. rows' = [rows EXCEPT ![i] = row]
      BY <1>1, <2>3
    <3> HIDE DEF row
    <3> QED BY <1>1, <1>2, <2>1, <3>1, <3>2
  <2> QED BY <1>3, <2>2, <2>3 DEF Execute
<1>4. ASSUME Execute(i, "owner") PROVE FireInv'
  <2>1. /\ rows[i].owner = "plan" /\ eval' = eval /\ settings' = settings /\ config' = config
        /\ racers' = racers /\ crowd' = crowd
    BY <1>4 DEF Execute, historyVars
  <2>2. CASE rows' = [rows EXCEPT ![i].acted = TRUE, ![i].shadow = FALSE, ![i].owner = "budget"]
    <3> DEFINE row == [rows[i] EXCEPT !.acted = TRUE, !.shadow = FALSE, !.owner = "budget"]
    <3>1. row \in Row /\ row.type = rows[i].type /\ row.event = rows[i].event
          /\ row.agent = rows[i].agent /\ row.acted
      BY <1>1 DEF Row
    <3>2. rows' = [rows EXCEPT ![i] = row]
      BY <1>1, <2>2
    <3> HIDE DEF row
    <3> QED BY <1>1, <1>2, <2>1, <3>1, <3>2
  <2>3. CASE rows' = [rows EXCEPT ![i].owner = "failed"]
    <3> DEFINE row == [rows[i] EXCEPT !.owner = "failed"]
    <3>1. row \in Row /\ row.type = rows[i].type /\ row.event = rows[i].event
          /\ row.agent = rows[i].agent /\ row.acted = rows[i].acted
      BY <1>1 DEF Row
    <3>2. rows' = [rows EXCEPT ![i] = row]
      BY <1>1, <2>3
    <3> HIDE DEF row
    <3> QED BY <1>1, <1>2, <2>1, <3>1, <3>2
  <2> QED BY <1>4, <2>2, <2>3 DEF Execute
<1>5. ASSUME Charge(i, "agent") PROVE FireInv'
  <2> DEFINE row == [rows[i] EXCEPT !.agent = "done"]
  <2>1. /\ rows[i].agent = "budget" /\ eval' = eval /\ settings' = settings /\ config' = config
        /\ rows' = [rows EXCEPT ![i].agent = "done"] /\ racers' = racers /\ crowd' = crowd
    BY <1>5 DEF Charge, historyVars
  <2>2. row \in Row /\ row.type = rows[i].type /\ row.event = rows[i].event /\ row.agent = "done"
        /\ row.acted = rows[i].acted
    BY <1>1 DEF Row
  <2>3. rows' = [rows EXCEPT ![i] = row]
    BY <1>1, <2>1
  <2> HIDE DEF row
  <2> QED BY <1>1, <1>2, <2>1, <2>2, <2>3
<1>6. ASSUME NEW owner \in {"future", "plan", "done"}, eval' = eval, settings' = settings,
             racers' = racers, crowd' = crowd,
             config' \in [TypeSet -> Config], rows' = [rows EXCEPT ![i].owner = owner]
      PROVE  FireInv'
  <2> DEFINE row == [rows[i] EXCEPT !.owner = owner]
  <2>1. row \in Row /\ row.type = rows[i].type /\ row.event = rows[i].event
        /\ row.agent = rows[i].agent /\ row.acted = rows[i].acted
    BY <1>1 DEF Row
  <2>2. rows' = [rows EXCEPT ![i] = row]
    BY <1>1, <1>6
  <2> HIDE DEF row
  <2> QED BY <1>1, <1>2, <1>6, <2>1, <2>2
<1>7. ASSUME Charge(i, "owner") \/ Promote(i) PROVE FireInv'
  BY <1>1, <1>6, <1>7 DEF Charge, Promote, historyVars
<1>8. ASSUME Future(i) PROVE FireInv'
  <2>1. config' \in [TypeSet -> Config]
    <3>1. rows[i].type \in TypeSet
      BY <1>1 DEF Row
    <3>2. config[rows[i].type] \in Config
      BY <1>1, <3>1
    <3>3. [config[rows[i].type] EXCEPT !.live = TRUE] \in Config
      BY <3>2 DEF Config
    <3> HIDE DEF Config
    <3> QED BY <1>1, <1>8, <3>1, <3>3 DEF Future
  <2> QED BY <1>6, <1>8, <2>1 DEF Future, historyVars
<1> QED BY <1>3, <1>4, <1>5, <1>7, <1>8 DEF ExecutionStep

\* Steps that touch neither the rows nor an evaluation.
LEMMA ElsewhereFires ==
  ASSUME FireInv, rows' = rows, eval' = eval, racers' = racers, crowd' = crowd,
         config' \in [TypeSet -> Config], settings' \in [enabled : BOOLEAN, L2 : BOOLEAN]
  PROVE  FireInv'
<1>1. TriggersShaped' /\ Executed' /\ Busy'
  BY DEF FireInv, TriggersShaped, Executed, Busy
<1>2. /\ OwnFires' = OwnFires /\ Counted' = Counted
      /\ \A k : RowsOf(k)' = RowsOf(k) /\ Past(k)' = Past(k)
  BY DEF OwnFires, Counted, RowsOf, RowKey, Past, Key, Type
<1>3. KeyRoom' /\ DayRoom'
  BY <1>2 DEF FireInv, KeyRoom, DayRoom
<1> QED BY <1>1, <1>3 DEF FireInv

\* Every step of the desk.
LEMMA FireStep == FireInv /\ [DeskNext]_deskVars => FireInv'
<1> SUFFICES ASSUME FireInv, [DeskNext]_deskVars PROVE FireInv'
  OBVIOUS
<1>0. config \in [TypeSet -> Config] /\ settings \in [enabled : BOOLEAN, L2 : BOOLEAN]
  BY DEF FireInv, TriggersShaped
<1>1. CASE UNCHANGED triggerVars
  BY <1>0, <1>1, ElsewhereFires DEF triggerVars, historyVars
<1>2. CASE TriggersNext
  <2>1. ASSUME NEW e \in Evals, EvalStep(e) PROVE FireInv'
    BY <2>1, WakeFires, ReadConfigFires, CountFires, ChecksFire, InsertFires DEF EvalStep
  <2>2. ASSUME NEW i \in DOMAIN rows, ExecutionStep(i) PROVE FireInv'
    BY <2>2, ExecutionFires
  <2>3. CASE Change
    <3>1. rows' = rows /\ eval' = eval /\ racers' = racers /\ crowd' = crowd
      BY <2>3 DEF Change, historyVars
    <3>2. settings' \in [enabled : BOOLEAN, L2 : BOOLEAN]
      BY <1>0, <2>3 DEF Change
    <3>3. config' \in [TypeSet -> Config]
      BY <1>0, <2>3, ConfigsAssumption DEF Change, Config
    <3> QED BY <3>1, <3>2, <3>3, ElsewhereFires
  <2>4. CASE Cool
    BY <1>0, <2>4, ElsewhereFires DEF Cool, historyVars
  <2> QED BY <1>2, <2>1, <2>2, <2>3, <2>4 DEF TriggersNext
<1> QED BY <1>1, <1>2 DEF DeskNext, deskVars

\* At the start no event was evaluated.
LEMMA FireInitially == DeskInit => FireInv
<1> SUFFICES ASSUME DeskInit PROVE FireInv
  OBVIOUS
<1>1. /\ config \in [TypeSet -> Configs] /\ settings \in [enabled : {TRUE}, L2 : BOOLEAN]
      /\ rows = <<>> /\ eval = [e \in Evals |-> Asleep]
      /\ racers = [k \in FireKeys |-> 0] /\ crowd = 0
  BY DEF DeskInit, TriggersInit, FireKeys
<1>2. DOMAIN rows = {} /\ rows \in Seq(Row)
  BY <1>1
<1>3. Asleep \in EvalShape /\ Asleep.pc = "asleep"
  BY DEF Asleep, EvalShape
<1>4. TriggersShaped
  BY <1>1, <1>2, <1>3, ConfigsAssumption DEF TriggersShaped, Config
<1>5. Executed /\ Busy
  BY <1>1, <1>2, <1>3 DEF Executed, Busy, Walking, Checking, Railed
<1>6. OwnFires = {} /\ Counted = {} /\ \A k : RowsOf(k) = {} /\ Past(k) = {}
  BY <1>1, <1>2, <1>3 DEF OwnFires, Counted, RowsOf, Past, Railed
<1>7. KeyRoom
  <2> SUFFICES ASSUME NEW k \in FireKeys
               PROVE  Cardinality(RowsOf(k)) + Cardinality(Past(k)) <= racers[k]
    BY DEF KeyRoom
  <2>1. RowsOf(k) = {} /\ Past(k) = {} /\ racers[k] = 0
    BY <1>1, <1>6
  <2>2. Cardinality({}) = 0
    BY FS_EmptySet
  <2> QED BY <2>1, <2>2
<1>8. DayRoom
  BY <1>1, <1>6, TypesAssumption, FS_EmptySet DEF DayRoom
<1> QED BY <1>4, <1>5, <1>7, <1>8 DEF FireInv

\* The rows alone are no more than the rows and what may become one.
LEMMA FiresFollow == FireInv => FiresAreBounded
<1> SUFFICES ASSUME FireInv PROVE FiresAreBounded
  OBVIOUS
<1>1. rows \in Seq(Row) /\ racers \in [FireKeys -> Nat] /\ crowd \in Nat
  BY DEF FireInv, TriggersShaped
<1>2. ASSUME NEW k \in FireKeys PROVE Cardinality(RowsOf(k)) <= racers[k]
  <2>1. Cardinality(RowsOf(k)) \in Nat /\ Cardinality(Past(k)) \in Nat /\ racers[k] \in Nat
    BY <1>1, FireCounts
  <2>2. Cardinality(RowsOf(k)) + Cardinality(Past(k)) <= racers[k]
    BY DEF FireInv, KeyRoom
  <2> QED BY <2>1, <2>2
<1>3. WithinDayCap
  BY <1>1, FireCounts, TypesAssumption DEF FireInv, DayRoom, WithinDayCap
<1> QED BY <1>2, <1>3 DEF FiresAreBounded, OncePerKey, FireKeys

\* For one event a trigger fires no more often than evaluations of it were past its dedupe
\* at a time, once where they do not overlap there; and the agent's own live fires of a day
\* pass the cap by no more than the most that were on their way when it was found free:
\* however evaluations overlap, plans execute, fail and are promoted, settings change and
\* the risk state moves (triggers/evaluator.ts:121-124, 160-163, 175-207).
THEOREM FiresBounded == DeskSpec => []FiresAreBounded
<1> QED BY FiresFollow, FireInitially, FireStep, PTL DEF DeskSpec

-----------------------------------------------------------------------------
(* Losses halt the owner. *)

Late == {"compare", "forgive", "trip"}

\* What a refresh read of exits in turn is what there is.
HeedInv ==
  /\ closed \in Seq(Int) /\ read \in [Positions -> Seq(Int)] /\ pc \in [Positions -> Places]
  /\ IsFiniteSet(Moving) /\ errors \in Nat
  /\ \A p \in Positions : pc[p] \in Late => read[p] = Recent(closed)

\* Where one position at most is on its way, two are the same.
LEMMA OneMoves ==
  ASSUME NEW S, IsFiniteSet(S), Cardinality(S) <= 1, NEW p \in S, NEW q \in S
  PROVE  p = q
<1>1. IsFiniteSet({p, q}) /\ Cardinality({p, q}) <= Cardinality(S)
  BY FS_Subset
<1>2. p # q => Cardinality({p, q}) = 2
  <2>1. IsFiniteSet({q}) /\ Cardinality({q}) = 1
    BY FS_Singleton
  <2>2. p # q => Cardinality({q} \union {p}) = 2
    BY <2>1, FS_AddElement
  <2>3. {q} \union {p} = {p, q}
    OBVIOUS
  <2> QED BY <2>2, <2>3
<1>3. Cardinality(S) \in Nat
  BY FS_CardinalityType
<1> QED BY <1>1, <1>2, <1>3

\* The returns of a list are bounded below.
LEMMA SeqBelow ==
  ASSUME NEW s \in Seq(Int)
  PROVE  \E B \in Int : B <= 0 /\ \A i \in 1..Len(s) : B <= s[i]
<1> DEFINE Bounded(n) == \E B \in Int : B <= 0 /\ \A i \in 1..n : B <= s[i]
           Bad == {n \in 0..Len(s) : ~Bounded(n)}
<1>1. Len(s) \in Nat /\ Len(s) \in 0..Len(s) /\ \A i \in 1..Len(s) : s[i] \in Int
  OBVIOUS
<1>2. SUFFICES ASSUME Bad # {} PROVE FALSE
  BY <1>1
<1>3. PICK n \in Bad : \A m \in Bad : n <= m
  <2>1. Bad \in SUBSET Nat
    BY <1>1
  <2> HIDE DEF Bad
  <2> QED BY <1>2, <2>1, LeastNatural
<1>4. n \in 0..Len(s) /\ ~Bounded(n)
  BY <1>3
<1>5. n # 0
  <2>1. 0 \in Int /\ 0 <= 0 /\ \A i \in 1..0 : 0 <= s[i]
    OBVIOUS
  <2>2. Bounded(0)
    BY <2>1
  <2> QED BY <1>4, <2>2
<1>6. n - 1 \in 0..Len(s) /\ n \in 1..Len(s)
  BY <1>1, <1>4, <1>5
<1>7. Bounded(n - 1)
  <2>1. n - 1 \notin Bad
    <3>1. ~(n <= n - 1)
      BY <1>1, <1>4
    <3> HIDE DEF Bad
    <3> QED BY <1>3, <3>1
  <2> HIDE DEF Bounded
  <2> QED BY <1>6, <2>1
<1>8. PICK B \in Int : B <= 0 /\ \A i \in 1..n - 1 : B <= s[i]
  BY <1>7
<1> DEFINE C == IF B <= s[n] THEN B ELSE s[n]
<1>9. C \in Int /\ C <= B /\ C <= s[n] /\ C <= 0
  BY <1>1, <1>6, <1>8
<1> HIDE DEF C
<1>10. \A i \in 1..n : C <= s[i]
  <2>1. ASSUME NEW i \in 1..n PROVE C <= s[i]
    <3>1. i = n \/ i \in 1..n - 1
      BY <1>1, <1>6
    <3>2. i \in 1..Len(s) /\ s[i] \in Int
      BY <1>1, <1>6
    <3> QED BY <1>8, <1>9, <3>1, <3>2
  <2> QED BY <2>1
<1> QED BY <1>4, <1>9, <1>10

\* A list of losses that halts: too large a loss among the last Window, or a streak.
Halting(returns) ==
  \/ \E i \in DOMAIN returns : i > Len(returns) - Window /\ -returns[i] >= HaltDrawdown
  \/ /\ HaltLosses <= Window /\ HaltLosses <= Len(returns)
     /\ \A i \in 0..HaltLosses - 1 : returns[Len(returns) - i] < 0

\* The breakers see it.
LEMMA HaltingIs ==
  ASSUME NEW t \in Seq(Int), Halting(t)
  PROVE  Verdict(Recent(t)) = "halted"
<1>1. /\ Len(t) \in Nat /\ DOMAIN t = 1..Len(t) /\ Window \in Nat \ {0}
      /\ HaltLosses \in Nat \ {0} /\ HaltDrawdown \in Nat \ {0}
      /\ \A i \in 1..Len(t) : t[i] \in Int
  BY BreakersAssumption
<1> DEFINE m == Min({Window, Len(t)})
           k == Len(t) - m
           s == Recent(t)
<1>2. m \in {Window, Len(t)} /\ m <= Len(t) /\ m <= Window
  <2>1. {Window, Len(t)} \in SUBSET Nat
    BY <1>1
  <2> QED BY <2>1, MinIs
<1>3. m \in Nat /\ k \in Nat /\ k <= Len(t) /\ Len(t) = k + m
  BY <1>1, <1>2
<1>4. s = SubSeq(t, k + 1, Len(t))
  BY DEF Recent
<1> HIDE DEF m, s
<1>5. /\ s \in Seq(Int) /\ Len(s) = m /\ DOMAIN s = 1..m
      /\ \A i \in 1..m : s[i] = t[k + i] /\ s[i] \in Int
  <2> HIDE DEF k
  <2>1. /\ SubSeq(t, k + 1, Len(t)) \in Seq(Int) /\ Len(SubSeq(t, k + 1, Len(t))) = Len(t) - k
        /\ \A i \in 1..(Len(t) - k) : SubSeq(t, k + 1, Len(t))[i] = t[k + i]
    BY <1>1, <1>3
  <2>2. Len(t) - k = m
    BY <1>1, <1>3
  <2>3. s \in Seq(Int) /\ Len(s) = m /\ \A i \in 1..m : s[i] = t[k + i]
    BY <1>4, <2>1, <2>2
  <2>4. DOMAIN s = 1..m /\ \A i \in 1..m : s[i] \in Int
    BY <1>3, <2>3
  <2> QED BY <2>3, <2>4
<1>6. CASE \E i \in DOMAIN t : i > Len(t) - Window /\ -t[i] >= HaltDrawdown
  <2>1. PICK i \in 1..Len(t) : i > Len(t) - Window /\ -t[i] >= HaltDrawdown
    BY <1>1, <1>6
  <2>2. i - k \in 1..m /\ k + (i - k) = i
    <3>1. i > k
      <4>1. CASE m = Window
        BY <2>1, <4>1
      <4>2. CASE m = Len(t)
        BY <1>1, <2>1, <4>2
      <4> QED BY <1>2, <4>1, <4>2
    <3> HIDE DEF k
    <3> QED BY <1>1, <1>3, <2>1, <3>1
  <2>3. s[i - k] = t[i]
    BY <1>5, <2>2
  <2> DEFINE T == {0} \cup ToSet(s)
  <2>4. t[i] \in T /\ t[i] \in Int
    BY <1>1, <1>5, <2>2, <2>3 DEF ToSet
  <2>5. WorstDrawdown(s) = -Min(T)
    BY DEF WorstDrawdown
  <2>6. T \in SUBSET Int /\ T # {}
    BY <1>5 DEF ToSet
  <2>7. \E B \in Int : \A x \in T : B <= x
    <3>1. PICK B \in Int : B <= 0 /\ \A j \in 1..Len(s) : B <= s[j]
      BY <1>5, SeqBelow
    <3>2. \A x \in T : x = 0 \/ \E j \in 1..m : x = s[j]
      BY <1>5 DEF ToSet
    <3> HIDE DEF T
    <3> QED BY <1>5, <3>1, <3>2
  <2>8. Min(T) \in Int /\ Min(T) <= t[i]
    <3> HIDE DEF T
    <3>1. PICK B \in Int : \A x \in T : B <= x
      BY <2>7
    <3> QED BY <2>4, <2>6, <3>1, MinFrom
  <2>9. WorstDrawdown(s) >= HaltDrawdown
    <3> HIDE DEF T
    <3> QED BY <1>1, <2>1, <2>4, <2>5, <2>8
  <2> QED BY <2>9 DEF Verdict, s
<1>7. CASE /\ HaltLosses <= Window /\ HaltLosses <= Len(t)
           /\ \A i \in 0..HaltLosses - 1 : t[Len(t) - i] < 0
  <2>1. HaltLosses <= m
    BY <1>2, <1>7
  <2> DEFINE T == {n \in 0..Len(s) : \A i \in Len(s) - n + 1 .. Len(s) : s[i] < 0}
  <2>2. ASSUME NEW i \in m - HaltLosses + 1 .. m PROVE s[i] < 0
    <3>1. i \in 1..m /\ m - i \in 0..HaltLosses - 1 /\ Len(t) - (m - i) = k + i
      BY <1>1, <1>3, <2>1
    <3> QED BY <1>5, <1>7, <3>1
  <2>3. HaltLosses \in T /\ T \in SUBSET (0..m)
    BY <1>1, <1>3, <1>5, <2>1, <2>2
  <2>4. Consecutive(s) = Max(T)
    BY DEF Consecutive
  <2>5. Max(T) >= HaltLosses
    <3> HIDE DEF T
    <3> QED BY <1>3, <2>3, MaxIs
  <2> QED BY <2>4, <2>5 DEF Verdict, s
<1> QED BY <1>6, <1>7 DEF Halting

\* A step that ends a refresh of what there is halts the owner.
LEMMA RefreshHeeds ==
  ASSUME HeedInv, NEW p \in Positions, DeskNext
  PROVE  HeedsLosses(p)
<1>1. SUFFICES ASSUME pc[p] \in Late, pc'[p] = "done", errors' = errors, Halting(closed)
      PROVE  risk'.state = "halted"
  BY DEF HeedsLosses, Halting, Late
<1>2. Verdict(read[p]) = "halted"
  BY <1>1, HaltingIs DEF HeedInv
<1>3. /\ pc \in [Positions -> Places] /\ pc' # pc
      /\ pc[p] \in {"compare", "forgive", "trip"}
  BY <1>1 DEF HeedInv, Late
<1>4. ASSUME NEW q \in Positions, Entry(q) \/ Exit(q) PROVE q = p
  <2>1. \E where : pc' = [pc EXCEPT ![q] = where]
    BY <1>4 DEF Entry, Exit, Request, Gate, Clear, Start, Bind, Approve, Claim, Stop,
                MarkClosed, ReadReturns, Compare, Forgive, Trip, RefreshFails, Goto, GotoFrom
  <2> QED BY <1>1, <1>3, <2>1
<1>5. Entry(p) \/ Exit(p)
  <2>1. PostRisk \/ Wait \/ UNCHANGED positionVars => UNCHANGED pc
    BY DEF PostRisk, Wait, positionVars
  <2> QED BY <1>3, <1>4, <2>1 DEF DeskNext
<1>6. Compare(p) \/ Forgive(p) \/ Trip(p)
  <2>1. ~RefreshFails(p)
    <3>1. RefreshFails(p) => errors < MaxErrors /\ errors' = errors + 1
      BY DEF RefreshFails, Fails
    <3>2. errors \in Nat
      BY DEF HeedInv
    <3> QED BY <1>1, <3>1, <3>2
  <2> QED BY <1>1, <1>3, <1>5, <2>1
      DEF Entry, Exit, Request, Gate, Clear, Start, Bind, Approve, Claim, Stop,
          MarkClosed, ReadReturns
<1>7. \A where : GotoFrom(p, where) => where = "done"
  BY <1>1, <1>3 DEF GotoFrom, Goto
<1>8. CASE Compare(p)
  <2>1. ~Expired /\ Against(p, risk.state) = "done" /\ risk' = risk
    BY <1>7, <1>8 DEF Compare
  <2> QED BY <1>2, <2>1 DEF Against, Rank
<1>9. CASE Forgive(p)
  <2>1. Against(p, "normal") = "done"
    BY <1>7, <1>9 DEF Forgive
  <2> QED BY <1>2, <2>1 DEF Against, Rank
<1>10. CASE Trip(p)
  BY <1>2, <1>10 DEF Trip, SetRisk
<1> QED BY <1>6, <1>8, <1>9, <1>10

\* Exits in turn keep what a refresh read up to date.
LEMMA HeedStep ==
  ASSUME HeedInv, [DeskNext]_deskVars, Cardinality(Moving') <= 1, errors' \in Nat
  PROVE  HeedInv'
<1>1. /\ closed \in Seq(Int) /\ read \in [Positions -> Seq(Int)] /\ pc \in [Positions -> Places]
      /\ IsFiniteSet(Moving)
      /\ \A p \in Positions : pc[p] \in Late => read[p] = Recent(closed)
  BY DEF HeedInv
<1>2. ASSUME UNCHANGED <<pc, closed, read>> PROVE HeedInv'
  BY <1>2 DEF HeedInv, Moving
<1>3. ASSUME NEW p \in Positions, Entry(p) \/ Exit(p) PROVE HeedInv'
  <2>1. PICK where \in Places : pc' = [pc EXCEPT ![p] = where]
    <3>1. CASE Entry(p)
      BY <3>1 DEF Entry, Request, Gate, Clear, Start, Bind, Approve, Goto, Places, Before, Closing
    <3>2. CASE Exit(p)
      BY <3>2 DEF Exit, Claim, Stop, MarkClosed, ReadReturns, Compare, Forgive, Trip,
                  RefreshFails, Goto, GotoFrom, Against, Places, Before, Closing
    <3> QED BY <1>3, <3>1, <3>2
  <2>2. /\ pc' \in [Positions -> Places] /\ pc'[p] = where
        /\ \A q \in Positions \ {p} : pc'[q] = pc[q]
    BY <1>1, <2>1
  <2>3. Moving' \subseteq Moving \union {p} /\ IsFiniteSet(Moving \union {p})
    <3>1. IsFiniteSet(Moving \union {p})
      BY <1>1, FS_AddElement
    <3> QED BY <2>2, <3>1 DEF Moving
  <2>4. IsFiniteSet(Moving')
    BY <2>3, FS_Subset
  <2>5. CASE MarkClosed(p) /\ closed' # closed
    <3>1. /\ where = "refresh" /\ read' = read
          /\ \E return \in Returns : closed' = Append(closed, return)
      <4>1. pc' = [pc EXCEPT ![p] = "refresh"]
        BY <2>5 DEF MarkClosed, riskVars, Goto
      <4> QED BY <1>1, <2>2, <2>5, <4>1 DEF MarkClosed, Close, riskVars
    <3>2. closed' \in Seq(Int)
      BY <1>1, <3>1, ReturnsAssumption
    <3>3. p \in Moving' /\ \A q \in Positions : pc'[q] \in Late => q \in Moving'
      BY <2>2, <3>1 DEF Moving, Resting, Late
    <3>4. \A q \in Moving' : q = p
      BY <2>4, <3>3, OneMoves
    <3>5. \A q \in Positions : pc'[q] \notin Late
      BY <2>2, <3>1, <3>3, <3>4 DEF Late
    <3> QED BY <1>1, <2>2, <2>4, <3>1, <3>2, <3>5 DEF HeedInv
  <2>6. CASE closed' = closed
    <3>1. \/ read' = read /\ where \notin Late
          \/ read' = read /\ pc[p] \in Late
          \/ read' = [read EXCEPT ![p] = Recent(closed)]
          \/ read' = [read EXCEPT ![p] = <<>>] /\ where \notin Late
      <4>1. CASE Entry(p)
        <5>1. /\ read' = read
              /\ \E w \in Places \ Late : pc' = [pc EXCEPT ![p] = w]
          BY <4>1 DEF Entry, Request, Gate, Clear, Start, Bind, Approve, Goto,
                      Places, Before, Closing, Late
        <5> QED BY <1>1, <2>2, <5>1
      <4>2. CASE Claim(p) \/ Stop(p) \/ MarkClosed(p)
        <5>1. /\ read' = read
              /\ \E w \in Places \ Late : pc' = [pc EXCEPT ![p] = w]
          BY <4>2 DEF Claim, Stop, MarkClosed, Goto, Places, Before, Closing, Late
        <5> QED BY <1>1, <2>2, <5>1
      <4>3. CASE ReadReturns(p)
        BY <4>3 DEF ReadReturns
      <4>4. CASE Compare(p) \/ Forgive(p) \/ Trip(p)
        <5>1. pc[p] \in Late
          BY <4>4 DEF Compare, Forgive, Trip, Late
        <5>2. PICK w : GotoFrom(p, w)
          BY <4>4 DEF Compare, Forgive, Trip
        <5>3. read' = read \/ (w = "done" /\ read' = [read EXCEPT ![p] = <<>>])
          BY <5>2 DEF GotoFrom
        <5>4. where = w
          BY <1>1, <2>2, <5>2 DEF GotoFrom, Goto
        <5> QED BY <5>1, <5>3, <5>4 DEF Late
      <4>5. CASE RefreshFails(p)
        <5>1. where = "done" /\ read' = [read EXCEPT ![p] = <<>>]
          BY <1>1, <2>2, <4>5 DEF RefreshFails, GotoFrom, Goto
        <5> QED BY <5>1 DEF Late
      <4> QED BY <1>3, <4>1, <4>2, <4>3, <4>4, <4>5 DEF Exit
    <3>2. Recent(closed) \in Seq(Int) /\ <<>> \in Seq(Int)
      BY <1>1, RecentIs
    <3>3. read' \in [Positions -> Seq(Int)]
      BY <1>1, <3>1, <3>2
    <3>4. \A q \in Positions : pc'[q] \in Late => read'[q] = Recent(closed)
      BY <1>1, <2>2, <3>1
    <3> QED BY <1>1, <2>2, <2>4, <2>6, <3>3, <3>4 DEF HeedInv
  <2>7. closed' = closed \/ MarkClosed(p)
    BY <1>3 DEF Entry, Exit, Request, Gate, Clear, Start, Bind, Approve, Claim, Stop,
                ReadReturns, Compare, Forgive, Trip, RefreshFails, ClearRisk, SetRisk
  <2> QED BY <2>5, <2>6, <2>7
<1>4. ASSUME PostRisk \/ Wait PROVE HeedInv'
  <2>1. UNCHANGED <<pc, closed, read>>
    BY <1>4 DEF PostRisk, Wait, SetRisk, CooldownPasses, positionVars
  <2> QED BY <1>2, <2>1
<1>5. ASSUME TriggersNext, UNCHANGED positionVars PROVE HeedInv'
  <2>1. closed' = closed
    BY <1>5, TriggersLeaveClosed
  <2> QED BY <1>2, <1>5, <2>1 DEF positionVars
<1>6. ASSUME UNCHANGED deskVars PROVE HeedInv'
  BY <1>2, <1>6 DEF deskVars, positionVars, riskVars
<1> QED BY <1>3, <1>4, <1>5, <1>6 DEF DeskNext

\* At the start nothing moves.
LEMMA HeedInitially == DeskInit => HeedInv
<1> SUFFICES ASSUME DeskInit PROVE HeedInv
  OBVIOUS
<1>1. \A p \in Positions : pc[p] = "none"
  BY DEF DeskInit
<1>2. Moving = {}
  BY <1>1 DEF Moving, Resting
<1>3. /\ closed \in Seq(Int) /\ read \in [Positions -> Seq(Int)]
      /\ pc \in [Positions -> Places] /\ errors \in Nat
  BY DEF DeskInit, Places, Before
<1> QED BY <1>1, <1>2, <1>3, FS_EmptySet DEF HeedInv, Late

(* Where no two exits overlap, a refresh that ends without an error leaves the owner   *)
(* halted when the last returns are a streak of losses, or one loss among those it     *)
(* looks at is too large (risk/index.ts:97-121): after any number of exits, whatever   *)
(* the thresholds, the cooldowns and the failures before.                              *)
THEOREM LossesAreHeeded == MCSpec => LossesHalt
<1> DEFINE Turns == WatchInv /\ (part = "turns" => HeedInv)
<1>1. MCInit => Turns
  BY WatchInitially, HeedInitially DEF MCInit
<1>2. Turns /\ [MCNext]_<<deskVars, part>> => Turns'
  <2> SUFFICES ASSUME Turns, [MCNext]_<<deskVars, part>> PROVE Turns'
    OBVIOUS
  <2>1. WatchInv'
    BY WatchKept DEF MCNext
  <2>2. errors' \in Nat
    BY <2>1 DEF WatchInv, DeskShaped, Counting
  <2>3. ASSUME part' = "turns" PROVE HeedInv'
    <3>1. part = "turns" /\ HeedInv
      BY <2>3 DEF MCNext
    <3>2. CASE MCNext
      BY <2>2, <3>1, <3>2, HeedStep DEF MCNext, Within
    <3>3. CASE UNCHANGED <<deskVars, part>>
      BY <3>1, <3>3 DEF deskVars, positionVars, riskVars, HeedInv, Moving
    <3> QED BY <3>2, <3>3
  <2> QED BY <2>1, <2>3
<1>3. Turns /\ [MCNext]_<<deskVars, part>>
      => [part = "turns" => \A p \in Positions : HeedsLosses(p)]_deskVars
  BY RefreshHeeds DEF MCNext
<1> QED BY <1>1, <1>2, <1>3, PTL DEF MCSpec, LossesHalt

-----------------------------------------------------------------------------
(* Of those who come in turn, only the expiry of a cooldown lowers the risk state. *)

\* Somebody stays between reading the risk state and writing it.
Deciding == {"clear", "forgive", "trip"}
Waits == \/ \E p \in Positions : pc[p] \in Deciding /\ pc'[p] = pc[p]
         \/ \E e \in Evals : eval[e].pc = "clear" /\ eval'[e].pc = "clear"

\* Meanwhile nobody else writes it, and no more happens to it than that time passes.
RiskInTurn == Waits => risk' = risk \/ CooldownPasses

\* Who is about to clear the state clears an expired one, and who is about to trip it
\* raises it.
Acts(p) ==
  /\ pc[p] \in {"clear", "forgive"} => Expired
  /\ pc[p] = "trip" => Rank(Verdict(read[p])) > Rank(risk.state)
Wakes(e) == DOMAIN eval[e] = DOMAIN Asleep /\ (eval[e].pc = "clear" => Expired)
EscalateInv ==
  /\ pc \in [Positions -> Places] /\ DOMAIN read = Positions /\ DOMAIN eval = Evals
  /\ risk \in [state : States, cooldown : {"none", "running", "over"}]
  /\ \A p \in Positions : Acts(p)
  /\ \A e \in Evals : Wakes(e)

\* A verdict is a state.
LEMMA VerdictIn == ASSUME NEW t PROVE Verdict(t) \in States
  BY DEF Verdict, States

\* While somebody waits to write it the state stays what it was, and over stays over.
LEMMA RiskStays ==
  ASSUME EscalateInv, RiskInTurn
  PROVE  /\ \A p \in Positions :
              pc[p] \in Deciding /\ pc'[p] = pc[p] /\ read'[p] = read[p] => Acts(p)'
         /\ \A e \in Evals :
              eval[e].pc = "clear" /\ eval'[e].pc = "clear" => Expired'
<1>1. ASSUME Waits PROVE risk'.state = risk.state /\ (Expired => Expired')
  BY <1>1 DEF RiskInTurn, CooldownPasses, EscalateInv, Expired
<1>2. ASSUME NEW p \in Positions, pc[p] \in Deciding, pc'[p] = pc[p], read'[p] = read[p]
      PROVE  Acts(p)'
  <2>1. Waits
    BY <1>2 DEF Waits
  <2>2. Acts(p)
    BY DEF EscalateInv
  <2> QED BY <1>1, <1>2, <2>1, <2>2 DEF Acts
<1>3. ASSUME NEW e \in Evals, eval[e].pc = "clear", eval'[e].pc = "clear"
      PROVE  Expired'
  BY <1>1, <1>3 DEF Waits, EscalateInv, Wakes
<1> QED BY <1>2, <1>3

\* A step of a position keeps what all others are about to do.
LEMMA ActsKept ==
  ASSUME EscalateInv, RiskInTurn, NEW p \in Positions, NEW where \in Places,
         pc' = [pc EXCEPT ![p] = where],
         DOMAIN read' = Positions, \A q \in Positions \ {p} : read'[q] = read[q],
         eval' = eval, risk' \in [state : States, cooldown : {"none", "running", "over"}],
         Acts(p)'
  PROVE  EscalateInv'
<1>1. /\ pc' \in [Positions -> Places] /\ \A q \in Positions \ {p} : pc'[q] = pc[q]
  BY DEF EscalateInv
<1>2. ASSUME NEW q \in Positions PROVE Acts(q)'
  <2>1. CASE q # p /\ pc[q] \in Deciding
    BY <1>1, <2>1, RiskStays
  <2>2. CASE q # p /\ pc[q] \notin Deciding
    BY <1>1, <2>2 DEF Acts, Deciding
  <2> QED BY <2>1, <2>2
<1>3. ASSUME NEW e \in Evals PROVE Wakes(e)'
  <2>1. DOMAIN eval[e] = DOMAIN Asleep
    BY DEF EscalateInv, Wakes
  <2> QED BY <2>1, RiskStays DEF Wakes, Asleep
<1>4. DOMAIN eval' = Evals
  BY DEF EscalateInv
<1> QED BY <1>1, <1>2, <1>3, <1>4 DEF EscalateInv

\* A step that leaves the positions alone.
LEMMA WakesKept ==
  ASSUME EscalateInv, RiskInTurn, UNCHANGED <<pc, read>>,
         risk' \in [state : States, cooldown : {"none", "running", "over"}],
         DOMAIN eval' = Evals,
         \A e \in Evals : /\ DOMAIN eval'[e] = DOMAIN Asleep
                          /\ eval'[e].pc = "clear" => eval[e].pc = "clear" \/ Expired'
  PROVE  EscalateInv'
<1>1. ASSUME NEW q \in Positions PROVE Acts(q)'
  <2>1. CASE pc[q] \in Deciding
    BY <2>1, RiskStays
  <2>2. CASE pc[q] \notin Deciding
    BY <2>2 DEF Acts, Deciding
  <2> QED BY <2>1, <2>2
<1>2. ASSUME NEW e \in Evals PROVE Wakes(e)'
  BY RiskStays DEF Wakes, Asleep
<1> QED BY <1>1, <1>2 DEF EscalateInv

\* The steps of a position; one that lowers the state finds it expired.
LEMMA EscalatesAt ==
  ASSUME EscalateInv, RiskInTurn, NEW p \in Positions, Entry(p) \/ Exit(p), UNCHANGED triggerVars
  PROVE  EscalateInv' /\ (Rank(risk'.state) < Rank(risk.state) => risk.cooldown = "over")
<1>0. /\ pc \in [Positions -> Places] /\ DOMAIN read = Positions /\ Acts(p)
      /\ risk \in [state : States, cooldown : {"none", "running", "over"}]
      /\ eval' = eval
  BY DEF EscalateInv, triggerVars
<1>12. {"clear", "run", "refused", "compare", "forgive", "trip", "done"} \subseteq Places
  BY DEF Places, Before, Closing
<1>11. risk' = risk => ~(Rank(risk'.state) < Rank(risk.state))
  BY DEF Rank
<1>1. ASSUME NEW where \in Places, Goto(p, where), read' = read, risk' = risk,
             where \notin Deciding \/ (where = "clear" /\ Expired)
      PROVE  EscalateInv'
  <2>1. pc'[p] = where
    BY <1>0, <1>1 DEF Goto
  <2>2. Acts(p)'
    BY <1>1, <2>1 DEF Acts, Deciding, Expired
  <2> QED BY <1>0, <1>1, <2>2, ActsKept DEF Goto
<1>2. ASSUME NEW where \in Places \ {"clear"}, GotoFrom(p, where),
             risk' \in [state : States, cooldown : {"none", "running", "over"}],
             where = "forgive" => Expired',
             where = "trip" => Rank(Verdict(read[p])) > Rank(risk'.state)
      PROVE  EscalateInv'
  <2>1. /\ pc' = [pc EXCEPT ![p] = where] /\ pc'[p] = where
        /\ DOMAIN read' = Positions /\ \A q \in Positions \ {p} : read'[q] = read[q]
        /\ where # "done" => read'[p] = read[p]
    BY <1>0, <1>2 DEF GotoFrom, Goto
  <2>2. Acts(p)'
    BY <1>2, <2>1 DEF Acts
  <2> QED BY <1>0, <1>2, <2>1, <2>2, ActsKept
<1>3. CASE Gate(p)
  <2>1. PICK where \in {"clear", "run", "refused"} :
           Goto(p, where) /\ (where = "clear" => Expired)
    BY <1>3 DEF Gate
  <2>2. read' = read /\ risk' = risk
    BY <1>3 DEF Gate
  <2>3. where \in Places /\ (where \notin Deciding \/ (where = "clear" /\ Expired))
    BY <1>12, <2>1 DEF Deciding
  <2> QED BY <1>1, <1>11, <2>1, <2>2, <2>3
<1>4. CASE Request(p) \/ Start(p) \/ Bind(p) \/ Approve(p) \/ Claim(p) \/ Stop(p) \/ MarkClosed(p)
  <2>1. PICK where \in Places \ Deciding : Goto(p, where)
    BY <1>4 DEF Request, Start, Bind, Approve, Claim, Stop, MarkClosed, Places, Before, Closing,
                Deciding
  <2>2. read' = read /\ risk' = risk
    BY <1>4 DEF Request, Start, Bind, Approve, Claim, Stop, MarkClosed, Close, riskVars
  <2> QED BY <1>1, <1>11, <2>1, <2>2
<1>5. CASE Clear(p)
  <2>1. pc[p] = "clear" /\ Goto(p, "run") /\ read' = read /\ risk' = Normal
    BY <1>5 DEF Clear, ClearRisk
  <2>2. Expired
    BY <1>0, <2>1 DEF Acts
  <2>3. pc' = [pc EXCEPT ![p] = "run"] /\ pc'[p] = "run" /\ "run" \in Places
    BY <1>0, <2>1 DEF Goto, Places, Before
  <2>4. Acts(p)' /\ risk' \in [state : States, cooldown : {"none", "running", "over"}]
    BY <2>1, <2>3 DEF Acts, Normal, States
  <2> QED BY <1>0, <2>1, <2>2, <2>3, <2>4, ActsKept DEF Expired
<1>6. CASE ReadReturns(p)
  <2>1. /\ pc' = [pc EXCEPT ![p] = "compare"] /\ pc'[p] = "compare"
        /\ read' = [read EXCEPT ![p] = Recent(closed)] /\ risk' = risk
    BY <1>0, <1>6 DEF ReadReturns, Goto
  <2>2. Acts(p)'
    BY <2>1 DEF Acts
  <2>3. DOMAIN read' = Positions /\ \A q \in Positions \ {p} : read'[q] = read[q]
    BY <1>0, <2>1
  <2>4. "compare" \in Places
    BY <1>12
  <2> QED BY <1>0, <1>11, <2>1, <2>2, <2>3, <2>4, ActsKept
<1>7. CASE Compare(p)
  <2>1. PICK where \in {"forgive", "trip", "done"} :
           /\ GotoFrom(p, where)
           /\ where = "forgive" => Expired
           /\ where = "trip" => Rank(Verdict(read[p])) > Rank(risk.state)
    BY <1>7 DEF Compare, Against
  <2>2. risk' = risk
    BY <1>7 DEF Compare
  <2>3. where \in Places \ {"clear"}
    BY <1>12, <2>1
  <2>4. where = "forgive" => Expired'
    BY <2>1, <2>2 DEF Expired
  <2> QED BY <1>0, <1>2, <1>11, <2>1, <2>2, <2>3, <2>4
<1>8. CASE Forgive(p)
  <2>1. PICK where \in {"trip", "done"} :
           /\ GotoFrom(p, where)
           /\ where = "trip" => Rank(Verdict(read[p])) > Rank("normal")
    BY <1>8 DEF Forgive, Against
  <2>2. /\ risk' = Normal /\ risk'.state = "normal"
        /\ risk' \in [state : States, cooldown : {"none", "running", "over"}]
    BY <1>8 DEF Forgive, ClearRisk, Normal, States
  <2>3. risk.cooldown = "over"
    BY <1>0, <1>8 DEF Forgive, Acts, Expired
  <2>4. where \in Places \ {"clear"} /\ where # "forgive"
    BY <1>12, <2>1
  <2>5. EscalateInv'
    BY <1>2, <2>1, <2>2, <2>4
  <2> QED BY <2>3, <2>5
<1>9. CASE Trip(p)
  <2>1. /\ GotoFrom(p, "done") /\ risk'.state = Verdict(read[p])
        /\ risk' \in [state : States, cooldown : {"none", "running", "over"}]
    BY <1>9, VerdictIn DEF Trip, SetRisk
  <2>2. Rank(Verdict(read[p])) > Rank(risk.state)
    BY <1>0, <1>9 DEF Trip, Acts
  <2>3. ~(Rank(risk'.state) < Rank(risk.state))
    BY <2>1, <2>2 DEF Rank
  <2>4. "done" \in Places \ {"clear"}
    BY <1>12
  <2>5. EscalateInv'
    BY <1>2, <2>1, <2>4
  <2> QED BY <2>3, <2>5
<1>10. CASE RefreshFails(p)
  <2>1. GotoFrom(p, "done") /\ risk' = risk
    BY <1>10 DEF RefreshFails
  <2>2. "done" \in Places \ {"clear"}
    BY <1>12
  <2>3. EscalateInv'
    BY <1>0, <1>2, <2>1, <2>2
  <2> QED BY <1>11, <2>1, <2>3
<1> QED BY <1>3, <1>4, <1>5, <1>6, <1>7, <1>8, <1>9, <1>10 DEF Entry, Exit

\* An evaluation that goes on keeps its fields.
LEMMA EvalMoves ==
  ASSUME NEW e \in Evals, DOMAIN eval[e] = DOMAIN Asleep, DOMAIN eval = Evals, NEW where,
         EvalTo(e, where) \/ \E ok : Rail(e, ok, where)
  PROVE  \E new : /\ DOMAIN new = DOMAIN Asleep /\ new.pc = where
                  /\ eval' = [eval EXCEPT ![e] = new]
<1>1. {"pc", "allowed"} \subseteq DOMAIN eval[e]
  BY DEF Asleep
<1>2. CASE EvalTo(e, where)
  <2> DEFINE new == [eval[e] EXCEPT !.pc = where]
  <2>1. DOMAIN new = DOMAIN eval[e] /\ new.pc = where
    BY <1>1
  <2>2. eval' = [eval EXCEPT ![e] = new]
    BY <1>2 DEF EvalTo
  <2> HIDE DEF new
  <2> QED BY <2>1, <2>2
<1>3. ASSUME NEW ok, Rail(e, ok, where)
      PROVE  \E new : /\ DOMAIN new = DOMAIN Asleep /\ new.pc = where
                      /\ eval' = [eval EXCEPT ![e] = new]
  <2> DEFINE new == [eval[e] EXCEPT !.pc = where, !.allowed = eval[e].allowed /\ ok]
  <2>1. DOMAIN new = DOMAIN eval[e] /\ new.pc = where
    BY <1>1
  <2>2. eval' = [eval EXCEPT ![e] = new]
    BY <1>3 DEF Rail
  <2> HIDE DEF new
  <2> QED BY <2>1, <2>2
<1> QED BY <1>2, <1>3

\* The steps of an evaluation: it clears what is expired, and else leaves the state alone.
LEMMA EvalEscalates ==
  ASSUME EscalateInv, RiskInTurn, NEW e \in Evals, EvalStep(e), UNCHANGED positionVars
  PROVE  EscalateInv' /\ (risk' # risk => risk.cooldown = "over")
<1>0. /\ DOMAIN eval = Evals /\ \A d \in Evals : Wakes(d)
      /\ risk \in [state : States, cooldown : {"none", "running", "over"}]
      /\ pc' = pc /\ read' = read
  BY DEF EscalateInv, positionVars
<1>1. ASSUME NEW new, DOMAIN new = DOMAIN Asleep, eval' = [eval EXCEPT ![e] = new],
             new.pc = "clear" => Expired /\ risk' = risk,
             risk' \in [state : States, cooldown : {"none", "running", "over"}]
      PROVE  EscalateInv'
  <2>1. DOMAIN eval' = Evals /\ eval'[e] = new /\ \A d \in Evals \ {e} : eval'[d] = eval[d]
    BY <1>0, <1>1
  <2>2. \A d \in Evals : /\ DOMAIN eval'[d] = DOMAIN Asleep
                         /\ eval'[d].pc = "clear" => eval[d].pc = "clear" \/ Expired'
    BY <1>0, <1>1, <2>1 DEF Wakes, Expired
  <2> QED BY <1>0, <1>1, <2>1, <2>2, WakesKept
<1>2. DOMAIN eval[e] = DOMAIN Asleep /\ (eval[e].pc = "clear" => Expired)
  BY <1>0 DEF Wakes
<1>3. CASE ClearExpired(e)
  <2>1. /\ risk' = Normal /\ eval[e].pc = "clear"
        /\ eval' = [eval EXCEPT ![e] = [eval[e] EXCEPT !.pc = "insert"]]
    BY <1>0, <1>3 DEF ClearExpired, ClearRisk, EvalAt, EvalTo
  <2>2. risk' \in [state : States, cooldown : {"none", "running", "over"}]
    BY <2>1 DEF Normal, States
  <2>3. /\ DOMAIN [eval[e] EXCEPT !.pc = "insert"] = DOMAIN Asleep
        /\ [eval[e] EXCEPT !.pc = "insert"].pc = "insert"
    BY <1>2 DEF Asleep
  <2>4. EscalateInv'
    BY <1>1, <2>1, <2>2, <2>3
  <2> QED BY <1>2, <2>1, <2>4 DEF Expired
<1>4. CASE ~ClearExpired(e)
  <2>1. risk' = risk
    BY <1>4 DEF EvalStep, Wake, ReadConfig, Dedupe, Cooldown, CountDay, CheckBudget, ReadRisk,
                Insert, riskVars
  <2>2. ASSUME NEW todo PROVE DOMAIN Later(e, todo) = DOMAIN Asleep /\ Later(e, todo).pc # "clear"
    BY <1>2 DEF Later, Asleep
  <2>3. \E new : /\ DOMAIN new = DOMAIN Asleep /\ eval' = [eval EXCEPT ![e] = new]
                 /\ new.pc = "clear" => Expired
    <3>1. CASE Wake(e)
      <4>1. PICK event : eval' = [eval EXCEPT ![e] = [Asleep EXCEPT !.pc = "config",
                                            !.event = event, !.level = settings.L2]]
        BY <3>1 DEF Wake
      <4> DEFINE new == [Asleep EXCEPT !.pc = "config", !.event = event, !.level = settings.L2]
      <4>2. DOMAIN new = DOMAIN Asleep /\ new.pc = "config"
        BY DEF Asleep
      <4> HIDE DEF new
      <4> QED BY <4>1, <4>2 DEF new
    <3>2. CASE ReadConfig(e)
      <4>1. PICK met : eval' = [eval EXCEPT ![e] = [Later(e, met)
                                   EXCEPT !.cfg = IF met = {} THEN <<>> ELSE config]]
        BY <3>2 DEF ReadConfig
      <4> DEFINE new == [Later(e, met) EXCEPT !.cfg = IF met = {} THEN <<>> ELSE config]
      <4>2. "pc" \in DOMAIN Later(e, met)
        BY <2>2 DEF Asleep
      <4>3. DOMAIN new = DOMAIN Asleep /\ new.pc # "clear"
        BY <2>2, <4>2
      <4> HIDE DEF new
      <4> QED BY <4>1, <4>3 DEF new
    <3>3. CASE Skip(e)
      <4> DEFINE new == Later(e, eval[e].todo \ {Type(e)})
      <4>1. eval' = [eval EXCEPT ![e] = new]
        BY <3>3 DEF Skip
      <4>2. DOMAIN new = DOMAIN Asleep /\ new.pc # "clear"
        BY <2>2
      <4> HIDE DEF new
      <4> QED BY <4>1, <4>2
    <3>4. ASSUME NEW where, EvalTo(e, where) \/ \E ok : Rail(e, ok, where),
                 where = "clear" => Expired
          PROVE  \E new : /\ DOMAIN new = DOMAIN Asleep /\ eval' = [eval EXCEPT ![e] = new]
                          /\ new.pc = "clear" => Expired
      BY <1>0, <1>2, <3>4, EvalMoves
    <3>5. CASE Dedupe(e) \/ Cooldown(e)
      <4>1. Skip(e) \/ \E where : where # "clear" /\ EvalTo(e, where)
        BY <3>5 DEF Dedupe, Cooldown
      <4> QED BY <3>3, <3>4, <4>1
    <3>6. CASE CountDay(e) \/ CheckBudget(e) \/ ReadRisk(e)
      <4>1. \E where : /\ EvalTo(e, where) \/ \E ok : Rail(e, ok, where)
                       /\ where = "clear" => Expired
        <5>1. CASE CountDay(e) \/ CheckBudget(e)
          <6>1. \E where \in {"budget", "risk"} : \E ok : Rail(e, ok, where)
            BY <5>1 DEF CountDay, CheckBudget
          <6> QED BY <6>1
        <5>2. CASE ReadRisk(e)
          <6>1. \/ Expired /\ EvalTo(e, "clear")
                \/ Rail(e, risk.state # "halted", "insert")
            BY <5>2 DEF ReadRisk
          <6> QED BY <6>1
        <5> QED BY <3>6, <5>1, <5>2
      <4> QED BY <3>4, <4>1
    <3>7. CASE Insert(e)
      BY <3>3, <3>7 DEF Insert
    <3> QED BY <1>4, <3>1, <3>2, <3>5, <3>6, <3>7 DEF EvalStep
  <2> QED BY <1>0, <1>1, <2>1, <2>3
<1> QED BY <1>3, <1>4

\* Every step of the desk.
LEMMA EscalateStep ==
  WatchInv /\ EscalateInv /\ [DeskNext /\ RiskInTurn]_deskVars
    => /\ EscalateInv'
       /\ [Rank(risk'.state) < Rank(risk.state)
             => risk.cooldown = "over" \/ posts' # posts]_deskVars
<1> SUFFICES ASSUME WatchInv, EscalateInv, [DeskNext /\ RiskInTurn]_deskVars
             PROVE  /\ EscalateInv'
                    /\ [Rank(risk'.state) < Rank(risk.state)
                          => risk.cooldown = "over" \/ posts' # posts]_deskVars
  OBVIOUS
<1>0. /\ risk \in [state : States, cooldown : {"none", "running", "over"}]
      /\ DOMAIN eval = Evals
      /\ \A e \in Evals : DOMAIN eval[e] = DOMAIN Asleep
  BY DEF EscalateInv, Wakes
<1>1. risk'.state = risk.state => ~(Rank(risk'.state) < Rank(risk.state))
  BY DEF Rank
<1>2. CASE UNCHANGED deskVars
  <2>1. UNCHANGED <<pc, read, risk, eval>>
    BY <1>2 DEF deskVars, riskVars, triggerVars, positionVars
  <2> QED BY <1>2, <2>1 DEF EscalateInv, Acts, Wakes, Expired
<1>3. ASSUME DeskNext, RiskInTurn, NEW p \in Positions, Entry(p) \/ Exit(p), UNCHANGED triggerVars
      PROVE  EscalateInv' /\ (Rank(risk'.state) < Rank(risk.state) => risk.cooldown = "over")
  BY <1>3, EscalatesAt
<1>4. ASSUME RiskInTurn, UNCHANGED <<pc, read, eval>>,
             risk' \in [state : States, cooldown : {"none", "running", "over"}]
      PROVE  EscalateInv'
  BY <1>0, <1>4, WakesKept
<1>5. ASSUME RiskInTurn, PostRisk, UNCHANGED triggerVars
      PROVE  EscalateInv' /\ posts' # posts
  <2>1. /\ UNCHANGED <<pc, read, eval>>
        /\ risk' \in [state : States, cooldown : {"none", "running", "over"}]
    BY <1>5 DEF PostRisk, SetRisk, triggerVars
  <2>2. posts' # posts
    BY <1>5 DEF PostRisk, WatchInv, DeskShaped, Counting
  <2> QED BY <1>4, <1>5, <2>1, <2>2
<1>6. ASSUME RiskInTurn, Wait, UNCHANGED triggerVars
      PROVE  EscalateInv' /\ risk'.state = risk.state
  <2>1. /\ UNCHANGED <<pc, read, eval>> /\ risk'.state = risk.state
        /\ risk' \in [state : States, cooldown : {"none", "running", "over"}]
    BY <1>0, <1>6 DEF Wait, CooldownPasses, positionVars, triggerVars
  <2> QED BY <1>4, <1>6, <2>1
<1>7. ASSUME RiskInTurn, TriggersNext, UNCHANGED positionVars
      PROVE  EscalateInv' /\ (risk' # risk => risk.cooldown = "over")
  <2>1. CASE \E e \in Evals : EvalStep(e)
    BY <1>7, <2>1, EvalEscalates
  <2>2. CASE ~\E e \in Evals : EvalStep(e)
    <3>1. risk' = risk /\ eval' = eval
      BY <1>7, <2>2 DEF TriggersNext, ExecutionStep, Execute, Charge, Promote, Future, Change,
                        Cool, riskVars
    <3> QED BY <1>0, <1>4, <1>7, <3>1 DEF positionVars
  <2> QED BY <2>1, <2>2
<1> QED BY <1>1, <1>2, <1>3, <1>5, <1>6, <1>7 DEF DeskNext

\* At the start nobody decides anything.
LEMMA EscalateInitially == DeskInit => EscalateInv
<1> SUFFICES ASSUME DeskInit PROVE EscalateInv
  OBVIOUS
<1>1. /\ pc = [p \in Positions |-> "none"] /\ read = [p \in Positions |-> <<>>]
      /\ risk = Normal /\ eval = [e \in Evals |-> Asleep]
  BY DEF DeskInit, TriggersInit
<1> QED BY <1>1 DEF EscalateInv, Acts, Wakes, Places, Before, Normal, States, Asleep

(* "De-escalation is handled by cooldown expiry" and "Never auto-downgrade here"       *)
(* (risk/index.ts:96, 114) hold as long as nobody writes the risk state between        *)
(* another's reading of it and its write, whatever the returns, thresholds, failures,  *)
(* approvals and triggers: the overlap is all that lowers it.                          *)
THEOREM EscalatesInTurn == DeskSpec /\ [][RiskInTurn]_deskVars => OnlyExpiryLowers
<1>1. [DeskNext]_deskVars /\ [RiskInTurn]_deskVars => [DeskNext /\ RiskInTurn]_deskVars
  OBVIOUS
<1> QED
  BY <1>1, WatchInitially, WatchKept, EscalateInitially, EscalateStep, PTL
  DEF DeskSpec, OnlyExpiryLowers
=============================================================================
