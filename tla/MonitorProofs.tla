---------------------------- MODULE MonitorProofs ----------------------------
(***************************************************************************)
(* Proofs about what MCPositionMonitor puts together: the exits of a       *)
(* managed position, its ladder and its stop, and the market data that its *)
(* marks come from, for any policies, marks, ticks, prices and bars.       *)
(***************************************************************************)
EXTENDS MCPositionMonitor, FoldFacts, TLAPS

-----------------------------------------------------------------------------
(* One exit at a time, and a close that follows the stop of the session and *)
(* is final: for any policies and marks, any number of ticks and any        *)
(* overlap of them, with failures and crashes.  None of it depends on what  *)
(* the policy decides, so the evaluation stays folded.                      *)

\* Where a tick stands tells what the row and the session are.
ExitTyped ==
  /\ pc \in [Ticks -> Busy \cup {"idle"}]
  /\ state \in {"open", "closing", "closed"}
  /\ session \in {"running", "stopped"}

PhaseOfExit ==
  \A t \in Ticks :
    /\ pc[t] = "stopping" => session = "stopped"
    /\ pc[t] = "recording" => state = "closed"

ExitInv == ExitTyped /\ OneExit /\ ClosedMeansStopped /\ PhaseOfExit

\* No tick is under way and no session exists at the start.
LEMMA ExitInvInit == Init => ExitInv
BY DEF Init, ExitInv, ExitTyped, OneExit, ClosedMeansStopped, PhaseOfExit, Exiting, Busy

-----------------------------------------------------------------------------
\* A step of a tick that is not about to exit, and leaves row and session alone.
LEMMA QuietStep ==
  ASSUME ExitInv, UNCHANGED <<state, session>>,
         NEW t \in Ticks, NEW where \in {"idle", "settings", "evaluate", "reduced"},
         pc' = [pc EXCEPT ![t] = where]
  PROVE  ExitInv'
BY DEF ExitInv, ExitTyped, OneExit, ClosedMeansStopped, PhaseOfExit, Exiting, Busy

\* What moves neither a tick, nor the row's state, nor the session disturbs nothing.
LEMMA UnchangedStep ==
  ASSUME ExitInv, UNCHANGED <<pc, state, session>>
  PROVE  ExitInv'
BY DEF ExitInv, ExitTyped, OneExit, ClosedMeansStopped, PhaseOfExit

\* A tick that reads the row decides by its state, and holds no exit yet.
LEMMA ReadStep ==
  ASSUME ExitInv, NEW t \in Ticks,
         \/ \E mark \in Marks : ReadForMark(t, mark) \/ ReadForEndpoint(t, mark)
         \/ ReadForSweep(t)
  PROVE  ExitInv'
<1>1. CASE \E mark \in Marks : ReadForMark(t, mark)
  <2>1. pc' = [pc EXCEPT ![t] = "settings"] /\ UNCHANGED <<state, session>>
    BY <1>1 DEF ReadForMark, Read, rowVars, worldVars
  <2> QED
    BY <2>1, QuietStep
<1>2. CASE \E mark \in Marks : ReadForEndpoint(t, mark)
  <2>1. pc' = [pc EXCEPT ![t] = "evaluate"] /\ UNCHANGED <<state, session>>
    BY <1>2 DEF ReadForEndpoint, Read, rowVars, worldVars
  <2> QED
    BY <2>1, QuietStep
<1>3. CASE ReadForSweep(t)
  <2>1. pc' = [pc EXCEPT ![t] = "evaluate"] /\ UNCHANGED <<state, session>>
    BY <1>3 DEF ReadForSweep, Read, rowVars, worldVars
  <2> QED
    BY <2>1, QuietStep
<1> QED
  BY <1>1, <1>2, <1>3

\* The claim is won by one tick, and only over an open row: nobody is exiting.
LEMMA ClaimStep ==
  ASSUME ExitInv, NEW t \in Ticks, Claim(t)
  PROVE  ExitInv'
<1>1. CASE /\ state = "open" /\ state' = "closing"
           /\ pc' = [pc EXCEPT ![t] = "exiting"] /\ UNCHANGED session
  <2>1. \A u \in Ticks : pc[u] \notin Exiting \cup {"recording"}
    BY <1>1 DEF ExitInv, OneExit, PhaseOfExit
  <2> QED
    BY <1>1, <2>1
    DEF ExitInv, ExitTyped, OneExit, ClosedMeansStopped, PhaseOfExit, Exiting, Busy
<1>2. CASE pc' = [pc EXCEPT ![t] = "idle"] /\ UNCHANGED <<state, session>>
  BY <1>2, QuietStep
<1> QED
  BY <1>1, <1>2 DEF Claim, Goto, End, worldVars

\* The session is stopped under the claim, and then the row is closed.
LEMMA ExitStep ==
  ASSUME ExitInv, NEW t \in Ticks, StopSession(t) \/ MarkClosed(t)
  PROVE  ExitInv'
<1>1. state = "closing" /\ \A u \in Ticks \ {t} : pc[u] \notin Exiting
  BY DEF StopSession, MarkClosed, ExitInv, OneExit, Exiting
<1>2. CASE StopSession(t)
  <2>1. /\ pc' = [pc EXCEPT ![t] = "stopping"] /\ session' = "stopped"
        /\ UNCHANGED state
    BY <1>2 DEF StopSession, Goto, rowVars
  <2> QED
    BY <1>1, <2>1
    DEF ExitInv, ExitTyped, OneExit, ClosedMeansStopped, PhaseOfExit, Exiting, Busy
<1>3. CASE MarkClosed(t)
  <2>1. /\ pc[t] = "stopping" /\ pc' = [pc EXCEPT ![t] = "recording"]
        /\ state' = "closed" /\ UNCHANGED session
    BY <1>3 DEF MarkClosed, Goto, worldVars
  <2> QED
    BY <1>1, <2>1
    DEF ExitInv, ExitTyped, OneExit, ClosedMeansStopped, PhaseOfExit, Exiting, Busy
<1> QED
  BY <1>2, <1>3

\* A release reopens the row of the tick that fails: that tick was the one exiting, or
\* the row is closed and stays so.
LEMMA ExitFailsStep ==
  ASSUME ExitInv, NEW t \in Ticks, ExitFails(t)
  PROVE  ExitInv'
<1>1. /\ pc[t] \in Exiting \cup {"recording"}
      /\ pc' = [pc EXCEPT ![t] = "idle"]
      /\ state' = IF state = "closing" THEN "open" ELSE state
      /\ UNCHANGED session
  BY DEF ExitFails, End, Released, worldVars
<1>2. CASE pc[t] \in Exiting
  <2>1. state = "closing" /\ \A u \in Ticks \ {t} : pc[u] \notin Exiting
    BY <1>2 DEF ExitInv, OneExit
  <2> QED
    BY <1>1, <2>1
    DEF ExitInv, ExitTyped, OneExit, ClosedMeansStopped, PhaseOfExit, Exiting, Busy
<1>3. CASE pc[t] = "recording"
  <2>1. state = "closed" /\ UNCHANGED <<state, session>>
    BY <1>1, <1>3 DEF ExitInv, PhaseOfExit
  <2> QED
    BY <1>1, <2>1, QuietStep
<1> QED
  BY <1>1, <1>2, <1>3

\* A restart of the agent ends every tick and leaves row and session as they are.
LEMMA CrashStep ==
  ASSUME ExitInv, Crash
  PROVE  ExitInv'
<1>1. UNCHANGED <<state, session>>
  BY DEF Crash, rowVars, worldVars
<1>2. CASE pc' = [t \in Ticks |-> "idle"]
  BY <1>1, <1>2
  DEF ExitInv, ExitTyped, OneExit, ClosedMeansStopped, PhaseOfExit, Exiting, Busy
<1>3. CASE \E t \in Ticks : pc' = [pc EXCEPT ![t] = "idle"]
  BY <1>1, <1>3, QuietStep
<1> QED
  BY <1>2, <1>3 DEF Crash, End

\* Every step of the monitor keeps the invariant of exits.
LEMMA ExitInvStep == ExitInv /\ [Next]_vars => ExitInv'
<1> SUFFICES ASSUME ExitInv, [Next]_vars PROVE ExitInv'
  OBVIOUS
<1>1. ASSUME NEW t \in Ticks,
             \/ \E mark \in Marks : ReadForMark(t, mark) \/ ReadForEndpoint(t, mark)
             \/ ReadForSweep(t)
      PROVE  ExitInv'
  BY <1>1, ReadStep
<1>2. ASSUME NEW t \in Ticks, CheckSettings(t) \/ Hold(t) \/ Reduce(t) \/ RecordReduce(t)
                              \/ RecordClose(t)
      PROVE  ExitInv'
  <2>1. /\ \E where \in {"idle", "settings", "evaluate", "reduced"} :
             pc' = [pc EXCEPT ![t] = where]
        /\ UNCHANGED <<state, session>>
    BY <1>2 DEF CheckSettings, Hold, Reduce, RecordReduce, RecordClose, Goto, End,
                rowVars, worldVars
  <2> QED
    BY <2>1, QuietStep
<1>3. ASSUME NEW t \in Ticks, Claim(t) PROVE ExitInv'
  BY <1>3, ClaimStep
<1>4. ASSUME NEW t \in Ticks, StopSession(t) \/ MarkClosed(t) PROVE ExitInv'
  BY <1>4, ExitStep
<1>5. ASSUME NEW t \in Ticks, ExitFails(t) PROVE ExitInv'
  BY <1>5, ExitFailsStep
<1>6. CASE ManualStop
  <2>1. session' = "stopped" /\ UNCHANGED <<pc, state>>
    BY <1>6 DEF ManualStop, rowVars
  <2> QED
    BY <2>1 DEF ExitInv, ExitTyped, OneExit, ClosedMeansStopped, PhaseOfExit
<1>7. CASE ManualClose \/ Disable \/ Deadline \/ UNCHANGED vars
  <2>1. UNCHANGED <<pc, state, session>>
    BY <1>7 DEF ManualClose, Disable, Deadline, vars, rowVars, worldVars
  <2> QED
    BY <2>1, UnchangedStep
<1>8. CASE Crash
  BY <1>8, CrashStep
<1> QED
  BY <1>1, <1>2, <1>3, <1>4, <1>5, <1>6, <1>7, <1>8 DEF Next, Advance

\* The invariant of exits holds of every behaviour.
LEMMA ExitInvariant == Spec => []ExitInv
BY ExitInvInit, ExitInvStep, PTL DEF Spec

-----------------------------------------------------------------------------
\* At most one tick exits the position at a time, whatever ticks, failures and crashes
\* overlap (monitor.ts:65-114).
THEOREM OneExitAtATime == Spec => []OneExit
<1>1. ExitInv => OneExit
  BY DEF ExitInv
<1> QED
  BY <1>1, ExitInvariant, PTL

\* A position that is closed has its session stopped (monitor.ts:74-96).
THEOREM ClosedAfterStop == Spec => []ClosedMeansStopped
<1>1. ExitInv => ClosedMeansStopped
  BY DEF ExitInv
<1> QED
  BY <1>1, ExitInvariant, PTL

\* A closed position stays closed: no claim is won on it and no release reopens it
\* (store.ts:93-119).
THEOREM CloseIsFinal == Spec => ClosedIsFinal
<1>1. ExitInv /\ [Next]_vars => [state = "closed" => state' = "closed"]_state
  <2> SUFFICES ASSUME [Next]_vars, state = "closed" PROVE state' = "closed"
    OBVIOUS
  <2>1. ASSUME NEW t \in Ticks, Claim(t) \/ MarkClosed(t) \/ ExitFails(t)
        PROVE  state' = "closed"
    BY <2>1 DEF Claim, MarkClosed, ExitFails, Released
  <2>2. ASSUME NEW t \in Ticks,
               \/ \E mark \in Marks : ReadForMark(t, mark) \/ ReadForEndpoint(t, mark)
               \/ ReadForSweep(t) \/ CheckSettings(t) \/ Hold(t) \/ Reduce(t)
               \/ RecordReduce(t) \/ StopSession(t) \/ RecordClose(t)
        PROVE  state' = "closed"
    BY <2>2 DEF ReadForMark, ReadForEndpoint, ReadForSweep, CheckSettings, Hold, Reduce,
                RecordReduce, StopSession, RecordClose, rowVars
  <2>3. CASE ManualClose \/ ManualStop \/ Crash \/ Disable \/ Deadline \/ UNCHANGED vars
    BY <2>3 DEF ManualClose, ManualStop, Crash, Disable, Deadline, vars, rowVars
  <2> QED
    BY <2>1, <2>2, <2>3 DEF Next, Advance
<1> QED
  BY <1>1, ExitInvariant, PTL DEF Spec, ClosedIsFinal

-----------------------------------------------------------------------------
(* RecordedBookIsTheVenues for any prices and sizes and any number of       *)
(* changes and breaks.  It is not inductive: that what is stored is right   *)
(* rests on what is in memory and under way.  BookInv says that the book    *)
(* in memory is the exchange's at lastSeq, that the messages under way      *)
(* bring it from there, or from a snapshot no older, to the exchange's      *)
(* last change, one number at a time, and that only the first of them may   *)
(* be a snapshot.                                                           *)

Messages == [type : {"snapshot", "delta"}, seq : Nat,
             levels : UNION {[Q -> Sizes] : Q \in SUBSET Prices}]

BookTypeOK ==
  /\ venue \in Seq(Books) /\ venue # <<>>
  /\ wire \in Seq(Messages)
  /\ connected \in BOOLEAN
  /\ book \in Books
  /\ lastSeq \in Nat
  /\ snapshot \in [seq : Nat, levels : Books]

\* What is held, in memory or in the table, is the exchange's.
Held(seq, levels) == seq <= Len(venue) /\ (seq # 0 => levels = venue[seq])

\* The content of the message with this number, when these are the exchange's books.
Carried(message, books) ==
  /\ message.seq \in 1..Len(books)
  /\ message.type = "snapshot" => message.levels = LevelsOf(books[message.seq])
  /\ message.type = "delta" => /\ message.seq > 1
                               /\ message.levels = Diff(books[message.seq - 1], books[message.seq])

\* The messages under way have the last numbers, in order.
InOrder ==
  \A i \in 1..Len(wire) :
    /\ wire[i].seq = Len(venue) - Len(wire) + i
    /\ Carried(wire[i], venue)
    /\ wire[i].type = "snapshot" => i = 1

\* The first of them is the next one, or a snapshot that is not older.
InStep ==
  /\ ~connected => wire = <<>>
  /\ connected /\ wire = <<>> => lastSeq = Len(venue)
  /\ wire # <<>> => /\ lastSeq <= wire[1].seq
                    /\ wire[1].type = "delta" => lastSeq + 1 = wire[1].seq

BookInv ==
  /\ BookTypeOK
  /\ Held(lastSeq, book)
  /\ Held(snapshot.seq, snapshot.levels)
  /\ InOrder
  /\ InStep

(* What the first message under way is. *)
LEMMA FirstMessage ==
  ASSUME BookInv, wire # <<>>
  PROVE  /\ wire[1] \in Messages
         /\ wire[1].seq = Len(venue) - Len(wire) + 1
         /\ Carried(wire[1], venue)
         /\ wire[1].seq \in 1..Len(venue)
<1>1. wire \in Seq(Messages) /\ Len(wire) \in Nat /\ 1 \in 1..Len(wire)
  BY DEF BookInv, BookTypeOK
<1>2. wire[1] \in Messages
  BY <1>1
<1>3. wire[1].seq = Len(venue) - Len(wire) + 1 /\ Carried(wire[1], venue)
  BY <1>1 DEF BookInv, InOrder
<1> QED BY <1>2, <1>3 DEF Carried

(* A snapshot applied to nothing, or a delta to the book before, is the book *)
(* after (_on_orderbook's apply).                                            *)
LEMMA AppliedIsNext ==
  ASSUME BookInv, wire # <<>>, wire[1].seq > lastSeq
  PROVE  /\ Applied(wire[1]) = venue[wire[1].seq]
         /\ Applied(wire[1]) \in Books
<1> PICK m : m = wire[1]
  OBVIOUS
<1>1. m.type \in {"snapshot", "delta"} /\ m.seq \in 1..Len(venue) /\ Carried(m, venue)
  BY FirstMessage DEF Messages
<1>2. venue \in Seq(Books) /\ lastSeq \in Nat
  BY DEF BookInv, BookTypeOK
<1>3. venue[m.seq] \in Books
  BY <1>1, <1>2
<1>4. lastSeq # 0 => book = venue[lastSeq]
  BY DEF BookInv, Held
<1>5. m.type = "delta" => lastSeq + 1 = m.seq
  BY DEF BookInv, InStep
<1>6. CASE m.type = "snapshot"
  <2>1. m.levels = LevelsOf(venue[m.seq])
    BY <1>1, <1>6 DEF Carried
  <2>2. Base(m) = Empty
    BY <1>6 DEF Base
  <2>3. Applied(m) = [p \in Prices |-> IF p \in {q \in Prices : venue[m.seq][q] # 0}
                                       THEN venue[m.seq][p] ELSE 0]
    BY <2>1, <2>2 DEF Applied, LevelsOf, Empty
  <2>4. venue[m.seq] = [p \in Prices |-> venue[m.seq][p]]
    BY <1>3 DEF Books
  <2> QED BY <2>3, <2>4, <1>3
<1>7. CASE m.type = "delta"
  <2>1. /\ m.levels = Diff(venue[m.seq - 1], venue[m.seq]) /\ m.seq > 1
        /\ lastSeq = m.seq - 1
    BY <1>1, <1>2, <1>5, <1>7 DEF Carried
  <2>2. book = venue[m.seq - 1]
    BY <1>1, <1>4, <2>1
  <2>3. Base(m) = book
    BY <1>7 DEF Base
  <2>4. Applied(m) = [p \in Prices |-> IF p \in {q \in Prices : book[q] # venue[m.seq][q]}
                                       THEN venue[m.seq][p] ELSE book[p]]
    BY <2>1, <2>2, <2>3 DEF Applied, Diff
  <2>5. venue[m.seq] = [p \in Prices |-> venue[m.seq][p]]
    BY <1>3 DEF Books
  <2> QED BY <2>4, <2>5, <1>3
<1>8. Applied(m) = venue[m.seq] /\ Applied(m) \in Books
  BY <1>1, <1>6, <1>7
<1> QED BY <1>8

\* The levels of a book, and the change between two, are what a message may carry.
LEMMA LevelsTyped ==
  ASSUME NEW b \in Books, NEW c \in Books, NEW n \in Nat
  PROVE  /\ Message("snapshot", n, LevelsOf(b)) \in Messages
         /\ Message("delta", n, Diff(c, b)) \in Messages
<1>1. LevelsOf(b) \in [{q \in Prices : b[q] # 0} -> Sizes]
  BY DEF LevelsOf, Books
<1>2. Diff(c, b) \in [{q \in Prices : c[q] # b[q]} -> Sizes]
  BY DEF Diff, Books
<1>3. LevelsOf(b) \in UNION {[Q -> Sizes] : Q \in SUBSET Prices}
  BY <1>1
<1>4. Diff(c, b) \in UNION {[Q -> Sizes] : Q \in SUBSET Prices}
  BY <1>2
<1> QED BY <1>3, <1>4 DEF Messages, Message

\* The book of the recorder is empty, and agrees, at the start.
LEMMA BookInitially == BookInit => BookInv
<1> SUFFICES ASSUME BookInit PROVE BookInv
  OBVIOUS
<1>1. Empty \in Books
  BY BookAssumption DEF Empty, Books
<1>2. venue \in Seq(Books) /\ venue # <<>>
  <2>1. PICK b \in Books : venue = <<b>>
    BY DEF BookInit
  <2> QED BY <2>1
<1>3. BookTypeOK
  <2>1. wire \in Seq(Messages)
    BY DEF BookInit
  <2>2. snapshot \in [seq : Nat, levels : Books] /\ lastSeq \in Nat
    BY <1>1 DEF BookInit
  <2>3. book \in Books /\ connected \in BOOLEAN
    BY <1>1 DEF BookInit
  <2> QED BY <1>2, <2>1, <2>2, <2>3 DEF BookTypeOK
<1>4. Len(venue) \in Nat
  BY <1>2
<1>5. Held(lastSeq, book) /\ Held(snapshot.seq, snapshot.levels)
  BY <1>4 DEF BookInit, Held
<1>6. InOrder /\ InStep
  BY DEF BookInit, InOrder, InStep
<1> QED BY <1>3, <1>5, <1>6 DEF BookInv

(* A subscription brings the snapshot of the exchange's last change. *)
LEMMA SubscribeKeeps == BookInv /\ Subscribe => BookInv'
<1> SUFFICES ASSUME BookInv, Subscribe PROVE BookInv'
  OBVIOUS
<1> PICK m : m = Message("snapshot", Len(venue), LevelsOf(venue[Len(venue)]))
  OBVIOUS
<1>1. /\ venue \in Seq(Books) /\ venue # <<>> /\ book \in Books /\ lastSeq \in Nat
      /\ snapshot \in [seq : Nat, levels : Books]
  BY DEF BookInv, BookTypeOK
<1>2. Len(venue) \in Nat /\ Len(venue) \in 1..Len(venue) /\ venue[Len(venue)] \in Books
  BY <1>1
<1>3. /\ wire' = <<m>> /\ connected' = TRUE
      /\ UNCHANGED <<venue, book, lastSeq, snapshot>>
  BY DEF Subscribe, LastChange
<1>4. m \in Messages
  BY <1>2, LevelsTyped
<1>5. m.seq = Len(venue) /\ m.type = "snapshot" /\ m.levels = LevelsOf(venue[Len(venue)])
  BY DEF Message
<1>6. BookTypeOK'
  BY <1>1, <1>3, <1>4 DEF BookTypeOK
<1>7. (Held(lastSeq, book) /\ Held(snapshot.seq, snapshot.levels))'
  BY <1>3 DEF BookInv, Held
<1>8. Carried(m, venue')
  BY <1>2, <1>3, <1>5 DEF Carried
<1>9. Len(wire') = 1 /\ wire'[1] = m
  BY <1>3
<1>10. InOrder'
  BY <1>2, <1>3, <1>5, <1>8, <1>9 DEF InOrder
<1>11. lastSeq <= Len(venue)
  BY DEF BookInv, Held
<1>12. InStep'
  BY <1>3, <1>5, <1>9, <1>11 DEF InStep
<1> QED BY <1>6, <1>7, <1>10, <1>12 DEF BookInv

(* The books the exchange had stay where they are when it has a new one. *)
LEMMA AppendKeeps ==
  ASSUME NEW S, NEW s \in Seq(S), NEW e \in S
  PROVE  /\ Append(s, e) \in Seq(S)
         /\ Len(Append(s, e)) = Len(s) + 1
         /\ \A i \in 1..Len(s) : Append(s, e)[i] = s[i]
         /\ Append(s, e)[Len(s) + 1] = e
OBVIOUS

\* A change of the venue adds a message and touches nothing the recorder holds.
LEMMA ChangeKeeps == BookInv /\ Change => BookInv'
<1> SUFFICES ASSUME BookInv, Change PROVE BookInv'
  OBVIOUS
<1> PICK n : n = Len(venue)
  OBVIOUS
<1>1. /\ venue \in Seq(Books) /\ venue # <<>> /\ book \in Books /\ lastSeq \in Nat
      /\ snapshot \in [seq : Nat, levels : Books] /\ wire \in Seq(Messages)
      /\ connected \in BOOLEAN
  BY DEF BookInv, BookTypeOK
<1>2. PICK b \in Books :
        /\ venue' = Append(venue, b)
        /\ wire' = IF connected
                   THEN Append(wire, Message("delta", n + 1, Diff(venue[n], b))) ELSE wire
  BY DEF Change, LastChange
<1>3. UNCHANGED <<connected, book, lastSeq, snapshot>>
  BY DEF Change
<1>4. n \in Nat /\ n >= 1 /\ venue[n] \in Books
  BY <1>1
<1>5. /\ venue' \in Seq(Books) /\ Len(venue') = n + 1 /\ venue'[n + 1] = b
      /\ \A i \in 1..n : venue'[i] = venue[i]
  BY <1>1, <1>2, AppendKeeps
<1> PICK m : m = Message("delta", n + 1, Diff(venue[n], b))
  OBVIOUS
<1>6. m \in Messages
  BY <1>2, <1>4, LevelsTyped
<1>7. m.type = "delta" /\ m.seq = n + 1 /\ m.levels = Diff(venue[n], b)
  BY DEF Message
<1>8. wire' = IF connected THEN Append(wire, m) ELSE wire
  BY <1>2
<1>9. Len(wire) \in Nat
  BY <1>1
<1>10. connected => /\ wire' \in Seq(Messages) /\ Len(wire') = Len(wire) + 1
                    /\ wire'[Len(wire) + 1] = m
                    /\ \A i \in 1..Len(wire) : wire'[i] = wire[i]
  BY <1>1, <1>6, <1>8, AppendKeeps
<1>11. ~connected => wire = <<>> /\ wire' = <<>>
  BY <1>8 DEF BookInv, InStep
<1>12. BookTypeOK'
  <2>1. venue' # <<>>
    BY <1>4, <1>5
  <2>2. wire' \in Seq(Messages)
    BY <1>1, <1>8, <1>10
  <2> QED BY <1>1, <1>3, <1>5, <2>1, <2>2 DEF BookTypeOK
<1>13. (Held(lastSeq, book) /\ Held(snapshot.seq, snapshot.levels))'
  <2>1. ASSUME NEW seq \in Nat, NEW levels, Held(seq, levels)
        PROVE  seq <= Len(venue') /\ (seq # 0 => levels = venue'[seq])
    BY <1>4, <1>5, <2>1 DEF Held
  <2>2. Held(lastSeq, book) /\ Held(snapshot.seq, snapshot.levels)
    BY DEF BookInv
  <2>3. lastSeq \in Nat /\ snapshot.seq \in Nat
    BY <1>1
  <2> QED BY <2>1, <2>2, <2>3, <1>3 DEF Held
<1>14. ASSUME NEW k \in Messages, Carried(k, venue) PROVE Carried(k, venue')
  <2>1. k.seq \in 1..n
    BY <1>14 DEF Carried
  <2>2. k.seq > 1 => k.seq - 1 \in 1..n
    BY <2>1, <1>4
  <2> QED BY <1>4, <1>5, <1>14, <2>1, <2>2 DEF Carried
<1>15. Carried(m, venue')
  <2>1. venue'[n] = venue[n] /\ m.seq - 1 = n /\ n + 1 \in 1..Len(venue') /\ m.seq > 1
    BY <1>4, <1>5, <1>7
  <2> QED BY <1>5, <1>7, <2>1 DEF Carried
<1>16. InOrder'
  <2>1. CASE connected
    <3> SUFFICES ASSUME NEW i \in 1..Len(wire')
                 PROVE  /\ wire'[i].seq = Len(venue') - Len(wire') + i
                        /\ Carried(wire'[i], venue')
                        /\ wire'[i].type = "snapshot" => i = 1
      BY DEF InOrder, Carried
    <3>1. CASE i = Len(wire) + 1
      BY <1>4, <1>5, <1>7, <1>9, <1>10, <1>15, <2>1, <3>1 DEF Carried
    <3>2. CASE i \in 1..Len(wire)
      <4>1. wire[i] \in Messages /\ wire'[i] = wire[i]
        BY <1>1, <1>10, <2>1, <3>2
      <4>2. /\ wire[i].seq = n - Len(wire) + i /\ Carried(wire[i], venue)
            /\ wire[i].type = "snapshot" => i = 1
        BY <3>2 DEF BookInv, InOrder
      <4>3. Len(venue') - Len(wire') + i = n - Len(wire) + i
        BY <1>4, <1>5, <1>9, <1>10, <2>1
      <4>4. Carried(wire[i], venue')
        <5>1. Carried(wire[i], venue)
          BY <4>2
        <5>2. wire[i].seq \in 1..n
          BY <5>1 DEF Carried
        <5> QED BY <4>1, <4>2, <1>14, <1>4, <1>5, <5>1, <5>2 DEF Carried
      <4> QED BY <4>1, <4>2, <4>3, <4>4 DEF Carried
    <3> QED BY <1>9, <1>10, <2>1, <3>1, <3>2
  <2>2. CASE ~connected
    BY <1>11, <2>2 DEF InOrder
  <2> QED BY <2>1, <2>2
<1>17. InStep'
  <2>1. CASE ~connected
    BY <1>3, <1>11, <2>1 DEF InStep
  <2>2. CASE connected /\ wire = <<>>
    <3>1. lastSeq = n /\ Len(wire) = 0
      BY <2>2 DEF BookInv, InStep
    <3>2. wire' = <<m>>
      BY <1>8, <2>2
    <3> QED BY <1>1, <1>3, <1>4, <1>7, <2>2, <3>1, <3>2 DEF InStep
  <2>3. CASE connected /\ wire # <<>>
    <3>1. wire'[1] = wire[1] /\ wire' # <<>>
      BY <1>1, <1>10, <2>3
    <3> QED BY <1>3, <2>3, <3>1 DEF BookInv, InStep
  <2> QED BY <1>1, <2>1, <2>2, <2>3
<1> QED BY <1>12, <1>13, <1>16, <1>17 DEF BookInv

(* What is left under way when the first message is taken. *)
LEMMA TailKeeps ==
  ASSUME NEW S, NEW s \in Seq(S), s # <<>>
  PROVE  /\ Tail(s) \in Seq(S)
         /\ Len(s) \in Nat /\ Len(s) >= 1
         /\ Len(Tail(s)) = Len(s) - 1
         /\ \A i \in 1..Len(Tail(s)) : Tail(s)[i] = s[i + 1] /\ i + 1 \in 1..Len(s)
OBVIOUS

(* The first message leaves the wire: the rest is in order, and a step ahead. *)
LEMMA TakeFirst ==
  BookInv /\ wire # <<>> /\ wire' = Tail(wire) /\ UNCHANGED <<venue, connected>>
          /\ lastSeq' = wire[1].seq
    => InOrder' /\ InStep' /\ wire' \in Seq(Messages)
<1>0. SUFFICES ASSUME BookInv, wire # <<>>, wire' = Tail(wire),
                      UNCHANGED <<venue, connected>>, lastSeq' = wire[1].seq
               PROVE  InOrder' /\ InStep' /\ wire' \in Seq(Messages)
  OBVIOUS
<1>1. wire \in Seq(Messages) /\ venue \in Seq(Books) /\ Len(venue) \in Nat
  BY <1>0 DEF BookInv, BookTypeOK
<1>2. /\ wire' \in Seq(Messages) /\ Len(wire) \in Nat /\ Len(wire) >= 1
      /\ Len(wire') = Len(wire) - 1
      /\ \A i \in 1..Len(wire') : wire'[i] = wire[i + 1] /\ i + 1 \in 1..Len(wire)
  BY <1>0, <1>1, TailKeeps
<1>3. wire[1].seq = Len(venue) - Len(wire) + 1
  BY <1>0, FirstMessage
<1>4. ASSUME NEW i \in 1..Len(wire')
      PROVE  /\ wire'[i].seq = Len(venue) - Len(wire) + i + 1
             /\ Carried(wire'[i], venue)
             /\ wire'[i].type # "snapshot"
  <2>1. wire'[i] = wire[i + 1] /\ i + 1 \in 1..Len(wire) /\ i + 1 # 1 /\ i \in Nat
    BY <1>2
  <2>2. /\ wire[i + 1].seq = Len(venue) - Len(wire) + (i + 1)
        /\ Carried(wire[i + 1], venue)
        /\ wire[i + 1].type = "snapshot" => i + 1 = 1
    BY <1>0, <2>1 DEF BookInv, InOrder
  <2> QED BY <1>1, <1>2, <2>1, <2>2
<1>5. InOrder'
  <2>1. ASSUME NEW i \in 1..Len(wire') PROVE wire'[i].seq = Len(venue') - Len(wire') + i
    <3>1. wire'[i].seq = Len(venue) - Len(wire) + i + 1 /\ i \in Nat /\ Len(venue') = Len(venue)
      BY <1>0, <1>4
    <3>2. Len(venue) - Len(wire) + i + 1 = Len(venue) - Len(wire') + i
      BY <1>1, <1>2, <3>1
    <3> QED BY <3>1, <3>2
  <2>2. ASSUME NEW i \in 1..Len(wire')
        PROVE  Carried(wire'[i], venue') /\ (wire'[i].type = "snapshot" => i = 1)
    BY <1>0, <1>4
  <2> QED BY <2>1, <2>2 DEF InOrder
<1>6. connected
  BY <1>0 DEF BookInv, InStep
<1>7. CASE wire' = <<>>
  <2>1. Len(wire) = 1
    <3>1. Len(wire') = 0
      BY <1>7
    <3>2. Len(wire') = Len(wire) - 1 /\ Len(wire) \in Nat
      BY <1>2
    <3> QED BY <3>1, <3>2
  <2>2. lastSeq' = Len(venue)
    BY <1>0, <1>1, <1>3, <2>1
  <2> QED BY <1>0, <1>2, <1>5, <1>6, <1>7, <2>2 DEF InStep
<1>8. CASE wire' # <<>>
  <2>1. 1 \in 1..Len(wire')
    BY <1>2, <1>8
  <2>2. /\ wire'[1].seq = Len(venue) - Len(wire) + 1 + 1
        /\ wire'[1].type # "snapshot"
    BY <1>4, <2>1
  <2>3. lastSeq' + 1 = wire'[1].seq /\ lastSeq' <= wire'[1].seq
    <3>1. Len(venue) \in Nat /\ Len(wire) \in Nat
      BY <1>1, <1>2
    <3>2. lastSeq' = Len(venue) - Len(wire) + 1
      BY <1>0, <1>3
    <3>3. wire'[1].seq = Len(venue) - Len(wire) + 2
      BY <2>2, <3>1
    <3> QED BY <3>1, <3>2, <3>3
  <2> QED BY <1>0, <1>2, <1>5, <1>6, <1>8, <2>3 DEF InStep
<1> QED BY <1>7, <1>8

(* The collector drops the message, stores the book, or throws. *)
LEMMA OnOrderbookKeeps == BookInv /\ OnOrderbook => BookInv'
<1> SUFFICES ASSUME BookInv, OnOrderbook PROVE BookInv'
  OBVIOUS
<1> PICK m : m = wire[1]
  OBVIOUS
<1>1. /\ venue \in Seq(Books) /\ venue # <<>> /\ book \in Books /\ lastSeq \in Nat
      /\ snapshot \in [seq : Nat, levels : Books] /\ wire \in Seq(Messages)
      /\ connected \in BOOLEAN /\ Len(venue) \in Nat
  BY DEF BookInv, BookTypeOK
<1>2. wire # <<>> /\ Head(wire) = m
  BY DEF OnOrderbook
<1>3. m.seq \in 1..Len(venue) /\ m.type \in {"snapshot", "delta"}
  BY <1>2, FirstMessage DEF Messages
<1>4. UNCHANGED venue
  BY DEF OnOrderbook
<1>5. Held(lastSeq, book) /\ Held(snapshot.seq, snapshot.levels)
  BY DEF BookInv
<1>6. CASE m.seq <= lastSeq
  <2>1. wire' = Tail(wire) /\ UNCHANGED <<connected, book, lastSeq, snapshot>>
    BY <1>2, <1>6 DEF OnOrderbook
  <2>2. lastSeq = m.seq
    <3>1. lastSeq <= m.seq
      BY <1>2 DEF BookInv, InStep
    <3> QED BY <1>1, <1>3, <1>6, <3>1
  <2>3. InOrder' /\ InStep' /\ wire' \in Seq(Messages)
    BY <1>2, <1>4, <2>1, <2>2, TakeFirst
  <2> QED BY <1>1, <1>4, <1>5, <2>1, <2>3 DEF BookInv, BookTypeOK, Held
<1>7. CASE m.seq > lastSeq
  <2> PICK b : b = Applied(m)
    OBVIOUS
  <2>1. b = venue[m.seq] /\ b \in Books
    BY <1>2, <1>7, AppliedIsNext
  <2>2. book' = b /\ lastSeq' = m.seq
    BY <1>1, <1>2, <1>3, <1>7 DEF OnOrderbook
  <2>3. Held(lastSeq, book)'
    BY <1>3, <1>4, <2>1, <2>2 DEF Held
  <2>4. lastSeq' \in Nat /\ book' \in Books
    BY <1>3, <2>1, <2>2
  <2>5. CASE /\ snapshot' = [seq |-> m.seq, levels |-> b]
             /\ wire' = Tail(wire) /\ UNCHANGED <<connected, breaks>>
    <3>1. InOrder' /\ InStep' /\ wire' \in Seq(Messages)
      BY <1>2, <1>4, <2>2, <2>5, TakeFirst
    <3>2. snapshot' \in [seq : Nat, levels : Books]
      BY <1>3, <2>1, <2>5
    <3>3. Held(snapshot.seq, snapshot.levels)'
      BY <1>3, <1>4, <2>1, <2>5 DEF Held
    <3>4. BookTypeOK'
      BY <1>1, <1>4, <2>4, <2>5, <3>1, <3>2 DEF BookTypeOK
    <3> QED BY <2>3, <3>1, <3>3, <3>4 DEF BookInv
  <2>6. CASE connected' = FALSE /\ wire' = <<>> /\ UNCHANGED snapshot
    <3>1. InOrder' /\ InStep'
      BY <2>6 DEF InOrder, InStep
    <3>2. BookTypeOK'
      <4>1. wire' \in Seq(Messages)
        BY <2>6
      <4> QED BY <1>1, <1>4, <2>4, <2>6, <4>1 DEF BookTypeOK
    <3>3. Held(snapshot.seq, snapshot.levels)'
      BY <1>4, <1>5, <2>6 DEF Held
    <3> QED BY <2>3, <3>1, <3>2, <3>3 DEF BookInv
  <2>7. ~(m.seq <= lastSeq)
    BY <1>1, <1>3, <1>7
  <2> QED BY <1>2, <2>5, <2>6, <2>7 DEF OnOrderbook
<1> QED BY <1>1, <1>3, <1>6, <1>7

(* What was under way is lost; memory is kept, or starts empty. *)
LEMMA BreakKeeps == BookInv /\ (Break \/ Restart) => BookInv'
<1> SUFFICES ASSUME BookInv, Break \/ Restart PROVE BookInv'
  OBVIOUS
<1>1. /\ connected' = FALSE /\ wire' = <<>> /\ UNCHANGED <<venue, snapshot>>
      /\ \/ UNCHANGED <<book, lastSeq>>
         \/ book' = Empty /\ lastSeq' = 0
  BY DEF Break, Restart
<1>2. Empty \in Books
  BY BookAssumption DEF Empty, Books
<1>3. BookTypeOK'
  <2>1. /\ venue \in Seq(Books) /\ venue # <<>> /\ book \in Books /\ lastSeq \in Nat
        /\ snapshot \in [seq : Nat, levels : Books]
    BY DEF BookInv, BookTypeOK
  <2>2. wire' \in Seq(Messages)
    BY <1>1
  <2>3. book' \in Books /\ lastSeq' \in Nat
    BY <1>1, <1>2, <2>1
  <2>4. venue' = venue /\ snapshot' = snapshot /\ connected' \in BOOLEAN
    BY <1>1
  <2> QED BY <2>1, <2>2, <2>3, <2>4 DEF BookTypeOK
<1>4. Held(lastSeq, book)' /\ Held(snapshot.seq, snapshot.levels)'
  <2>1. Held(lastSeq, book) /\ Held(snapshot.seq, snapshot.levels) /\ Len(venue) \in Nat
    BY DEF BookInv, BookTypeOK
  <2> QED BY <1>1, <2>1 DEF Held
<1>5. InOrder' /\ InStep'
  BY <1>1 DEF InOrder, InStep
<1> QED BY <1>3, <1>4, <1>5 DEF BookInv

\* The invariant of the recorded book, for every behaviour of venue and stream
\* (ingestor/orderbook.ts): what RecordedBooks rests on.
THEOREM BookInvariant == BookSpec => []BookInv
<1>1. BookInv /\ [BookNext]_bookVars => BookInv'
  <2> SUFFICES ASSUME BookInv, [BookNext]_bookVars PROVE BookInv'
    OBVIOUS
  <2>1. CASE Subscribe
    BY <2>1, SubscribeKeeps
  <2>2. CASE Change
    BY <2>2, ChangeKeeps
  <2>3. CASE OnOrderbook
    BY <2>3, OnOrderbookKeeps
  <2>4. CASE Break \/ Restart
    BY <2>4, BreakKeeps
  <2>5. CASE UNCHANGED bookVars
    BY <2>5 DEF bookVars, BookInv, BookTypeOK, Held, InOrder, InStep
  <2> QED BY <2>1, <2>2, <2>3, <2>4, <2>5 DEF BookNext
<1> QED BY <1>1, BookInitially, PTL DEF BookSpec

(* Every snapshot stored is the book the exchange had at its number, for any     *)
(* prices, sizes and number of changes, and however often connections, inserts   *)
(* and the process failed between (_on_orderbook, realtime.py:252-299).          *)
THEOREM RecordedBooks == BookSpec => []RecordedBookIsTheVenues
<1>1. BookInv => RecordedBookIsTheVenues
  BY DEF BookInv, Held, RecordedBookIsTheVenues
<1> QED BY <1>1, BookInvariant, PTL

-----------------------------------------------------------------------------
(* The stop and the ladder, of ticks in turn.                               *)

\* What the monitor keeps of a policy, for any mark.
IsRuntime(p, rt) ==
  rt \in [peak : Nat, cleared : SUBSET DOMAIN p.ladder, stop : Int]

Ratchets(p) == p.trail.ratchet \/ ~p.trail.on

\* The greater and the lesser of two prices are prices.
LEMMA PeakIs ==
  ASSUME NEW p, NEW a \in Nat, NEW b \in Nat
  PROVE  Peak(p, a, b) \in Nat
<1>1. {a, b} \in SUBSET (0..(a + b)) /\ {a, b} \in SUBSET Nat /\ {a, b} # {} /\ a + b \in Nat
  OBVIOUS
<1>2. Max({a, b}) \in {a, b} /\ Min({a, b}) \in {a, b}
  BY <1>1, MaxIs, MinIs
<1> QED BY <1>2 DEF Peak

\* A level that is tightened is an integer, and as tight as both.
LEMMA TightenIs ==
  ASSUME NEW p, NEW a \in Int, NEW b \in Int
  PROVE  /\ Tighten(p, a, b) \in Int
         /\ AtLeastAsTight(p, Tighten(p, a, b), a)
         /\ AtLeastAsTight(p, Tighten(p, a, b), b)
BY DEF Tighten, AtLeastAsTight

\* A stop tighter than a tighter one is tighter.
LEMMA TightTransitive ==
  ASSUME NEW p, NEW a \in Int, NEW b \in Int, NEW c \in Int,
         AtLeastAsTight(p, a, b), AtLeastAsTight(p, b, c)
  PROVE  AtLeastAsTight(p, a, c)
BY DEF AtLeastAsTight

\* What a tier locks in is the entry, or better.
LEMMA LockIs ==
  ASSUME NEW p, IsPolicy(p), NEW k \in DOMAIN p.ladder
  PROVE  LockLevel(p, k) \in Int /\ AtLeastAsTight(p, LockLevel(p, k), 100 * Entry)
<1>1. p.ladder \in Seq(Tier) /\ DOMAIN p.ladder = 1..Len(p.ladder)
  BY DEF IsPolicy
<1> DEFINE gain == IF k > 1 THEN p.ladder[k - 1].target ELSE 0
<1>2. gain \in Nat
  <2>1. CASE k > 1
    <3>1. k - 1 \in 1..Len(p.ladder)
      BY <1>1, <2>1
    <3>2. p.ladder[k - 1] \in Tier
      BY <1>1, <3>1
    <3> QED BY <2>1, <3>2 DEF Tier
  <2>2. CASE ~ (k > 1)
    BY <2>2
  <2> QED BY <2>1, <2>2
<1>3. LockLevel(p, k) = Level(p, gain)
  BY DEF LockLevel
<1> HIDE DEF gain
<1> QED BY <1>2, <1>3 DEF Level, AtLeastAsTight, Entry

\* What the rungs of T lock in is a stop no looser than the given one, nor, with any rung
\* fired, than the entry.
LEMMA LockedIs ==
  ASSUME NEW p, IsPolicy(p), NEW T \in SUBSET DOMAIN p.ladder, NEW stop \in Int
  PROVE  /\ Locked(p, T, stop) \in Int
         /\ AtLeastAsTight(p, Locked(p, T, stop), stop)
         /\ T # {} => AtLeastAsTight(p, Locked(p, T, stop), 100 * Entry)
<1>1. CASE T = {}
  BY <1>1 DEF Locked, AtLeastAsTight
<1>2. CASE T # {}
  <2>1. Len(p.ladder) \in Nat /\ T \in SUBSET (0..Len(p.ladder))
    BY DEF IsPolicy
  <2>2. Max(T) \in T
    BY <1>2, <2>1, MaxIs
  <2> DEFINE lock == LockLevel(p, Max(T))
  <2>3. lock \in Int /\ AtLeastAsTight(p, lock, 100 * Entry)
    BY <2>2, LockIs
  <2>4. Locked(p, T, stop) = Tighten(p, stop, lock)
    BY <1>2 DEF Locked
  <2> HIDE DEF lock
  <2>5. 100 * Entry \in Int
    BY DEF Entry
  <2> QED BY <2>3, <2>4, <2>5, TightenIs, TightTransitive
<1> QED BY <1>1, <1>2

\* A mark moves a runtime on to a runtime, and tightens its stop unless the trail may loosen it.
LEMMA AdvancedIs ==
  ASSUME NEW p, IsPolicy(p), NEW rt, IsRuntime(p, rt), NEW mark \in Nat
  PROVE  /\ IsRuntime(p, Advanced(p, rt, mark)) /\ Advanced(p, rt, mark).cleared = rt.cleared
         /\ Ratchets(p) =>
              /\ AtLeastAsTight(p, Advanced(p, rt, mark).stop, rt.stop)
              /\ rt.cleared # {} => AtLeastAsTight(p, Advanced(p, rt, mark).stop, 100 * Entry)
<1> DEFINE peak == Peak(p, rt.peak, mark)
           lock == Locked(p, rt.cleared, rt.stop)
           stop == Trailed(p, peak, lock)
<1>1. rt.peak \in Nat /\ rt.cleared \in SUBSET DOMAIN p.ladder /\ rt.stop \in Int
  BY DEF IsRuntime
<1>2. peak \in Nat
  BY <1>1, PeakIs
<1>3. /\ lock \in Int /\ AtLeastAsTight(p, lock, rt.stop)
      /\ rt.cleared # {} => AtLeastAsTight(p, lock, 100 * Entry)
  BY <1>1, LockedIs
<1>4. Advanced(p, rt, mark) = [peak |-> peak, cleared |-> rt.cleared, stop |-> stop]
  BY DEF Advanced
<1> HIDE DEF peak, lock
<1>5. stop \in Int /\ (Ratchets(p) => AtLeastAsTight(p, stop, lock))
  <2> DEFINE trail == Behind(p, peak, p.trail.dist)
  <2>1. trail \in Int
    <3>1. p.trail.dist \in Nat
      BY DEF IsPolicy, Trailing
    <3>2. \A a, b \in Nat : a * (100 - b) \in Int /\ a * (100 + b) \in Int
      OBVIOUS
    <3> QED BY <1>2, <3>1, <3>2 DEF Behind
  <2>2. stop \in {lock, Tighten(p, lock, trail), trail}
        /\ (Ratchets(p) => stop \in {lock, Tighten(p, lock, trail)})
    BY DEF Trailed, Ratchets
  <2>3. AtLeastAsTight(p, lock, lock)
    BY <1>3 DEF AtLeastAsTight
  <2> HIDE DEF trail, stop
  <2> QED BY <1>3, <2>1, <2>2, <2>3, TightenIs
<1> HIDE DEF stop
<1>6. 100 * Entry \in Int
  BY DEF Entry
<1>7. Ratchets(p) => /\ AtLeastAsTight(p, stop, rt.stop)
                     /\ rt.cleared # {} => AtLeastAsTight(p, stop, 100 * Entry)
  BY <1>1, <1>3, <1>5, <1>6, TightTransitive
<1>8. IsRuntime(p, Advanced(p, rt, mark))
  BY <1>1, <1>2, <1>4, <1>5 DEF IsRuntime
<1> QED BY <1>4, <1>7, <1>8

\* A decision keeps the runtime a runtime, tightens its stop, and fires a tier that was not
\* cleared, with the entry locked in.
LEMMA DecisionIs ==
  ASSUME NEW p, IsPolicy(p), NEW rt, IsRuntime(p, rt), NEW mark \in Nat, NEW isLate,
         NEW d, d = EvaluateExit(p, rt, mark, isLate)
  PROVE  /\ IsRuntime(p, d.rt)
         /\ Ratchets(p) =>
              /\ AtLeastAsTight(p, d.rt.stop, rt.stop)
              /\ d.rt.cleared # {} => AtLeastAsTight(p, d.rt.stop, 100 * Entry)
         /\ rt.cleared \subseteq d.rt.cleared
         /\ d.action = "reduce" =>
               d.tier \in DOMAIN p.ladder \ rt.cleared /\ d.tier \in d.rt.cleared
<1> DEFINE adv == Advanced(p, rt, mark)
           due == Due(p, rt, mark)
           next == TierTaken(p, adv, Max(due))
<1>1. /\ IsRuntime(p, adv) /\ adv.cleared = rt.cleared
      /\ Ratchets(p) => /\ AtLeastAsTight(p, adv.stop, rt.stop)
                        /\ rt.cleared # {} => AtLeastAsTight(p, adv.stop, 100 * Entry)
  BY AdvancedIs
<1>2. \/ d = [action |-> "close", rt |-> adv, tier |-> 0]
      \/ d = [action |-> "hold", rt |-> adv, tier |-> 0]
      \/ due # {} /\ d.rt = next /\ d.tier = Max(due)
  BY DEF EvaluateExit
<1> HIDE DEF adv
<1>3. CASE d = [action |-> "close", rt |-> adv, tier |-> 0]
  BY <1>1, <1>3
<1>4. CASE d = [action |-> "hold", rt |-> adv, tier |-> 0]
  BY <1>1, <1>4
<1>5. CASE due # {} /\ d.rt = next /\ d.tier = Max(due)
  <2>1. due \in SUBSET (DOMAIN p.ladder \ rt.cleared)
    BY DEF Due
  <2>2. Len(p.ladder) \in Nat /\ due \in SUBSET (0..Len(p.ladder))
    BY <2>1 DEF IsPolicy
  <2> HIDE DEF due
  <2>3. Max(due) \in due
    BY <1>5, <2>2, MaxIs
  <2> DEFINE k == Max(due)
             stop == Locked(p, {k}, adv.stop)
  <2>4. k \in DOMAIN p.ladder \ rt.cleared
    BY <2>1, <2>3
  <2> HIDE DEF k
  <2>5. adv.stop \in Int /\ adv.peak \in Nat /\ adv.cleared \in SUBSET DOMAIN p.ladder
    BY <1>1 DEF IsRuntime
  <2>6. /\ stop \in Int /\ AtLeastAsTight(p, stop, adv.stop)
        /\ AtLeastAsTight(p, stop, 100 * Entry)
    BY <2>4, <2>5, LockedIs
  <2>7. d.rt = [peak |-> adv.peak, cleared |-> adv.cleared \cup {k}, stop |-> stop]
    BY <1>5 DEF TierTaken, k
  <2> HIDE DEF stop
  <2>8. IsRuntime(p, d.rt)
    BY <2>4, <2>5, <2>6, <2>7 DEF IsRuntime
  <2>9. Ratchets(p) => AtLeastAsTight(p, d.rt.stop, rt.stop)
    <3>1. rt.stop \in Int
      BY DEF IsRuntime
    <3> QED BY <1>1, <2>5, <2>6, <2>7, <3>1, TightTransitive
  <2>10. d.tier = k
    BY <1>5 DEF k
  <2> QED BY <1>1, <2>4, <2>6, <2>7, <2>8, <2>9, <2>10
<1> QED BY <1>2, <1>3, <1>4, <1>5

Runtimes == [peak : Nat, cleared : SUBSET DOMAIN policy.ladder, stop : Int]
Snaps == [rt : Runtimes, mark : Nat, late : BOOLEAN]
Reading == {"settings", "evaluate"}

LadderShaped ==
  /\ policy \in Policies
  /\ runtime \in Runtimes /\ lastMark \in Nat /\ late \in BOOLEAN
  /\ pc \in [Ticks -> Busy \cup {"idle"}]
  /\ snap \in [Ticks -> Snaps]
  /\ reduces \in [DOMAIN policy.ladder -> Nat]

\* What a tick read is what the row says, until it has written.
Fresh == \A t \in Ticks : pc[t] \in Reading => snap[t].rt = runtime

\* A tier that fired is cleared, and its event is not recorded yet.
Fired ==
  \A t \in Ticks : pc[t] = "reduced" =>
    /\ Decision(t).tier \in DOMAIN policy.ladder /\ Decision(t).tier \in runtime.cleared
    /\ reduces[Decision(t).tier] = 0

Counted == \A k \in DOMAIN policy.ladder :
               reduces[k] <= 1 /\ (k \notin runtime.cleared => reduces[k] = 0)

LockedIn ==
  runtime.cleared # {} /\ Ratchets(policy) => AtLeastAsTight(policy, runtime.stop, 100 * Entry)

LadderInv == LadderShaped /\ Fresh /\ Fired /\ Counted /\ LockedIn

\* The policies are policies.
LEMMA PolicyIs == ASSUME LadderShaped PROVE IsPolicy(policy)
BY PoliciesAssumption DEF LadderShaped

\* Steps that leave the runtime and the events alone, and what a tick has read.
LEMMA QuietLadder ==
  ASSUME LadderInv, runtime' = runtime, reduces' = reduces, policy' = policy,
         lastMark' \in Nat, late' \in BOOLEAN,
         pc' \in [Ticks -> Busy \cup {"idle"}], snap' \in [Ticks -> Snaps],
         \A t \in Ticks : \/ pc'[t] = pc[t] /\ snap'[t] = snap[t]
                          \/ pc'[t] \notin Reading \cup {"reduced"}
                          \/ pc'[t] \in Reading /\ snap'[t].rt = runtime
  PROVE  LadderInv'
<1>1. LadderShaped' /\ Counted' /\ LockedIn'
  BY DEF LadderInv, LadderShaped, Counted, LockedIn, Runtimes, Snaps
<1>2. Fresh'
  BY DEF LadderInv, Fresh, Reading
<1>3. Fired'
  <2> SUFFICES ASSUME NEW t \in Ticks, pc'[t] = "reduced"
               PROVE  /\ Decision(t)' = Decision(t) /\ pc[t] = "reduced"
    BY DEF LadderInv, Fired
  <2>1. pc[t] = "reduced" /\ snap'[t] = snap[t]
    BY DEF Reading
  <2> QED BY <2>1 DEF Decision
<1> QED BY <1>1, <1>2, <1>3 DEF LadderInv

\* One tick goes to where it needs nothing it read, or ends.
LEMMA QuietTick ==
  ASSUME LadderInv, runtime' = runtime, reduces' = reduces, policy' = policy,
         lastMark' \in Nat, late' = late, NEW t \in Ticks,
         \/ End(t)
         \/ \E where \in {"exiting", "stopping", "recording"} : Goto(t, where)
         \/ Goto(t, "evaluate") /\ pc[t] = "settings"
  PROVE  LadderInv'
<1>1. /\ runtime \in Runtimes /\ lastMark \in Nat /\ late \in BOOLEAN /\ policy \in Policies
      /\ pc \in [Ticks -> Busy \cup {"idle"}] /\ snap \in [Ticks -> Snaps]
  BY DEF LadderInv, LadderShaped
<1>2. NothingRead \in Snaps
  <2>1. IsPolicy(policy)
    BY PolicyIs DEF LadderInv
  <2>2. policy.stop \in Nat /\ -policy.stop \in Int
    BY <2>1 DEF IsPolicy
  <2> QED BY <2>2 DEF NothingRead, InitRuntime, BaseStop, Level, Entry, Snaps, Runtimes
<1>3. CASE End(t)
  <2>1. pc' = [pc EXCEPT ![t] = "idle"] /\ snap' = [snap EXCEPT ![t] = NothingRead]
    BY <1>3 DEF End
  <2> HIDE DEF NothingRead, Snaps
  <2>2. pc' \in [Ticks -> Busy \cup {"idle"}] /\ snap' \in [Ticks -> Snaps]
    BY <1>1, <1>2, <2>1
  <2>3. \A u \in Ticks : \/ pc'[u] = pc[u] /\ snap'[u] = snap[u]
                         \/ pc'[u] \notin Reading \cup {"reduced"}
    BY <1>1, <2>1 DEF Reading
  <2> QED BY <1>1, <2>2, <2>3, QuietLadder
<1>4. ASSUME NEW where \in {"exiting", "stopping", "recording"}, Goto(t, where) PROVE LadderInv'
  <2>1. pc' = [pc EXCEPT ![t] = where] /\ snap' = snap
    BY <1>4 DEF Goto
  <2>2. pc' \in [Ticks -> Busy \cup {"idle"}]
    BY <1>1, <2>1 DEF Busy, Exiting
  <2>3. \A u \in Ticks : \/ pc'[u] = pc[u] /\ snap'[u] = snap[u]
                         \/ pc'[u] \notin Reading \cup {"reduced"}
    BY <1>1, <2>1 DEF Reading
  <2> QED BY <1>1, <2>1, <2>2, <2>3, QuietLadder
<1>5. CASE Goto(t, "evaluate") /\ pc[t] = "settings"
  <2>1. pc' = [pc EXCEPT ![t] = "evaluate"] /\ snap' = snap
    BY <1>5 DEF Goto
  <2>2. pc' \in [Ticks -> Busy \cup {"idle"}]
    BY <1>1, <2>1 DEF Busy, Exiting
  <2>3. snap[t].rt = runtime
    BY <1>5 DEF LadderInv, Fresh, Reading
  <2>4. \A u \in Ticks : \/ pc'[u] = pc[u] /\ snap'[u] = snap[u]
                         \/ pc'[u] \in Reading /\ snap'[u].rt = runtime
    BY <1>1, <2>1, <2>3 DEF Reading
  <2> QED BY <1>1, <2>1, <2>2, <2>4, QuietLadder
<1> QED BY <1>3, <1>4, <1>5

\* A tick reads the row.
LEMMA ReadLadder ==
  ASSUME LadderInv, NEW t \in Ticks,
         \/ \E mark \in Marks : ReadForMark(t, mark) \/ ReadForEndpoint(t, mark)
         \/ ReadForSweep(t)
  PROVE  LadderInv'
<1>1. /\ runtime \in Runtimes /\ lastMark \in Nat /\ late \in BOOLEAN
      /\ pc \in [Ticks -> Busy \cup {"idle"}] /\ snap \in [Ticks -> Snaps] /\ Marks \subseteq Nat
  BY MonitorAssumption DEF LadderInv, LadderShaped
<1>2. UNCHANGED <<runtime, reduces, policy, lastMark, late>>
  BY DEF ReadForMark, ReadForEndpoint, ReadForSweep, rowVars, worldVars
<1>3. PICK mark \in Nat, isLate \in BOOLEAN, where \in Reading : Read(t, mark, isLate, where)
  BY <1>1 DEF ReadForMark, ReadForEndpoint, ReadForSweep, Reading
<1> DEFINE r == [rt |-> runtime, mark |-> mark, late |-> isLate]
<1>4. pc' = [pc EXCEPT ![t] = where] /\ snap' = [snap EXCEPT ![t] = r]
  BY <1>3 DEF Read
<1>5. r \in Snaps /\ r.rt = runtime
  BY <1>1 DEF Snaps
<1> HIDE DEF r
<1>6. pc' \in [Ticks -> Busy \cup {"idle"}] /\ snap' \in [Ticks -> Snaps]
  <2>1. where \in Busy
    BY DEF Reading, Busy
  <2> HIDE DEF Snaps
  <2> QED BY <1>1, <1>4, <1>5, <2>1
<1>7. \A u \in Ticks : \/ pc'[u] = pc[u] /\ snap'[u] = snap[u]
                       \/ pc'[u] \in Reading /\ snap'[u].rt = runtime
  BY <1>1, <1>4, <1>5
<1> QED BY <1>1, <1>2, <1>6, <1>7, QuietLadder

\* A tick writes what it made of the row as it is.
LEMMA DecisionFresh ==
  ASSUME LadderInv, NEW t \in Ticks, pc[t] = "evaluate"
  PROVE  LET d == Decision(t)
         IN /\ d.rt \in Runtimes
            /\ Ratchets(policy) =>
                 /\ AtLeastAsTight(policy, d.rt.stop, runtime.stop)
                 /\ d.rt.cleared # {} => AtLeastAsTight(policy, d.rt.stop, 100 * Entry)
            /\ runtime.cleared \subseteq d.rt.cleared
            /\ d.action = "reduce" =>
                 /\ d.tier \in DOMAIN policy.ladder /\ d.tier \notin runtime.cleared
                 /\ d.tier \in d.rt.cleared
<1>1. snap[t].rt = runtime /\ snap[t].mark \in Nat /\ runtime \in Runtimes /\ IsPolicy(policy)
  BY PolicyIs DEF LadderInv, LadderShaped, Fresh, Reading, Snaps
<1>2. Decision(t) = EvaluateExit(policy, runtime, snap[t].mark, snap[t].late)
  BY <1>1 DEF Decision
<1>3. IsRuntime(policy, runtime)
  BY <1>1 DEF IsRuntime, Runtimes
<1> HIDE DEF Runtimes
<1> QED BY <1>1, <1>2, <1>3, DecisionIs DEF IsRuntime, Runtimes

\* The write of a decision keeps the ladder, and never loosens a stop that ratchets.
LEMMA WriteLadder ==
  ASSUME LadderInv, Serial, NEW t \in Ticks, Hold(t) \/ Reduce(t)
  PROVE  /\ LadderInv'
         /\ Ratchets(policy) => AtLeastAsTight(policy, runtime'.stop, runtime.stop)
<1> DEFINE d == Decision(t)
<1>1. /\ pc[t] = "evaluate" /\ runtime' = d.rt /\ lastMark' = snap[t].mark
      /\ policy' = policy /\ late' = late /\ reduces' = reduces
  BY DEF Hold, Reduce, UpdateRuntime, worldVars
<1>2. /\ d.rt \in Runtimes
      /\ Ratchets(policy) => /\ AtLeastAsTight(policy, d.rt.stop, runtime.stop)
                             /\ d.rt.cleared # {} => AtLeastAsTight(policy, d.rt.stop, 100 * Entry)
      /\ runtime.cleared \subseteq d.rt.cleared
      /\ d.action = "reduce" => /\ d.tier \in DOMAIN policy.ladder /\ d.tier \notin runtime.cleared
                                /\ d.tier \in d.rt.cleared
  BY <1>1, DecisionFresh
<1>3. /\ policy \in Policies /\ late \in BOOLEAN /\ pc \in [Ticks -> Busy \cup {"idle"}]
      /\ snap \in [Ticks -> Snaps] /\ reduces \in [DOMAIN policy.ladder -> Nat]
      /\ snap[t].mark \in Nat
  BY DEF LadderInv, LadderShaped, Snaps
<1>4. \A u \in Ticks \ {t} : pc[u] = "idle"
  BY <1>1 DEF Serial
<1>5. Counted' /\ LockedIn'
  <2> HIDE DEF d
  <2> QED BY <1>1, <1>2 DEF LadderInv, Counted, LockedIn
<1>6. CASE Hold(t)
  <2>1. pc' = [pc EXCEPT ![t] = "idle"] /\ snap' = [snap EXCEPT ![t] = NothingRead]
    BY <1>6 DEF Hold, End
  <2>2. NothingRead \in Snaps
    <3>1. policy.stop \in Nat /\ -policy.stop \in Int
      BY PolicyIs DEF LadderInv, IsPolicy
    <3> QED BY <3>1 DEF NothingRead, InitRuntime, BaseStop, Level, Entry, Snaps, Runtimes
  <2> HIDE DEF NothingRead, d
  <2>3. \A u \in Ticks : pc'[u] = "idle"
    BY <1>3, <1>4, <2>1
  <2>4. snap' \in [Ticks -> Snaps] /\ pc' \in [Ticks -> Busy \cup {"idle"}]
    <3> HIDE DEF Snaps
    <3> QED BY <1>3, <2>1, <2>2
  <2>5. LadderShaped'
    BY <1>1, <1>2, <1>3, <2>4 DEF LadderShaped, Snaps, Runtimes
  <2>6. Fresh' /\ Fired'
    BY <2>3 DEF Fresh, Fired, Reading
  <2> QED BY <1>1, <1>2, <1>5, <2>5, <2>6 DEF LadderInv
<1>7. CASE Reduce(t)
  <2>1. pc' = [pc EXCEPT ![t] = "reduced"] /\ snap' = snap /\ d.action = "reduce"
    BY <1>7 DEF Reduce, Goto
  <2>2. pc' \in [Ticks -> Busy \cup {"idle"}]
    BY <1>3, <2>1 DEF Busy
  <2>3. d' = d
    BY <1>1, <2>1 DEF Decision
  <2> HIDE DEF d
  <2>4. LadderShaped'
    BY <1>1, <1>2, <1>3, <2>1, <2>2 DEF LadderShaped, Snaps, Runtimes
  <2>5. Fresh'
    BY <1>3, <1>4, <2>1 DEF Fresh, Reading
  <2>6. reduces[d.tier] = 0
    BY <1>2, <2>1 DEF LadderInv, Counted
  <2>7. Fired'
    <3> SUFFICES ASSUME NEW u \in Ticks, pc'[u] = "reduced"
                 PROVE  /\ d'.tier \in DOMAIN policy'.ladder /\ d'.tier \in runtime'.cleared
                        /\ reduces'[d'.tier] = 0 /\ u = t
      BY DEF Fired, d
    <3>1. u = t
      BY <1>3, <1>4, <2>1
    <3> QED BY <1>1, <1>2, <2>1, <2>3, <2>6, <3>1
  <2> QED BY <1>1, <1>2, <1>5, <2>4, <2>5, <2>7 DEF LadderInv
<1> QED BY <1>6, <1>7

\* The event of a tier is recorded, once.
LEMMA RecordLadder ==
  ASSUME LadderInv, Serial, NEW t \in Ticks, RecordReduce(t)
  PROVE  LadderInv'
<1>1. /\ pc[t] = "reduced" /\ runtime' = runtime /\ policy' = policy /\ late' = late
      /\ lastMark' = lastMark /\ End(t)
  BY DEF RecordReduce, rowVars, worldVars
<1>2. lastMark \in Nat
  BY DEF LadderInv, LadderShaped
<1>3. CASE reduces' = reduces
  BY <1>1, <1>2, <1>3, QuietTick
<1> DEFINE k == Decision(t).tier
<1>4. CASE reduces' = [reduces EXCEPT ![k] = Min({@ + 1, MaxReduces})]
  <2>1. k \in DOMAIN policy.ladder /\ k \in runtime.cleared /\ reduces[k] = 0
    BY <1>1 DEF LadderInv, Fired
  <2> HIDE DEF k
  <2>2. Min({0 + 1, MaxReduces}) \in 0..1
    <3>1. {0 + 1, MaxReduces} \in SUBSET Nat
      BY MonitorAssumption
    <3>2. Min({0 + 1, MaxReduces}) \in Nat /\ Min({0 + 1, MaxReduces}) <= 0 + 1
      BY <3>1, MinIs
    <3> QED BY <3>2
  <2>3. reduces \in [DOMAIN policy.ladder -> Nat]
    BY DEF LadderInv, LadderShaped
  <2> DEFINE n == Min({0 + 1, MaxReduces})
  <2>4. reduces' = [reduces EXCEPT ![k] = n]
    BY <1>4, <2>1
  <2> HIDE DEF n
  <2>5. n \in 0..1
    BY <2>2 DEF n
  <2>6. /\ pc \in [Ticks -> Busy \cup {"idle"}] /\ snap \in [Ticks -> Snaps]
        /\ policy \in Policies /\ runtime \in Runtimes /\ late \in BOOLEAN
    BY DEF LadderInv, LadderShaped
  <2>7. pc' = [pc EXCEPT ![t] = "idle"] /\ snap' = [snap EXCEPT ![t] = NothingRead]
    BY <1>1 DEF End
  <2>8. NothingRead \in Snaps
    <3>1. policy.stop \in Nat /\ -policy.stop \in Int
      BY PolicyIs DEF LadderInv, IsPolicy
    <3> QED BY <3>1 DEF NothingRead, InitRuntime, BaseStop, Level, Entry, Snaps, Runtimes
  <2> HIDE DEF NothingRead
  <2>9. \A u \in Ticks : pc'[u] = "idle"
    BY <1>1, <2>6, <2>7 DEF Serial
  <2>10. snap' \in [Ticks -> Snaps] /\ pc' \in [Ticks -> Busy \cup {"idle"}]
    <3> HIDE DEF Snaps
    <3> QED BY <2>6, <2>7, <2>8
  <2>11. reduces' \in [DOMAIN policy.ladder -> Nat]
    BY <2>1, <2>3, <2>4, <2>5
  <2>12. LadderShaped'
    BY <1>1, <1>2, <2>6, <2>10, <2>11 DEF LadderShaped, Snaps, Runtimes
  <2>13. Fresh' /\ Fired'
    BY <2>9 DEF Fresh, Fired, Reading
  <2>14. Counted'
    BY <1>1, <2>1, <2>3, <2>4, <2>5 DEF LadderInv, Counted
  <2>15. LockedIn'
    BY <1>1 DEF LadderInv, LockedIn
  <2> QED BY <2>12, <2>13, <2>14, <2>15 DEF LadderInv
<1> QED BY <1>3, <1>4 DEF RecordReduce

\* The agent's process dies, or one tick is lost.
LEMMA CrashLadder == ASSUME LadderInv, Crash PROVE LadderInv'
<1>1. UNCHANGED <<runtime, reduces, policy, lastMark, late>>
  BY DEF Crash, rowVars, worldVars
<1>2. lastMark \in Nat /\ late \in BOOLEAN
  BY DEF LadderInv, LadderShaped
<1>3. CASE \E t \in Ticks : End(t)
  BY <1>1, <1>2, <1>3, QuietTick
<1>4. CASE pc' = [t \in Ticks |-> "idle"] /\ snap' = [t \in Ticks |-> NothingRead]
  <2>1. NothingRead \in Snaps
    <3>1. policy.stop \in Nat /\ -policy.stop \in Int
      BY PolicyIs DEF LadderInv, IsPolicy
    <3> QED BY <3>1 DEF NothingRead, InitRuntime, BaseStop, Level, Entry, Snaps, Runtimes
  <2>2. snap' \in [Ticks -> Snaps] /\ pc' \in [Ticks -> Busy \cup {"idle"}]
    BY <1>4, <2>1
  <2>3. \A u \in Ticks : pc'[u] \notin Reading \cup {"reduced"}
    BY <1>4 DEF Reading
  <2> QED BY <1>1, <1>2, <2>2, <2>3, QuietLadder
<1> QED BY <1>3, <1>4 DEF Crash

\* Every step of ticks in turn keeps the ladder, and tightens the stop of a policy that
\* ratchets.
LEMMA LadderStep ==
  ASSUME LadderInv, Serial, [Next]_vars
  PROVE  /\ LadderInv'
         /\ runtime' # runtime /\ Ratchets(policy)
              => AtLeastAsTight(policy, runtime'.stop, runtime.stop)
<1>0. /\ runtime \in Runtimes /\ lastMark \in Nat /\ late \in BOOLEAN
      /\ pc \in [Ticks -> Busy \cup {"idle"}] /\ snap \in [Ticks -> Snaps]
  BY DEF LadderInv, LadderShaped
<1>1. ASSUME NEW t \in Ticks,
             \/ \E mark \in Marks : ReadForMark(t, mark) \/ ReadForEndpoint(t, mark)
             \/ ReadForSweep(t)
      PROVE  LadderInv' /\ runtime' = runtime
  <2>1. runtime' = runtime
    BY <1>1 DEF ReadForMark, ReadForEndpoint, ReadForSweep, rowVars
  <2> QED BY <1>1, <2>1, ReadLadder
<1>2. ASSUME NEW t \in Ticks, Hold(t) \/ Reduce(t)
      PROVE  LadderInv' /\ (Ratchets(policy) => AtLeastAsTight(policy, runtime'.stop, runtime.stop))
  BY <1>2, WriteLadder
<1>3. ASSUME NEW t \in Ticks, RecordReduce(t) PROVE LadderInv' /\ runtime' = runtime
  <2>1. runtime' = runtime
    BY <1>3 DEF RecordReduce, rowVars
  <2> QED BY <1>3, <2>1, RecordLadder
<1>4. ASSUME NEW t \in Ticks,
             CheckSettings(t) \/ Claim(t) \/ StopSession(t) \/ MarkClosed(t) \/ RecordClose(t)
               \/ ExitFails(t)
      PROVE  LadderInv' /\ runtime' = runtime
  <2>1. runtime' = runtime /\ reduces' = reduces /\ policy' = policy /\ late' = late
    BY <1>4 DEF CheckSettings, Claim, StopSession, MarkClosed, RecordClose, ExitFails, rowVars,
                worldVars
  <2>2. lastMark' \in Nat
    BY <1>0, <1>4 DEF CheckSettings, Claim, StopSession, MarkClosed, RecordClose, ExitFails,
                      rowVars, worldVars, Snaps
  <2>3. \/ End(t)
        \/ \E where \in {"exiting", "stopping", "recording"} : Goto(t, where)
        \/ Goto(t, "evaluate") /\ pc[t] = "settings"
    BY <1>4 DEF CheckSettings, Claim, StopSession, MarkClosed, RecordClose, ExitFails
  <2> QED BY <2>1, <2>2, <2>3, QuietTick
<1>5. ASSUME ManualClose \/ ManualStop \/ Disable \/ Deadline \/ UNCHANGED vars
      PROVE  LadderInv' /\ runtime' = runtime
  <2>1. UNCHANGED <<runtime, reduces, policy, lastMark, pc, snap>> /\ late' \in BOOLEAN
    BY <1>0, <1>5 DEF ManualClose, ManualStop, Disable, Deadline, vars, rowVars, worldVars
  <2> QED BY <1>0, <2>1, QuietLadder
<1>6. ASSUME Crash PROVE LadderInv' /\ runtime' = runtime
  <2>1. runtime' = runtime
    BY <1>6 DEF Crash, rowVars
  <2> QED BY <1>6, <2>1, CrashLadder
<1> QED BY <1>1, <1>2, <1>3, <1>4, <1>5, <1>6 DEF Next, Advance

\* A position opens with no rung fired and no reduction made.
LEMMA LadderInitially == ASSUME Init PROVE LadderInv
<1>1. policy \in Policies /\ late = FALSE /\ lastMark = Entry
      /\ runtime = InitRuntime(policy) /\ pc = [t \in Ticks |-> "idle"]
      /\ snap = [t \in Ticks |-> NothingRead] /\ reduces = [k \in DOMAIN policy.ladder |-> 0]
  BY DEF Init
<1>2. policy.stop \in Nat /\ -policy.stop \in Int
  BY <1>1, PoliciesAssumption DEF IsPolicy
<1>3. InitRuntime(policy) \in Runtimes /\ NothingRead \in Snaps /\ InitRuntime(policy).cleared = {}
  BY <1>2 DEF NothingRead, InitRuntime, BaseStop, Level, Entry, Snaps, Runtimes
<1>4. LadderShaped
  <2> HIDE DEF Snaps, Runtimes, NothingRead, InitRuntime
  <2>1. lastMark \in Nat
    BY <1>1 DEF Entry
  <2> QED BY <1>1, <1>3, <2>1 DEF LadderShaped
<1>5. Fresh /\ Fired /\ Counted /\ LockedIn
  BY <1>1, <1>3 DEF Fresh, Fired, Counted, LockedIn, Reading
<1> QED BY <1>4, <1>5 DEF LadderInv

\* In any behaviour whose ticks run one at a time, crashes and failures of exits included, a
\* take-profit tier is taken at most once, and under a policy that ratchets the stop is at
\* breakeven or better behind the first tier and never moves the other way.
THEOREM TicksInTurn ==
  Spec /\ []Serial =>
    /\ [](Counted /\ LockedIn)
    /\ [][Ratchets(policy) => AtLeastAsTight(policy, runtime'.stop, runtime.stop)]_runtime
<1>1. LadderInv /\ Serial /\ [Next]_vars => LadderInv'
  BY LadderStep
<1>2. LadderInv /\ Serial /\ [Next]_vars =>
        [Ratchets(policy) => AtLeastAsTight(policy, runtime'.stop, runtime.stop)]_runtime
  BY LadderStep
<1>3. LadderInv => Counted /\ LockedIn
  BY DEF LadderInv
<1>4. Init => LadderInv
  BY LadderInitially
<1> QED BY <1>1, <1>2, <1>3, <1>4, PTL DEF Spec

\* Ticks in turn keep the ladder, in the composition that the run checks.
SerialLadder == part = "serial" => LadderInv /\ Serial

\* A step of the composition, ticks in turn, is a step of the monitor.
LEMMA SerialStep ==
  ASSUME SerialLadder, [MCNext]_mcVars, part = "serial"
  PROVE  [Next]_vars /\ part' = part /\ LadderInv /\ Serial /\ Serial'
<1>1. CASE Monitoring /\ Next /\ UNCHANGED <<dataVars, copilotVars, part>> /\ Within'
  BY <1>1 DEF SerialLadder, Within
<1>2. CASE UNCHANGED <<vars, part>>
  <2>1. Serial'
    BY <1>2 DEF SerialLadder, Serial, vars
  <2> QED BY <1>2, <2>1 DEF SerialLadder
<1>3. CASE ~ (Monitoring /\ Next /\ UNCHANGED <<dataVars, copilotVars, part>> /\ Within')
  BY <1>2, <1>3 DEF MCNext, Candles, mcVars
<1> QED BY <1>1, <1>3

\* The composition starts with the ladder in order.
LEMMA SerialInitially == MCInit => SerialLadder
BY LadderInitially DEF MCInit, SerialLadder, Within

\* Every step of the composition keeps it so.
LEMMA SerialKept == SerialLadder /\ [MCNext]_mcVars => SerialLadder'
<1> SUFFICES ASSUME SerialLadder, [MCNext]_mcVars PROVE SerialLadder'
  OBVIOUS
<1>1. part' = part
  BY DEF MCNext, mcVars
<1>2. CASE part = "serial"
  BY <1>2, SerialStep, LadderStep DEF SerialLadder
<1> QED BY <1>1, <1>2 DEF SerialLadder

\* When no tick starts while another one runs, a take-profit tier is taken at most once,
\* and once one was taken the stop of a policy that ratchets is at breakeven or better.
THEOREM LadderIsKept == MCSpec => []LadderKept
<1>1. SerialLadder => LadderKept
  <2> SUFFICES ASSUME SerialLadder, part = "serial"
               PROVE  /\ \A k \in DOMAIN policy.ladder : reduces[k] <= 1
                      /\ runtime.cleared # {} /\ (policy.trail.ratchet \/ ~policy.trail.on)
                           => AtLeastAsTight(policy, runtime.stop, 100 * Entry)
    BY DEF LadderKept
  <2> QED BY DEF SerialLadder, LadderInv, Counted, LockedIn, Ratchets
<1> QED BY <1>1, SerialInitially, SerialKept, PTL DEF MCSpec

\* Then the stop of such a policy moves in the protective direction only
\* (exitPolicy.ts:143, monotonic, never loosens).
THEOREM StopRatchets == MCSpec => StopNeverLoosens
<1>1. SerialLadder /\ [MCNext]_mcVars
        => [part = "serial" /\ (policy.trail.ratchet \/ ~policy.trail.on)
              => AtLeastAsTight(policy, runtime'.stop, runtime.stop)]_runtime
  <2> SUFFICES ASSUME SerialLadder, [MCNext]_mcVars, part = "serial", runtime' # runtime,
                      policy.trail.ratchet \/ ~policy.trail.on
               PROVE  AtLeastAsTight(policy, runtime'.stop, runtime.stop)
    OBVIOUS
  <2> QED BY SerialStep, LadderStep DEF Ratchets
<1> QED BY <1>1, SerialInitially, SerialKept, PTL DEF MCSpec, StopNeverLoosens

-----------------------------------------------------------------------------
(* A scan of the candles reports exactly their gaps: of any set of stored   *)
(* bars and any range of bars.                                              *)

\* Ranges in order with a bar between one and the next; what they cover; their end.
Spaced(R) ==
  /\ \A i \in DOMAIN R : R[i][1] <= R[i][2]
  /\ \A i \in 2..Len(R) : R[i - 1][2] + 1 < R[i][1]
Cover(R) == UNION {R[i][1]..R[i][2] : i \in DOMAIN R}
EndBefore(R, bar) == \A i \in DOMAIN R : R[i][2] + 1 < bar

\* A range is appended that begins behind them.
LEMMA AppendRange ==
  ASSUME NEW R \in Seq(Nat \X Nat), Spaced(R), NEW a \in Nat, NEW b \in Nat, a <= b,
         EndBefore(R, a)
  PROVE  /\ Append(R, <<a, b>>) \in Seq(Nat \X Nat) /\ Spaced(Append(R, <<a, b>>))
         /\ Cover(Append(R, <<a, b>>)) = Cover(R) \cup (a..b)
         /\ EndBefore(Append(R, <<a, b>>), b + 2)
<1> DEFINE Q == Append(R, <<a, b>>)
           n == Len(R) + 1
<1>1. Len(R) \in Nat /\ DOMAIN R = 1..Len(R) /\ \A i \in 1..Len(R) : R[i] \in Nat \X Nat
  OBVIOUS
<1>2. /\ Q \in Seq(Nat \X Nat) /\ Len(Q) = n /\ DOMAIN Q = 1..n /\ Q[n] = <<a, b>>
      /\ \A i \in 1..Len(R) : Q[i] = R[i]
  OBVIOUS
<1> HIDE DEF Q
<1>3. \A i \in 1..n : i \in 1..Len(R) \/ i = n
  BY <1>1
<1>4. \A i \in 1..Len(R) : R[i][1] \in Nat /\ R[i][2] \in Nat
  BY <1>1
<1>5. Q[n][1] = a /\ Q[n][2] = b
  BY <1>2
<1>6. \A i \in DOMAIN Q : Q[i][1] <= Q[i][2]
  BY <1>1, <1>2, <1>3, <1>5 DEF Spaced
<1>7. ASSUME NEW i \in 2..Len(Q) PROVE Q[i - 1][2] + 1 < Q[i][1]
  <2>0. i \in Nat /\ 2 <= i /\ i <= Len(R) + 1
    BY <1>1, <1>2
  <2>1. i - 1 \in 1..Len(R) /\ Q[i - 1] = R[i - 1]
    <3>1. i - 1 \in 1..Len(R)
      BY <1>1, <2>0
    <3> QED BY <1>2, <3>1
  <2>2. CASE i = n
    BY <1>1, <1>5, <2>1, <2>2 DEF EndBefore
  <2>3. CASE i # n
    <3>1. i \in 2..Len(R) /\ i \in 1..Len(R)
      BY <1>1, <2>0, <2>3
    <3>2. Q[i] = R[i]
      BY <1>2, <3>1
    <3> QED BY <2>1, <3>1, <3>2 DEF Spaced
  <2> QED BY <2>2, <2>3
<1>8. Spaced(Q)
  BY <1>6, <1>7 DEF Spaced
<1>9. Cover(Q) = Cover(R) \cup (a..b)
  <2>1. ASSUME NEW x PROVE x \in Cover(Q) <=> \E i \in 1..n : x \in Q[i][1]..Q[i][2]
    BY <1>2 DEF Cover
  <2>2. ASSUME NEW x PROVE x \in Cover(R) <=> \E i \in 1..Len(R) : x \in R[i][1]..R[i][2]
    BY <1>1 DEF Cover
  <2>3. n \in 1..n /\ \A i \in 1..Len(R) : i \in 1..n
    BY <1>1
  <2>4. ASSUME NEW x PROVE x \in Cover(Q) <=> x \in Cover(R) \/ x \in a..b
    <3>1. ASSUME x \in Cover(Q) PROVE x \in Cover(R) \/ x \in a..b
      <4>1. PICK i \in 1..n : x \in Q[i][1]..Q[i][2]
        BY <2>1, <3>1
      <4>2. CASE i = n
        BY <1>5, <4>1, <4>2
      <4>3. CASE i \in 1..Len(R)
        <5>1. x \in R[i][1]..R[i][2]
          BY <1>2, <4>1, <4>3
        <5> QED BY <2>2, <4>3, <5>1
      <4> QED BY <1>3, <4>2, <4>3
    <3>2. ASSUME x \in Cover(R) PROVE x \in Cover(Q)
      <4>1. PICK i \in 1..Len(R) : x \in R[i][1]..R[i][2]
        BY <2>2, <3>2
      <4>2. x \in Q[i][1]..Q[i][2] /\ i \in 1..n
        BY <1>2, <2>3, <4>1
      <4> QED BY <2>1, <4>2
    <3>3. ASSUME x \in a..b PROVE x \in Cover(Q)
      BY <1>5, <2>1, <2>3, <3>3
    <3> QED BY <3>1, <3>2, <3>3
  <2> QED BY <2>4
<1>10. EndBefore(Q, b + 2)
  <2> SUFFICES ASSUME NEW i \in 1..n PROVE Q[i][2] + 1 < b + 2
    BY <1>2 DEF EndBefore
  <2>1. CASE i = n
    BY <1>5, <2>1
  <2>2. CASE i \in 1..Len(R)
    <3>1. R[i][2] + 1 < a /\ R[i][2] \in Nat /\ Q[i][2] = R[i][2]
      BY <1>1, <1>2, <1>4, <2>2 DEF EndBefore
    <3> QED BY <3>1
  <2> QED BY <1>3, <2>1, <2>2
<1> QED BY <1>2, <1>8, <1>9, <1>10 DEF Q

\* g is what the walk makes of each set of the turns f, the last one last.
NoWalk == [ranges |-> <<>>, start |-> NoBar, prev |-> NoBar]
Turns(g, seen, f, S) ==
  g = [s \in SUBSET S |->
         IF s = {} THEN NoWalk ELSE WalkBar(seen, g[s \ {Max(s)}], f[Max(s)])]

\* The last of some turns is one of them.
LEMMA LastTurn ==
  ASSUME NEW n \in Nat, NEW s \in SUBSET (1..n), s # {}
  PROVE  Max(s) \in s
BY MaxIs

\* There is such a function: at the least number of turns where there were none, one more
\* turn of the equation makes one.
LEMMA TurnsExist ==
  ASSUME NEW N \in Nat, NEW seen, NEW f
  PROVE  \E g : Turns(g, seen, f, 1..N)
<1> DEFINE S == 1..N
           Small(n) == {s \in SUBSET S : Cardinality(s) <= n}
           Turn(h, n) == [s \in Small(n) |->
                            IF s = {} THEN NoWalk ELSE WalkBar(seen, h[s \ {Max(s)}], f[Max(s)])]
           Bad == {n \in Nat : ~ \E h : h = Turn(h, n)}
<1>0. /\ IsFiniteSet(S)
      /\ \A s \in SUBSET S :
            IsFiniteSet(s) /\ Cardinality(s) \in Nat /\ Cardinality(s) <= Cardinality(S)
  <2>1. IsFiniteSet(S)
    BY FS_Interval
  <2> HIDE DEF S
  <2> QED BY <2>1, FS_Subset, FS_CardinalityType
<1>1. Bad = {}
  <2>1. SUFFICES ASSUME NEW n \in Bad, \A m \in Bad : n <= m PROVE FALSE
    BY LeastNatural
  <2>2. CASE n = 0
    <3>1. Small(0) = {{}}
      BY <1>0, FS_EmptySet
    <3> DEFINE h == [s \in Small(0) |-> NoWalk]
    <3>2. h = Turn(h, 0)
      BY <3>1
    <3> QED BY <2>2, <3>2
  <2>3. CASE n # 0
    <3>0. n \in Nat
      OBVIOUS
    <3>1. n - 1 \in Nat /\ n - 1 \notin Bad
      <4> HIDE DEF Bad
      <4> QED BY <2>1, <2>3, <3>0
    <3>2. PICK h : h = Turn(h, n - 1)
      <4> HIDE DEF Turn
      <4> QED BY <3>1
    <3> DEFINE k == Turn(h, n)
    <3>3. ASSUME NEW s \in Small(n), s # {}
          PROVE  s \ {Max(s)} \in Small(n - 1) /\ s \ {Max(s)} \in Small(n)
      <4>1. Max(s) \in s
        BY <3>3, LastTurn
      <4>2. Cardinality(s \ {Max(s)}) = Cardinality(s) - 1
        BY <1>0, <4>1, FS_RemoveElement
      <4>3. s \ {Max(s)} \in SUBSET S /\ Cardinality(s) \in Nat /\ Cardinality(s) <= n
        BY <1>0
      <4> QED BY <3>0, <4>2, <4>3
    <3>4. ASSUME NEW s \in Small(n - 1)
          PROVE  k[s] = h[s]
      <4>1. s \in Small(n)
        BY <1>0
      <4>2. h[s] = IF s = {} THEN NoWalk ELSE WalkBar(seen, h[s \ {Max(s)}], f[Max(s)])
        BY <3>2
      <4> QED BY <4>1, <4>2
    <3>5. ASSUME NEW s \in Small(n)
          PROVE  k[s] = IF s = {} THEN NoWalk ELSE WalkBar(seen, k[s \ {Max(s)}], f[Max(s)])
      BY <3>3, <3>4, <3>5
    <3>6. k = Turn(k, n)
      BY <3>5
    <3> QED BY <3>6
  <2> QED BY <2>2, <2>3
<1>2. PICK g : g = Turn(g, Cardinality(S))
  BY <1>1, <1>0
<1>3. Small(Cardinality(S)) = SUBSET S
  BY <1>0
<1>4. Turns(g, seen, f, S)
  BY <1>2, <1>3 DEF Turns
<1> QED BY <1>4

\* So many bars are expected, and none of an empty range.
LEMMA ExpectedIs ==
  ASSUME NEW from \in Nat, NEW to \in Nat
  PROVE  Expected(from, to) \in Nat /\ Expected(from, to) = Cardinality(from..to)
         /\ (from <= to => Expected(from, to) = to - from + 1)
         /\ (to < from => Expected(from, to) = 0)
<1> DEFINE x == to - from + 1
<1>1. x \in Int
  OBVIOUS
<1>2. Cardinality(from..to) = IF from > to THEN 0 ELSE x
  BY FS_Interval
<1> HIDE DEF x
<1>3. CASE x \in Nat
  <2>1. {0, x} \in SUBSET (0..x) /\ {0, x} # {}
    BY <1>3
  <2>2. Max({0, x}) \in {0, x} /\ Max({0, x}) >= x
    BY <1>3, <2>1, MaxIs
  <2>3. Expected(from, to) = x
    BY <1>3, <2>2 DEF Expected, x
  <2> QED BY <1>2, <1>3, <2>3 DEF x
<1>4. CASE x \notin Nat
  <2>1. \E m \in {0, x} : \A k \in {0, x} : m >= k
    BY <1>1, <1>4
  <2>2. Max({0, x}) \in {0, x} /\ \A k \in {0, x} : Max({0, x}) >= k
    BY <2>1 DEF Max
  <2>3. Max({0, x}) = 0
    BY <1>1, <1>4, <2>2
  <2>4. Expected(from, to) = 0
    BY <2>3 DEF Expected, x
  <2> QED BY <1>2, <1>4, <2>4 DEF x
<1> QED BY <1>3, <1>4

\* The walk is one of them, at all its turns.
LEMMA WalkIs ==
  ASSUME NEW seen, NEW from \in Nat, NEW to \in Nat
  PROVE  LET n == Expected(from, to)
             f == [i \in 1..n |-> from + i - 1]
         IN  \E g : Turns(g, seen, f, 1..n) /\ Walk(seen, from, to) = g[1..n]
<1> DEFINE n == Expected(from, to)
           f == [i \in 1..n |-> from + i - 1]
           g == CHOOSE g : Turns(g, seen, f, 1..n)
<1>1. n \in Nat
  BY ExpectedIs
<1>2. DOMAIN f = 1..n
  OBVIOUS
<1>3. Turns(g, seen, f, 1..n)
  <2> HIDE DEF f, n
  <2> QED BY <1>1, TurnsExist
<1>4. Walk(seen, from, to) = g[1..n]
  BY DEF Walk, FoldLeft, MapThenFoldSet, Turns, NoWalk
<1> QED BY <1>3, <1>4

\* What the walk w has seen of the first k bars: its ranges, with the one that is open, are
\* the bars that are missing, in order and as long as they can be.
OpenRange(w) == IF w.start = NoBar THEN {} ELSE w.start..w.prev
Walked(w, stored, from, k) ==
  /\ w \in [ranges : Seq(Nat \X Nat), start : Nat, prev : Nat]
  /\ Spaced(w.ranges)
  /\ Cover(w.ranges) \cup OpenRange(w) = (from..(from + k - 1)) \ stored
  /\ w.start = NoBar => EndBefore(w.ranges, from + k)
  /\ w.start # NoBar => /\ from <= w.start /\ w.start <= w.prev /\ w.prev = from + k - 1
                        /\ EndBefore(w.ranges, w.start)

\* A turn of the walk.
LEMMA WalkTurn ==
  ASSUME NEW stored, NEW from \in Nat \ {0}, NEW k \in Nat, NEW w, Walked(w, stored, from, k),
         NEW seen, (from + k) \in seen <=> (from + k) \in stored
  PROVE  Walked(WalkBar(seen, w, from + k), stored, from, k + 1)
<1> DEFINE bar == from + k
           v == WalkBar(seen, w, bar)
           Q == Append(w.ranges, <<w.start, w.prev>>)
<1>0. /\ w \in [ranges : Seq(Nat \X Nat), start : Nat, prev : Nat]
      /\ w.ranges \in Seq(Nat \X Nat) /\ w.start \in Nat /\ w.prev \in Nat /\ Spaced(w.ranges)
      /\ Cover(w.ranges) \cup OpenRange(w) = (from..(from + k - 1)) \ stored
      /\ w.start = NoBar => EndBefore(w.ranges, from + k)
      /\ w.start # NoBar => /\ from <= w.start /\ w.start <= w.prev /\ w.prev = from + k - 1
                            /\ EndBefore(w.ranges, w.start)
  BY DEF Walked
<1>1. /\ bar \in Nat \ {0} /\ from + (k + 1) - 1 = bar /\ from + (k + 1) = bar + 1
      /\ from..bar = (from..(from + k - 1)) \cup {bar} /\ bar \notin from..(from + k - 1)
  OBVIOUS
<1>2. CASE bar \notin seen
  <2> DEFINE start == IF w.start = NoBar THEN bar ELSE w.start
  <2>1. v = [w EXCEPT !.start = start, !.prev = bar]
    BY <1>2 DEF WalkBar
  <2>2. v \in [ranges : Seq(Nat \X Nat), start : Nat, prev : Nat]
        /\ v.ranges = w.ranges /\ v.start = start /\ v.prev = bar
    BY <1>0, <1>1, <2>1
  <2>3. start # NoBar /\ from <= start /\ start <= bar /\ start \in Nat
    BY <1>0, <1>1 DEF NoBar
  <2>4. EndBefore(w.ranges, start)
    BY <1>0
  <2>5. start..bar = OpenRange(w) \cup {bar}
    <3>1. CASE w.start = NoBar
      BY <1>1, <3>1 DEF OpenRange
    <3>2. CASE w.start # NoBar
      <4>1. w.prev = bar - 1 /\ w.start <= w.prev
        BY <1>0, <1>1, <3>2
      <4>2. w.start..bar = (w.start..(bar - 1)) \cup {bar}
        BY <1>0, <1>1, <4>1
      <4> QED BY <3>2, <4>1, <4>2 DEF OpenRange
    <3> QED BY <3>1, <3>2
  <2>6. (from..bar) \ stored = ((from..(from + k - 1)) \ stored) \cup {bar}
    BY <1>1, <1>2
  <2> HIDE DEF bar, v, start
  <2>7. OpenRange(v) = start..bar
    BY <2>2, <2>3 DEF OpenRange
  <2>8. Cover(v.ranges) \cup OpenRange(v) = (from..(from + (k + 1) - 1)) \ stored
    BY <1>0, <1>1, <2>2, <2>5, <2>6, <2>7
  <2> QED BY <1>0, <1>1, <2>2, <2>3, <2>4, <2>8 DEF Walked, v, bar
<1>3. CASE bar \in seen /\ w.start # NoBar
  <2>1. v = [ranges |-> Q, start |-> NoBar, prev |-> NoBar]
    BY <1>3 DEF WalkBar
  <2>2. /\ Q \in Seq(Nat \X Nat) /\ Spaced(Q) /\ EndBefore(Q, w.prev + 2)
        /\ Cover(Q) = Cover(w.ranges) \cup (w.start..w.prev)
    BY <1>0, <1>3, AppendRange
  <2> HIDE DEF Q
  <2>3. v \in [ranges : Seq(Nat \X Nat), start : Nat, prev : Nat] /\ v.ranges = Q /\ v.start = NoBar
    BY <2>1, <2>2 DEF NoBar
  <2>4. w.prev + 2 = from + (k + 1)
    BY <1>0, <1>1, <1>3
  <2>5. (from..bar) \ stored = (from..(from + k - 1)) \ stored
    BY <1>1, <1>3
  <2>6. OpenRange(w) = w.start..w.prev /\ OpenRange(v) = {}
    BY <1>3, <2>3 DEF OpenRange
  <2> HIDE DEF bar, v
  <2>7. Cover(v.ranges) \cup OpenRange(v) = (from..(from + (k + 1) - 1)) \ stored
    BY <1>0, <1>1, <2>2, <2>3, <2>5, <2>6
  <2> QED BY <2>2, <2>3, <2>4, <2>7 DEF Walked, v, bar
<1>4. CASE bar \in seen /\ w.start = NoBar
  <2>1. v = w
    BY <1>4 DEF WalkBar
  <2>2. (from..bar) \ stored = (from..(from + k - 1)) \ stored
    BY <1>1, <1>4
  <2>3. EndBefore(w.ranges, from + (k + 1))
    <3>1. \A i \in DOMAIN w.ranges : w.ranges[i][2] \in Nat
      BY <1>0
    <3> QED BY <1>0, <1>4, <3>1 DEF EndBefore
  <2> HIDE DEF bar, v
  <2> QED BY <1>0, <1>1, <1>4, <2>1, <2>2, <2>3 DEF Walked, v, bar
<1> QED BY <1>2, <1>3, <1>4

\* And so all its turns.
LEMMA WalkEnds ==
  ASSUME NEW stored, NEW from \in Nat \ {0}, NEW to \in Nat
  PROVE  Walked(Walk(Seen(stored, from, to), from, to), stored, from, Expected(from, to))
<1> DEFINE seen == Seen(stored, from, to)
           n == Expected(from, to)
           f == [i \in 1..n |-> from + i - 1]
<1>1. n \in Nat /\ (from <= to => n = to - from + 1) /\ (to < from => n = 0)
  BY ExpectedIs
<1>2. PICK g : Turns(g, seen, f, 1..n) /\ Walk(seen, from, to) = g[1..n]
  BY WalkIs
<1> DEFINE Good(k) == Walked(g[1..k], stored, from, k)
           Bad == {k \in Nat : k <= n /\ ~ Good(k)}
<1>3. SUFFICES ASSUME ~ Good(n) PROVE FALSE
  BY <1>2
<1>4. PICK k \in Bad : \A m \in Bad : k <= m
  <2>1. n \in Bad
    BY <1>1, <1>3
  <2> HIDE DEF Bad
  <2>2. Bad \in SUBSET Nat
    BY DEF Bad
  <2> QED BY <2>1, <2>2, LeastNatural
<1>5. k \in Nat /\ k <= n /\ ~ Good(k)
  BY <1>4
<1> HIDE DEF n
<1>6. k # 0
  <2>1. 1..0 = {} /\ {} \in SUBSET (1..n)
    OBVIOUS
  <2>2. g[1..0] = NoWalk
    BY <1>2, <2>1 DEF Turns
  <2>3. NoWalk \in [ranges : Seq(Nat \X Nat), start : Nat, prev : Nat] /\ NoWalk.start = NoBar
        /\ NoWalk.ranges = <<>> /\ DOMAIN <<>> = {} /\ Len(<<>>) = 0
    BY DEF NoWalk, NoBar
  <2>4. Spaced(<<>>) /\ Cover(<<>>) = {} /\ EndBefore(<<>>, from + 0)
    BY <2>3 DEF Spaced, Cover, EndBefore
  <2>5. from..(from + 0 - 1) = {}
    OBVIOUS
  <2>6. Walked(NoWalk, stored, from, 0)
    BY <2>3, <2>4, <2>5 DEF Walked, OpenRange
  <2> QED BY <1>5, <2>2, <2>6
<1>7. k - 1 \in Nat /\ k - 1 <= n /\ (k - 1) + 1 = k
  BY <1>1, <1>5, <1>6
<1>8. Good(k - 1)
  <2> HIDE DEF Good
  <2>1. k - 1 \notin Bad
    <3>1. ~ (k <= k - 1)
      BY <1>5
    <3> HIDE DEF Bad
    <3> QED BY <1>4, <3>1
  <2> QED BY <1>7, <2>1
<1>9. g[1..k] = WalkBar(seen, g[1..(k - 1)], from + (k - 1))
  <2>1. 1..k \in SUBSET (1..n) /\ 1..k # {} /\ k \in 1..k
    BY <1>1, <1>5, <1>6
  <2>2. Max(1..k) = k
    <3>1. 1..k \in SUBSET (0..k)
      OBVIOUS
    <3>2. Max(1..k) \in 1..k /\ Max(1..k) >= k
      BY <1>5, <2>1, <3>1, MaxIs
    <3> QED BY <1>5, <3>2
  <2>3. (1..k) \ {k} = 1..(k - 1)
    BY <1>5, <1>6
  <2>4. f[k] = from + (k - 1)
    BY <1>1, <1>5, <1>6
  <2> HIDE DEF f
  <2> QED BY <1>2, <2>1, <2>2, <2>3, <2>4 DEF Turns
<1>10. (from + (k - 1)) \in seen <=> (from + (k - 1)) \in stored
  <2>1. from + (k - 1) \in from..to
    BY <1>1, <1>5, <1>6, <1>7
  <2> QED BY <2>1 DEF Seen
<1>11. Good(k)
  <2>1. Walked(WalkBar(seen, g[1..(k - 1)], from + (k - 1)), stored, from, (k - 1) + 1)
    <3> HIDE DEF seen
    <3> QED BY <1>7, <1>8, <1>10, WalkTurn
  <2> QED BY <1>7, <1>9, <2>1
<1> QED BY <1>5, <1>11

\* The ranges that a scan reports are the gaps, in order, each as long as it can be, and the
\* counts of the API and of the ingestor are theirs.
LEMMA ScanIsExact ==
  ASSUME NEW stored, NEW from \in Nat \ {0}, NEW to \in Nat
  PROVE  ExactScan(stored, from, to)
<1> DEFINE n == Expected(from, to)
           w == Walk(Seen(stored, from, to), from, to)
           R == Ranges(w)
           missing == (from..to) \ stored
<1>1. Walked(w, stored, from, n)
  BY WalkEnds
<1>2. /\ n \in Nat /\ n = Cardinality(from..to) /\ (from <= to => n = to - from + 1)
      /\ (to < from => n = 0)
  BY ExpectedIs
<1>3. from..(from + n - 1) = from..to
  <2>1. CASE from <= to
    BY <1>2, <2>1
  <2>2. CASE to < from
    <3>1. from + n - 1 = from - 1
      BY <1>2, <2>2
    <3> QED BY <2>2, <3>1
  <2> QED BY <2>1, <2>2
<1> HIDE DEF n, w
<1>4. R \in Seq(Nat \X Nat) /\ Spaced(R) /\ Cover(R) = missing
  <2>0. /\ w.ranges \in Seq(Nat \X Nat) /\ w.start \in Nat /\ w.prev \in Nat /\ Spaced(w.ranges)
        /\ Cover(w.ranges) \cup OpenRange(w) = missing
        /\ w.start # NoBar => w.start <= w.prev /\ EndBefore(w.ranges, w.start)
    BY <1>1, <1>3 DEF Walked
  <2>1. CASE w.start = NoBar
    BY <2>0, <2>1 DEF Ranges, OpenRange
  <2>2. CASE w.start # NoBar
    <3>1. R = Append(w.ranges, <<w.start, w.prev>>) /\ OpenRange(w) = w.start..w.prev
      BY <2>2 DEF Ranges, OpenRange
    <3> DEFINE A == Append(w.ranges, <<w.start, w.prev>>)
    <3>2. /\ A \in Seq(Nat \X Nat) /\ Spaced(A)
          /\ Cover(A) = Cover(w.ranges) \cup (w.start..w.prev)
      BY <2>0, <2>2, AppendRange
    <3> HIDE DEF R, missing, A
    <3>3. R = A
      BY <3>1 DEF A
    <3> QED BY <2>0, <3>1, <3>2, <3>3
  <2> QED BY <2>1, <2>2
<1>5. /\ IsFiniteSet(from..to) /\ Seen(stored, from, to) = (from..to) \cap stored
      /\ Cardinality(missing) \in Nat
      /\ Cardinality(missing) = n - Cardinality(Seen(stored, from, to))
  <2>1. IsFiniteSet(from..to)
    BY FS_Interval
  <2>2. Seen(stored, from, to) = (from..to) \cap stored
    BY DEF Seen
  <2> DEFINE S == from..to
  <2> HIDE DEF S
  <2>3. IsFiniteSet(S) /\ n = Cardinality(S) /\ Seen(stored, from, to) = S \cap stored
        /\ missing = S \ stored
    BY <1>2, <2>1, <2>2 DEF S
  <2> HIDE DEF missing
  <2>4. /\ IsFiniteSet(S \ stored)
        /\ Cardinality(S \ stored) = Cardinality(S) - Cardinality(S \cap stored)
    BY <2>3, FS_Difference
  <2>5. Cardinality(missing) \in Nat
    BY <2>3, <2>4, FS_CardinalityType
  <2> QED BY <2>1, <2>2, <2>3, <2>4, <2>5
<1>6. Max({0, Cardinality(missing)}) = Cardinality(missing)
  <2> DEFINE c == Cardinality(missing)
  <2>1. c \in Nat
    BY <1>5
  <2> HIDE DEF c
  <2>2. {0, c} \in SUBSET (0..c) /\ {0, c} # {}
    BY <2>1
  <2>3. Max({0, c}) \in {0, c} /\ Max({0, c}) >= c
    BY <2>1, <2>2, MaxIs
  <2>4. Max({0, c}) = c
    BY <2>1, <2>3
  <2> QED BY <2>4 DEF c
<1>7. MissingBars(stored, from, to) = Cardinality(missing)
  BY <1>5, <1>6 DEF MissingBars, n
<1>8. /\ ScanCoverage(stored, from, to).missingRanges = R
      /\ ScanCoverage(stored, from, to).missingBars = Cardinality(missing)
  BY <1>5, <1>6 DEF ScanCoverage, n, w
<1> HIDE DEF R
<1>9. UNION {R[i][1]..R[i][2] : i \in DOMAIN R} = missing
  BY <1>4 DEF Cover
<1> HIDE DEF missing
<1> QED BY <1>4, <1>7, <1>8, <1>9 DEF ExactScan, Spaced, missing

\* Every scan of the candles reports exactly their gaps, for any bars, ranges and page sizes
\* (gapScanner.ts:55-85, bybit.py:332-340).
THEOREM GapsAreFound == MCSpec => []ScansAreExact
<1>1. ScansAreExact
  <2>1. MaxBar \in Nat
    BY MarketAssumption
  <2> QED BY <2>1, ScanIsExact DEF ScansAreExact, GapsAreExact, Bars
<1> QED BY <1>1, PTL
=============================================================================
