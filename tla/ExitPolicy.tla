----------------------------- MODULE ExitPolicy -----------------------------
(***************************************************************************)
(* evaluateExit (positions/exitPolicy.ts): what a managed position does at *)
(* a mark.  Prices are percents of the entry price and fractions are       *)
(* percents, so a level such as entry * (1 - 0.05) or high_water *         *)
(* (1 - trail_pct) is an integer in hundredths of a percent.  low_water,   *)
(* the unrealized return and the wording of the reason decide nothing and  *)
(* are left out.                                                           *)
(***************************************************************************)
EXTENDS Integers, Sequences, FiniteSetsExt

Sides == {"long", "short"}
Tier == [target : Nat \ {0}, reduce : 1..100]
Trailing == [on : BOOLEAN, activate : Nat, dist : Nat \ {0}, ratchet : BOOLEAN]

\* stop: distance of the stop-loss.  timed: it has a time_exit.  maxLoss: 0 for none.
IsPolicy(p) ==
  /\ p.side \in Sides
  /\ {p.stop, p.maxLoss} \subseteq Nat
  /\ p.ladder \in Seq(Tier)
  /\ p.trail \in Trailing
  /\ p.timed \in BOOLEAN

Reduced(p, tiers) == MapThenSumSet(LAMBDA k : p.ladder[k].reduce, tiers)

\* validateExitPolicy: a strictly ascending ladder that sells at most everything,
\* and a stop below the whole entry.
ValidPolicy(p) ==
  /\ \A k \in 2..Len(p.ladder) : p.ladder[k - 1].target < p.ladder[k].target
  /\ Reduced(p, DOMAIN p.ladder) <= 100
  /\ p.stop < 100

Entry == 100

\* The level a gain of pct percent of the entry is at.
Level(p, pct) == IF p.side = "long" THEN 100 * (100 + pct) ELSE 100 * (100 - pct)

Gain(p, price) == IF p.side = "long" THEN price - Entry ELSE Entry - price

\* The level dist percent behind a price.
Behind(p, price, dist) ==
  IF p.side = "long" THEN price * (100 - dist) ELSE price * (100 + dist)

\* Is the mark at or beyond a stop, has it reached a target level?
StopHit(p, mark, stop) == IF p.side = "long" THEN 100 * mark <= stop ELSE 100 * mark >= stop
TargetHit(p, mark, level) == IF p.side = "long" THEN 100 * mark >= level ELSE 100 * mark <= level

\* A stop only moves in the protective direction: up for a long, down for a short.
AtLeastAsTight(p, a, b) == IF p.side = "long" THEN a >= b ELSE a <= b
Tighten(p, current, candidate) ==
  IF AtLeastAsTight(p, current, candidate) THEN current ELSE candidate

BaseStop(p) == Level(p, -p.stop)

InitRuntime(p) == [peak |-> Entry, cleared |-> {}, stop |-> BaseStop(p)]

\* The best price so far, for a side.
Peak(p, a, b) == IF p.side = "long" THEN Max({a, b}) ELSE Min({a, b})

\* What a cleared tier locks in: breakeven, or the target of the tier before it.
LockLevel(p, k) == Level(p, IF k > 1 THEN p.ladder[k - 1].target ELSE 0)

\* Mutation: the lock of a tier replaces the stop instead of tightening it.
LockedLoosely(p, cleared, stop) ==
  IF cleared = {} THEN stop ELSE LockLevel(p, Max(cleared))

Locked(p, cleared, stop) ==
  IF cleared = {} THEN stop ELSE Tighten(p, stop, LockLevel(p, Max(cleared)))

Trailed(p, peak, stop) ==
  LET trail == Behind(p, peak, p.trail.dist)
  IN  IF ~p.trail.on \/ Gain(p, peak) < p.trail.activate THEN stop
      ELSE IF p.trail.ratchet THEN Tighten(p, stop, trail) ELSE trail

\* The runtime after the mark: the best price, and the ratcheted, trailing stop.
Advanced(p, rt, mark) ==
  LET peak == Peak(p, rt.peak, mark)
  IN  [peak |-> peak, cleared |-> rt.cleared,
       stop |-> Trailed(p, peak, Locked(p, rt.cleared, rt.stop))]

\* The protective exits: the stop, the loss cap, the time exit.
MustClose(p, adv, mark, late) ==
  \/ StopHit(p, mark, adv.stop)
  \/ p.maxLoss > 0 /\ Gain(p, mark) <= -p.maxLoss
  \/ p.timed /\ late

\* The tiers not yet cleared whose target the mark has reached; the highest one fires.
Due(p, rt, mark) ==
  {k \in DOMAIN p.ladder \ rt.cleared : TargetHit(p, mark, Level(p, p.ladder[k].target))}

\* A tier that is the last one, or completes the sale, closes the position.
IsFinal(p, k, cleared) == k = Len(p.ladder) \/ Reduced(p, cleared) >= 100

\* Mutation: a fired tier is not recorded.
TierTakenUnrecorded(p, adv, k) ==
  [peak |-> adv.peak, cleared |-> adv.cleared, stop |-> Locked(p, {k}, adv.stop)]

\* Mutation: the stop is not raised when the tier clears.
TierTakenUnlocked(p, adv, k) ==
  [peak |-> adv.peak, cleared |-> adv.cleared \cup {k}, stop |-> adv.stop]

TierTaken(p, adv, k) ==
  [peak |-> adv.peak, cleared |-> adv.cleared \cup {k}, stop |-> Locked(p, {k}, adv.stop)]

EvaluateExit(p, rt, mark, late) ==
  LET adv == Advanced(p, rt, mark)
      due == Due(p, rt, mark)
      next == TierTaken(p, adv, Max(due))
  IN  IF MustClose(p, adv, mark, late) THEN [action |-> "close", rt |-> adv, tier |-> 0]
      ELSE IF due = {} THEN [action |-> "hold", rt |-> adv, tier |-> 0]
      ELSE [action |-> IF IsFinal(p, Max(due), next.cleared) THEN "close" ELSE "reduce",
            rt |-> next, tier |-> Max(due)]
=============================================================================
