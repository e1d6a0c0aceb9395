------------------------------ MODULE RiskState ------------------------------
(***************************************************************************)
(* The circuit breakers of risk/index.ts: what an owner's closed positions *)
(* say, and the risk columns of agent_owner_settings they trip.  A return  *)
(* is a whole number of hundredths.                                        *)
(***************************************************************************)
EXTENDS Integers, SequencesExt, FiniteSetsExt

CONSTANTS HaltDrawdown,  \* riskHaltDrawdownPct
          HaltLosses,    \* riskHaltConsecutiveLosses
          AverseCvar,    \* riskAverseCvarPct
          AverseLosses,  \* riskAverseConsecutiveLosses
          Window,        \* rows that refreshRiskState reads
          TailPart           \* one over the alpha of its CVaR

ASSUME BreakersAssumption ==
  {HaltDrawdown, HaltLosses, AverseCvar, AverseLosses, Window, TailPart} \subseteq Nat \ {0}

VARIABLES risk,   \* risk_state, and its cooldown: "none", "running" or "over"
          closed  \* realized_return of the closed positions, first closed first

riskVars == <<risk, closed>>

States == {"normal", "risk_averse", "halted"}
Normal == [state |-> "normal", cooldown |-> "none"]

Rank(state) == IF state = "halted" THEN 2 ELSE IF state = "risk_averse" THEN 1 ELSE 0

\* The rows come last closed first; the code puts them in the order of closing.
Recent(returns) == SubSeq(returns, Len(returns) - Min({Window, Len(returns)}) + 1, Len(returns))

\* Mutation: a gain does not end the streak.
ConsecutiveTotal(returns) == Cardinality({i \in DOMAIN returns : returns[i] < 0})

\* Losses at the end of the list, with no other return between them.
Consecutive(returns) ==
  Max({n \in 0..Len(returns) : \A i \in Len(returns) - n + 1 .. Len(returns) : returns[i] < 0})

WorstDrawdown(returns) == -Min({0} \cup ToSet(returns))

\* The sum of the tail: of so many of n returns, the sum of the worst.
TailSize(returns) == Max({1, Len(returns) \div TailPart})
TailSum(returns) ==
  IF returns = <<>> THEN 0
  ELSE Min({MapThenSumSet(LAMBDA i : returns[i], tail) :
              tail \in kSubset(TailSize(returns), DOMAIN returns)})

\* evaluateBreakers.
Verdict(returns) ==
  IF \/ WorstDrawdown(returns) >= HaltDrawdown
     \/ Consecutive(returns) >= HaltLosses THEN "halted"
  ELSE IF \/ TailSum(returns) <= -(AverseCvar * TailSize(returns))
          \/ Consecutive(returns) >= AverseLosses THEN "risk_averse"
  ELSE "normal"

\* getRiskState: a cooldown that is over is cleared by a second statement.
Expired == risk.state # "normal" /\ risk.cooldown = "over"
ClearRisk == risk' = Normal /\ UNCHANGED closed

\* setRiskState: "normal" has no cooldown, and no seconds are no cooldown.
SetRisk(state, timed) ==
  /\ risk' = [state |-> state,
              cooldown |-> IF state # "normal" /\ timed THEN "running" ELSE "none"]
  /\ UNCHANGED closed

CooldownPasses ==
  /\ risk.cooldown = "running"
  /\ risk' = [risk EXCEPT !.cooldown = "over"]
  /\ UNCHANGED closed

\* markClosed of a position with this return.
Close(return) == closed' = Append(closed, return) /\ UNCHANGED risk
=============================================================================
