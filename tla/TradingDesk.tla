---------------------------- MODULE TradingDesk ----------------------------
(***************************************************************************)
(* The managed positions of an owner from entry to exit against the risk   *)
(* state that their exits trip: openManagedPosition of positions/open.ts   *)
(* with its route, the closing half of evaluateIntent of monitor.ts with   *)
(* refreshRiskState, the approval of an opening run that stopped, and the  *)
(* routes that set the risk state.  Positions overlap at every await, in   *)
(* one agent or several, with each other and with the triggers, which the  *)
(* risk state forces to shadow.  The Lab that runs the sessions is         *)
(* external; why a position closes is PositionMonitor's subject.           *)
(***************************************************************************)
EXTENDS Triggers

CONSTANTS Positions, \* entries the owner asks for
          Returns,   \* realized returns of positions
          MaxErrors, \* bound: statements and calls that fail
          MaxPosts   \* bound: POST /risk

ASSUME ReturnsAssumption == Returns \subseteq Int

VARIABLES pc,        \* where the entry or the exit of a position is
          session,   \* its live-paper session
          linked,    \* does its intent hold the session's id?
          read,      \* the returns its refresh read
          errors, approvals, posts

positionVars == <<pc, session, linked, read, errors, approvals, posts>>
deskVars == <<riskVars, triggerVars, positionVars>>

DeskInit ==
  /\ risk = Normal
  /\ closed = <<>>
  /\ pc = [p \in Positions |-> "none"]
  /\ session = [p \in Positions |-> "none"]
  /\ linked = [p \in Positions |-> FALSE]
  /\ read = [p \in Positions |-> <<>>]
  /\ errors = 0 /\ approvals = 0 /\ posts = 0
  /\ TriggersInit

Goto(p, where) == pc' = [pc EXCEPT ![p] = where]
Fails == errors < MaxErrors /\ errors' = errors + 1

\* POST /positions/open at L2 (below it the answer is a blocked run).
Request(p) ==
  /\ pc[p] = "none"
  /\ Goto(p, "gate")
  /\ UNCHANGED <<risk, closed, session, linked, read, errors, approvals, posts>>

\* Gate 1: the risk state is read, cleared when its cooldown is over, and tripped refuses.
Gate(p) ==
  /\ pc[p] = "gate"
  /\ Goto(p, IF Expired THEN "clear" ELSE IF risk.state = "normal" THEN "run" ELSE "refused")
  /\ UNCHANGED <<risk, closed, session, linked, read, errors, approvals, posts>>

Clear(p) ==
  /\ pc[p] = "clear"
  /\ ClearRisk
  /\ Goto(p, "run")
  /\ UNCHANGED <<session, linked, read, errors, approvals, posts>>

\* executePlan: the session is started and the run completes; the Lab refuses, or its
\* answer is lost; or the guardrails block the run.
Start(p) ==
  /\ pc[p] = "run"
  /\ \/ session' = [session EXCEPT ![p] = "running"] /\ Goto(p, "bind") /\ UNCHANGED errors
     \/ Goto(p, "blocked") /\ UNCHANGED <<session, errors>>
     \/ session' = [session EXCEPT ![p] = "running"] /\ Goto(p, "blocked") /\ Fails
  /\ UNCHANGED <<risk, closed, linked, read, approvals, posts>>

\* openIntent: the intent is inserted, without the session's id when the answer has
\* none; or the insert throws.  The budget event after it may fail unnoticed.
Bind(p) ==
  /\ pc[p] = "bind"
  /\ \/ linked' = [linked EXCEPT ![p] = TRUE] /\ Goto(p, "open") /\ UNCHANGED errors
     \/ Goto(p, "open") /\ Fails /\ UNCHANGED linked
     \/ Goto(p, "failed") /\ Fails /\ UNCHANGED linked
  /\ UNCHANGED <<risk, closed, session, read, approvals, posts>>

\* POST /runs/:id/approve takes up a run that stopped, with none of the gates and nothing
\* that binds an intent.
Approve(p) ==
  /\ pc[p] = "blocked"
  /\ session' = [session EXCEPT ![p] = "running"]
  /\ Goto(p, "approved")
  /\ approvals' = approvals + 1
  /\ UNCHANGED <<risk, closed, linked, read, errors, posts>>

\* A tick decides to close and wins the claim; without an id there is nothing to stop.
Claim(p) ==
  /\ pc[p] = "open"
  /\ Goto(p, IF linked[p] THEN "stop" ELSE "close")
  /\ UNCHANGED <<risk, closed, session, linked, read, errors, approvals, posts>>

\* Mutation: a run that failed closes the position all the same.
StopAnyway(p) ==
  /\ pc[p] = "stop"
  /\ \/ session' = [session EXCEPT ![p] = "stopped"] /\ Goto(p, "close") /\ UNCHANGED errors
     \/ Goto(p, "close") /\ UNCHANGED <<session, errors>>
  /\ UNCHANGED <<risk, closed, linked, read, approvals, posts>>

\* The manage_position run stops the session; or it fails, and the claim is released.
Stop(p) ==
  /\ pc[p] = "stop"
  /\ \/ session' = [session EXCEPT ![p] = "stopped"] /\ Goto(p, "close") /\ UNCHANGED errors
     \/ Goto(p, "open") /\ Fails /\ UNCHANGED session
  /\ UNCHANGED <<risk, closed, linked, read, approvals, posts>>

\* markClosed, with the return of the mark; or it throws, and the claim is released.
MarkClosed(p) ==
  /\ pc[p] = "close"
  /\ \/ (\E return \in Returns : Close(return)) /\ Goto(p, "refresh") /\ UNCHANGED errors
     \/ Goto(p, "open") /\ Fails /\ UNCHANGED riskVars
  /\ UNCHANGED <<session, linked, read, approvals, posts>>

\* refreshRiskState reads the returns, then the risk state, which it may have to clear,
\* and writes its verdict when that ranks higher than what it read.
ReadReturns(p) ==
  /\ pc[p] = "refresh"
  /\ read' = [read EXCEPT ![p] = Recent(closed)]
  /\ Goto(p, "compare")
  /\ UNCHANGED <<risk, closed, session, linked, errors, approvals, posts>>

\* Where a refresh goes that found the owner in this state.
Against(p, state) == IF Rank(Verdict(read[p])) > Rank(state) THEN "trip" ELSE "done"

\* A refresh that is over has no use for what it read.
GotoFrom(p, where) ==
  /\ Goto(p, where)
  /\ read' = IF where = "done" THEN [read EXCEPT ![p] = <<>>] ELSE read

Compare(p) ==
  /\ pc[p] = "compare"
  /\ GotoFrom(p, IF Expired THEN "forgive" ELSE Against(p, risk.state))
  /\ UNCHANGED <<risk, closed, session, linked, errors, approvals, posts>>

\* Mutation: what was cleared is still what the verdict is compared with.
ForgiveStale(p) ==
  /\ pc[p] = "forgive"
  /\ ClearRisk
  /\ GotoFrom(p, Against(p, risk.state))
  /\ UNCHANGED <<session, linked, errors, approvals, posts>>

Forgive(p) ==
  /\ pc[p] = "forgive"
  /\ ClearRisk
  /\ GotoFrom(p, Against(p, "normal"))
  /\ UNCHANGED <<session, linked, errors, approvals, posts>>

Trip(p) ==
  /\ pc[p] = "trip"
  /\ SetRisk(Verdict(read[p]), TRUE)
  /\ GotoFrom(p, "done")
  /\ UNCHANGED <<session, linked, errors, approvals, posts>>

\* A refresh that throws is logged and forgotten; one is skipped when the close event
\* before it is not written.
RefreshFails(p) ==
  /\ pc[p] \in {"refresh", "compare", "forgive", "trip"}
  /\ Fails
  /\ GotoFrom(p, "done")
  /\ UNCHANGED <<risk, closed, session, linked, approvals, posts>>

\* POST /risk, with or without cooldown_seconds.
PostRisk ==
  /\ posts < MaxPosts
  /\ posts' = posts + 1
  /\ \E state \in States, timed \in BOOLEAN : SetRisk(state, timed)
  /\ UNCHANGED <<pc, session, linked, read, errors, approvals>>

Wait == CooldownPasses /\ UNCHANGED positionVars

Entry(p) == Request(p) \/ Gate(p) \/ Clear(p) \/ Start(p) \/ Bind(p) \/ Approve(p)
Exit(p) == \/ Claim(p) \/ Stop(p) \/ MarkClosed(p) \/ ReadReturns(p)
           \/ Compare(p) \/ Forgive(p) \/ Trip(p) \/ RefreshFails(p)

DeskNext ==
  \/ ((\E p \in Positions : Entry(p) \/ Exit(p)) \/ PostRisk \/ Wait) /\ UNCHANGED triggerVars
  \/ TriggersNext /\ UNCHANGED positionVars

DeskSpec == DeskInit /\ [][DeskNext]_deskVars

(***************************************************************************)
(* Properties                                                              *)
(***************************************************************************)

\* While the agent lives, a session runs unwatched (no intent will ever stop it, and no
\* entry is about to bind one) only where a call or a statement failed, or a stopped opening
\* run was approved (positions/open.ts:12-15): at most one for each.
Watched(p) == pc[p] = "bind" \/ (linked[p] /\ pc[p] \in {"open", "stop"})
UnwatchedCostsAFailure ==
  Cardinality({p \in Positions : session[p] = "running" /\ ~Watched(p)}) <= errors + approvals

\* What would trip the breakers to a state, said of a list of returns without the
\* code's loops: one loss too large, a stretch of losses, or a heavy tail.
Streak(returns, n) ==
  \E i \in 1..(Len(returns) - n + 1) : \A j \in i..(i + n - 1) : returns[j] < 0
Cause(returns, state) ==
  \/ \E i \in DOMAIN returns : -returns[i] >= HaltDrawdown
  \/ Streak(returns, HaltLosses)
  \/ state = "risk_averse" /\ (Streak(returns, AverseLosses)
                               \/ \E i \in DOMAIN returns : -returns[i] >= AverseCvar)

\* The owner is never held off trading without a cause among the closed positions, however
\* exits overlap, until they set the state themselves (risk/index.ts:39-54, 97-121).
TrippedForCause == risk.state # "normal" /\ posts = 0 => Cause(closed, risk.state)

\* A refresh that ends without an error leaves the owner halted when the last returns are
\* a streak of losses, or one loss among those it looks at is too large
\* (risk/index.ts:104-119): of exits in turn.
HeedsLosses(p) ==
  /\ pc[p] \in {"compare", "forgive", "trip"} /\ pc'[p] = "done" /\ errors' = errors
  /\ \/ \E i \in DOMAIN closed : i > Len(closed) - Window /\ -closed[i] >= HaltDrawdown
     \/ /\ HaltLosses <= Window /\ HaltLosses <= Len(closed)
        /\ \A i \in 0..HaltLosses - 1 : closed[Len(closed) - i] < 0
  => risk'.state = "halted"

\* "De-escalation is handled by cooldown expiry", and "Never auto-downgrade here"
\* (risk/index.ts:96, 114): no step but the owner's lowers the state before the cooldown
\* is over.
OnlyExpiryLowers ==
  [][Rank(risk'.state) < Rank(risk.state) => risk.cooldown = "over" \/ posts' # posts]_deskVars
=============================================================================
