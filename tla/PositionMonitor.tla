--------------------------- MODULE PositionMonitor ---------------------------
(***************************************************************************)
(* One managed position and the monitor that watches it: the ticks of      *)
(* positions/monitor.ts (a mark of the feed, the periodic sweep, the tick  *)
(* endpoint), the row of agent_position_intents that positions/store.ts    *)
(* keeps, and the manual close of server.ts.  A tick reads the row, waits, *)
(* evaluates what it read and writes, so ticks interleave at every await.  *)
(* The Lab and its live-paper session are external.                        *)
(***************************************************************************)
EXTENDS ExitPolicy

CONSTANTS Policies,   \* exit policies a position may be opened with
          Marks,      \* prices the feed may report
          Feeds,      \* slots for ticks of the feed and the endpoint
          Sweeps,     \* slots for sweeps: setInterval does not wait for the last one
          Overlap,    \* may a tick start while another one is in flight?
          MaxReduces, \* bound: "reduce" events of one tier that are counted
          MaxErrors,  \* bound: exits that fail, settings and events that are not read or written
          MaxCrashes  \* bound: crashes of the agent, and releases that are lost

ASSUME PoliciesAssumption == \A p \in Policies : IsPolicy(p) /\ ValidPolicy(p)
ASSUME MonitorAssumption ==
  /\ Marks \subseteq Nat
  /\ Feeds \cap Sweeps = {}
  /\ Overlap \in BOOLEAN
  /\ MaxReduces \in Nat \ {0}
  /\ MaxErrors \in Nat /\ MaxCrashes \in Nat

VARIABLES policy,   \* exit_policy and side, bound at entry
          session,  \* the Lab's session: running, or stopped
          state,    \* state of the intent
          runtime,  \* runtime
          lastMark, \* last_mark
          enabled,  \* the owner's agent_enabled
          late,     \* has max_hold_seconds passed since it was opened?
          pc,       \* where a tick is
          snap,     \* the runtime it read, its mark and whether it finds it late
          manual,   \* manual close: not asked for, running, done
          reduces,  \* "reduce" events recorded for each tier
          errors, crashes

rowVars == <<policy, state, runtime, lastMark>>
worldVars == <<session, enabled, late>>
faultVars == <<errors, crashes>>
vars == <<policy, session, state, runtime, lastMark, enabled, late, pc, snap, manual,
          reduces, errors, crashes>>

Ticks == Feeds \cup Sweeps
Exiting == {"exiting", "stopping"}
Busy == {"settings", "evaluate", "reduced", "recording"} \cup Exiting

\* A tick that is not in flight has read nothing: what a new row would say.
NothingRead == [rt |-> InitRuntime(policy), mark |-> Entry, late |-> FALSE]

\* openIntent: the row is bound when the session exists.
Init ==
  /\ policy \in Policies
  /\ session = "running"
  /\ state = "open"
  /\ runtime = InitRuntime(policy)
  /\ lastMark = Entry
  /\ enabled = TRUE
  /\ late = FALSE
  /\ pc = [t \in Ticks |-> "idle"]
  /\ snap = [t \in Ticks |-> NothingRead]
  /\ manual = "none"
  /\ reduces = [k \in DOMAIN policy.ladder |-> 0]
  /\ errors = 0 /\ crashes = 0

\* A tick goes on with what it read, or ends and forgets it.
Goto(t, where) == pc' = [pc EXCEPT ![t] = where] /\ UNCHANGED snap
End(t) == pc' = [pc EXCEPT ![t] = "idle"] /\ snap' = [snap EXCEPT ![t] = NothingRead]

\* A tick reads the row; it will evaluate it with this mark, at this time.
Read(t, mark, isLate, where) ==
  /\ pc' = [pc EXCEPT ![t] = where]
  /\ snap' = [snap EXCEPT ![t] = [rt |-> runtime, mark |-> mark, late |-> isLate]]

MayStart(t) ==
  /\ pc[t] = "idle"
  /\ Overlap \/ \A u \in Ticks : pc[u] = "idle"

\* onMark: the open positions of the symbol, at the time of the bar, which may be
\* before the deadline when the clock is past it.
ReadForMark(t, mark) ==
  /\ t \in Feeds /\ MayStart(t)
  /\ state = "open"
  /\ \E isLate \in {FALSE, late} : Read(t, mark, isLate, "settings")
  /\ UNCHANGED <<rowVars, worldVars, manual, reduces, faultVars>>

\* POST /positions/tick with an intent_id: in any state, without the settings.
ReadForEndpoint(t, mark) ==
  /\ t \in Feeds /\ MayStart(t)
  /\ Read(t, mark, late, "evaluate")
  /\ UNCHANGED <<rowVars, worldVars, manual, reduces, faultVars>>

\* sweepOpenPositions: the last known mark, without the settings.
ReadForSweep(t) ==
  /\ t \in Sweeps /\ MayStart(t)
  /\ state = "open"
  /\ Read(t, lastMark, late, "evaluate")
  /\ UNCHANGED <<rowVars, worldVars, manual, reduces, faultVars>>

\* onMark skips a disabled agent; settings it cannot read do not stop it.
CheckSettings(t) ==
  /\ pc[t] = "settings"
  /\ \/ enabled /\ Goto(t, "evaluate") /\ UNCHANGED errors
     \/ ~enabled /\ End(t) /\ UNCHANGED errors
     \/ errors < MaxErrors /\ errors' = errors + 1 /\ Goto(t, "evaluate")
  /\ UNCHANGED <<rowVars, worldVars, manual, reduces, crashes>>

Decision(t) == EvaluateExit(policy, snap[t].rt, snap[t].mark, snap[t].late)

\* updateRuntime: by id, in any state, with the runtime that follows what was read.
UpdateRuntime(t) == runtime' = Decision(t).rt /\ lastMark' = snap[t].mark

Hold(t) ==
  /\ pc[t] = "evaluate"
  /\ Decision(t).action = "hold"
  /\ UpdateRuntime(t)
  /\ End(t)
  /\ UNCHANGED <<policy, state, worldVars, manual, reduces, faultVars>>

\* A paper session cannot be reduced: the tier ratchets the stop.
Reduce(t) ==
  /\ pc[t] = "evaluate"
  /\ Decision(t).action = "reduce"
  /\ UpdateRuntime(t)
  /\ Goto(t, "reduced")
  /\ UNCHANGED <<policy, state, worldVars, manual, reduces, faultVars>>

RecordReduce(t) ==
  /\ pc[t] = "reduced"
  /\ \/ reduces' = [reduces EXCEPT ![Decision(t).tier] = Min({@ + 1, MaxReduces})] /\ UNCHANGED errors
     \/ errors < MaxErrors /\ errors' = errors + 1 /\ UNCHANGED reduces
  /\ End(t)
  /\ UNCHANGED <<rowVars, worldVars, manual, crashes>>

\* Mutation: the claim does not look at the state.
ClaimAnyway(t) ==
  /\ pc[t] = "evaluate"
  /\ Decision(t).action = "close"
  /\ state' = "closing"
  /\ Goto(t, "exiting")
  /\ UNCHANGED <<policy, runtime, lastMark, worldVars, manual, reduces, faultVars>>

\* claimForClosing: one tick wins an open position.
Claim(t) ==
  /\ pc[t] = "evaluate"
  /\ Decision(t).action = "close"
  /\ \/ state = "open" /\ state' = "closing" /\ Goto(t, "exiting")
     \/ state # "open" /\ End(t) /\ UNCHANGED state
  /\ UNCHANGED <<policy, runtime, lastMark, worldVars, manual, reduces, faultVars>>

\* The manage_position run stops the session.
StopSession(t) ==
  /\ pc[t] = "exiting"
  /\ session' = "stopped"
  /\ Goto(t, "stopping")
  /\ UNCHANGED <<rowVars, enabled, late, manual, reduces, faultVars>>

\* The run completed, or was blocked by what the tool reported: markClosed.
MarkClosed(t) ==
  /\ pc[t] = "stopping"
  /\ state' = "closed"
  /\ lastMark' = snap[t].mark
  /\ Goto(t, "recording")
  /\ UNCHANGED <<policy, runtime, worldVars, manual, reduces, faultVars>>

\* Mutation: a claim is released whatever became of the position.
ReleasedAnyway == "open"

\* releaseClaim reopens a position that is closing and no other.
Released == IF state = "closing" THEN "open" ELSE state

\* Mutation: an exit that failed leaves the claim.
ExitFailsClaimed(t) ==
  /\ pc[t] \in Exiting \cup {"recording"}
  /\ errors < MaxErrors
  /\ errors' = errors + 1
  /\ End(t)
  /\ UNCHANGED <<rowVars, worldVars, manual, reduces, crashes>>

\* Mutation: an exit that failed closes the position.
ExitFailsClosed(t) ==
  /\ pc[t] \in Exiting \cup {"recording"}
  /\ errors < MaxErrors
  /\ errors' = errors + 1
  /\ state' = "closed"
  /\ End(t)
  /\ UNCHANGED <<policy, runtime, lastMark, worldVars, manual, reduces, crashes>>

\* The exit failed, before or after the session was stopped, or the close event was
\* not written: the claim is released.
ExitFails(t) ==
  /\ pc[t] \in Exiting \cup {"recording"}
  /\ errors < MaxErrors
  /\ errors' = errors + 1
  /\ state' = Released
  /\ End(t)
  /\ UNCHANGED <<policy, runtime, lastMark, worldVars, manual, reduces, crashes>>

\* The close event, the episode and the risk state, which this module leaves out.
RecordClose(t) ==
  /\ pc[t] = "recording"
  /\ End(t)
  /\ UNCHANGED <<rowVars, worldVars, manual, reduces, faultVars>>

\* POST /positions/:id/close: the stop run, if the row is not closed, and nothing else.
ManualClose ==
  /\ manual = "none" /\ state # "closed"
  /\ manual' = "running"
  /\ UNCHANGED <<rowVars, worldVars, pc, snap, reduces, faultVars>>

ManualStop ==
  /\ manual = "running"
  /\ session' = "stopped"
  /\ manual' = "done"
  /\ UNCHANGED <<rowVars, enabled, late, pc, snap, reduces, faultVars>>

\* The agent's process dies with all its ticks, or one tick cannot release its claim.
Crash ==
  /\ crashes < MaxCrashes
  /\ crashes' = crashes + 1
  /\ \/ /\ pc' = [t \in Ticks |-> "idle"]
        /\ snap' = [t \in Ticks |-> NothingRead]
     \/ \E t \in Ticks : pc[t] \in Exiting /\ End(t)
  /\ manual' = IF manual = "running" THEN "none" ELSE manual
  /\ UNCHANGED <<rowVars, worldVars, reduces, errors>>

\* The owner switches the agent off, and time passes.
Disable ==
  /\ enabled /\ enabled' = FALSE
  /\ UNCHANGED <<rowVars, session, late, pc, snap, manual, reduces, faultVars>>

Deadline ==
  /\ policy.timed /\ ~late /\ late' = TRUE
  /\ UNCHANGED <<rowVars, session, enabled, pc, snap, manual, reduces, faultVars>>

Advance(t) ==
  \/ CheckSettings(t) \/ Hold(t) \/ Reduce(t) \/ RecordReduce(t) \/ Claim(t)
  \/ StopSession(t) \/ MarkClosed(t) \/ RecordClose(t)

Next ==
  \/ \E t \in Ticks :
       \/ \E mark \in Marks : ReadForMark(t, mark) \/ ReadForEndpoint(t, mark)
       \/ ReadForSweep(t) \/ Advance(t) \/ ExitFails(t)
  \/ ManualClose \/ ManualStop \/ Crash \/ Disable \/ Deadline

Spec == Init /\ [][Next]_vars

\* The sweep timer fires again and again, whatever marks come, and every await
\* resolves; marks may stop.
Fairness ==
  /\ WF_vars(ManualStop)
  /\ \A t \in Ticks : WF_vars(Advance(t))
  /\ \A t \in Sweeps : SF_vars(ReadForSweep(t))

FairSpec == Spec /\ Fairness

-----------------------------------------------------------------------------
(* What the monitor promises *)

Runtime ==
  [peak : Marks \cup {Entry}, cleared : SUBSET DOMAIN policy.ladder, stop : Int]

MonitorTypeOK ==
  /\ policy \in Policies
  /\ session \in {"running", "stopped"}
  /\ state \in {"open", "closing", "closed"}
  /\ runtime \in Runtime
  /\ lastMark \in Marks \cup {Entry}
  /\ {enabled, late} \subseteq BOOLEAN
  /\ pc \in [Ticks -> Busy \cup {"idle"}]
  /\ \A t \in Ticks : snap[t].rt \in Runtime /\ snap[t].mark \in Marks \cup {Entry}
  /\ manual \in {"none", "running", "done"}
  /\ reduces \in [DOMAIN policy.ladder -> 0..MaxReduces]
  /\ errors \in 0..MaxErrors /\ crashes \in 0..MaxCrashes

\* At most one tick exits the position at a time (monitor.ts:65), and while one does
\* the position is closing, so no other can begin.
OneExit ==
  \A t \in Ticks : pc[t] \in Exiting =>
    /\ state = "closing"
    /\ \A u \in Ticks \ {t} : pc[u] \notin Exiting

\* A position is closed only after its session was stopped, and stays closed: an exit
\* whose last writes fail does not reopen it (store.ts:116-119).
ClosedMeansStopped == state = "closed" => session = "stopped"
ClosedIsFinal == [][state = "closed" => state' = "closed"]_state

\* A position does not outlive its max_hold, even if no mark ever comes
\* (monitor.ts:138-140).
DeadlineCloses == late ~> state = "closed"
=============================================================================
