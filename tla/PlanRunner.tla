----------------------------- MODULE PlanRunner -----------------------------
(***************************************************************************)
(* One run of a typed plan: executePlan (orchestrator/runner.ts) with the  *)
(* two endpoints of server.ts that decide an approval and resume the run.  *)
(* An execution is one launch or one HTTP request and the executePlan it   *)
(* starts; it advances from await to await, so executions of one run may   *)
(* interleave.  The Lab's tools are external: a call takes effect when it  *)
(* is made and its answer may be an error, a report with hard blocks, a    *)
(* coverage below the floor, an exception, or never come.                  *)
(***************************************************************************)
EXTENDS Guardrails

CONSTANTS Plans,         \* the plans a run may have
          Execs,         \* executions: launches and requests, each used once
          Overlap,       \* may the owner decide while an execution is in flight?
          MaxAborts      \* bound: executions that die between two awaits

ASSUME PlansAssumption == \A p \in Plans : IsPlan(p)
ASSUME RunnerAssumption ==
  /\ Overlap \in BOOLEAN
  /\ MaxAborts \in Nat

VARIABLES plan,      \* agent_runs.plan
          runStatus, \* agent_runs.status
          rows,      \* agent_run_steps: the states recorded for each step
          approvals, \* agent_approvals, in order of insertion
          pc,        \* where an execution is
          granted,   \* the steps its caller approved (opts.approvals)
          known,     \* the steps it takes for completed
          at,        \* the step it is at, or the approval row it decides
          stopAs,    \* the status it ends the run with
          calls,     \* how often the Lab was called for each step
          consent,   \* the steps the owner has approved so far
          aborts     \* executions that died so far

runVars == <<plan, runStatus, rows, approvals>>
execVars == <<pc, granted, known, at, stopAs>>
ghostVars == <<consent, aborts>>
vars == <<plan, runStatus, rows, approvals, pc, granted, known, at, stopAs,
          calls, consent, aborts>>

Steps == StepsOf(plan)
RowStates == {"awaiting_approval", "completed", "error"}
Stops == {"proposed", "blocked", "error", "completed"}
RunStates == {"none", "running"} \cup Stops
Verdicts == {"approved", "denied"}
InFlight == {"begin", "loop", "called", "pausing", "inserting", "stopping"}

Completed == {i \in Steps : "completed" \in rows[i]}
ApprovalsOf(i) == {r \in DOMAIN approvals : approvals[r].step = i}

Init ==
  /\ plan \in Plans
  /\ runStatus = "none"
  /\ rows = [i \in Steps |-> {}]
  /\ approvals = <<>>
  /\ pc = [e \in Execs |-> "new"]
  /\ granted = [e \in Execs |-> {}]
  /\ known = [e \in Execs |-> {}]
  /\ at = [e \in Execs |-> 0]
  /\ stopAs = [e \in Execs |-> "error"]
  /\ calls = [i \in Steps |-> 0]
  /\ consent = {}
  /\ aborts = 0

Goto(e, where) == pc' = [pc EXCEPT ![e] = where]

\* createRun and the first executePlan, with no approvals.
Launch(e) ==
  /\ pc[e] = "new"
  /\ runStatus = "none"
  /\ runStatus' = "running"
  /\ Goto(e, "begin")
  /\ UNCHANGED <<plan, rows, approvals, granted, known, at, stopAs, calls, ghostVars>>

\* A request finds the run, whatever its status.
MayRequest(e) ==
  /\ pc[e] = "new"
  /\ runStatus # "none"
  /\ Overlap \/ \A d \in Execs : pc[d] \notin InFlight \cup {"approve", "deny"}

Row(i, s) == [step |-> i, status |-> s]

Decided(r, verdict) == [approvals EXCEPT ![r] = Row(approvals[r].step, verdict)]

\* Mutation: the execution is resumed without the step it approved.
ResumeWithNothing(e, i) ==
  /\ Goto(e, "begin")
  /\ consent' = consent \cup {i}
  /\ UNCHANGED granted

\* Resume the run with one approved step.
ResumeWith(e, i) ==
  /\ Goto(e, "begin")
  /\ granted' = [granted EXCEPT ![e] = {i}]
  /\ consent' = consent \cup {i}

\* POST /approvals/:id reads the row and refuses one already decided.
ReadApproval(e, r) ==
  /\ MayRequest(e)
  /\ approvals[r].status = "pending"
  /\ at' = [at EXCEPT ![e] = r]
  /\ \E verdict \in {"approve", "deny"} : Goto(e, verdict)
  /\ UNCHANGED <<runVars, granted, known, stopAs, calls, ghostVars>>

\* It then updates the row by id, and an approval resumes the run.
Approve(e) ==
  /\ pc[e] = "approve"
  /\ approvals' = Decided(at[e], "approved")
  /\ ResumeWith(e, approvals[at[e]].step)
  /\ UNCHANGED <<plan, runStatus, rows, known, at, stopAs, calls, aborts>>

Deny(e) ==
  /\ pc[e] = "deny"
  /\ approvals' = Decided(at[e], "denied")
  /\ Goto(e, "ended")
  /\ UNCHANGED <<plan, runStatus, rows, granted, known, at, stopAs, calls, ghostVars>>

\* Every pending row of a step becomes approved.
ApprovedRows(i) ==
  [r \in DOMAIN approvals |->
     IF approvals[r] = Row(i, "pending") THEN Row(i, "approved") ELSE approvals[r]]

\* POST /runs/:id/approve: any step of any run; its pending rows become approved,
\* or stay as they are when the statement throws, and the run is resumed.
ApproveStep(e, i) ==
  /\ MayRequest(e)
  /\ \/ approvals' = ApprovedRows(i)
     \/ UNCHANGED approvals
  /\ ResumeWith(e, i)
  /\ UNCHANGED <<plan, runStatus, rows, known, at, stopAs, calls, aborts>>

\* Mutation: any row of a step marks it as done, a placeholder or an error too.
AnyRow == {i \in Steps : rows[i] # {}}

\* Mutation: a resumed run starts over.
NoneDone == {}

\* Only steps that actually completed are skipped on resume.
DoneBefore == Completed

\* L0 only proposes, a plan the guardrails refuse is blocked, and otherwise the
\* completed steps are read, once.
Begin(e) ==
  /\ pc[e] = "begin"
  /\ \/ /\ plan.level # "L0" /\ PlanOk(plan)
        /\ known' = [known EXCEPT ![e] = DoneBefore]
        /\ Goto(e, "loop")
        /\ UNCHANGED stopAs
     \/ /\ plan.level = "L0" \/ ~PlanOk(plan)
        /\ stopAs' = [stopAs EXCEPT ![e] = IF plan.level = "L0" THEN "proposed" ELSE "blocked"]
        /\ Goto(e, "stopping")
        /\ UNCHANGED known
  /\ UNCHANGED <<runVars, granted, at, calls, ghostVars>>

\* The next step of the loop is the first one not known to be completed.
NextStep(e, i) ==
  /\ i \in Steps \ known[e]
  /\ \A j \in Steps \ known[e] : i <= j

NeedsApproval(e, i) == Decision(plan, i) = "needs_approval" /\ i \notin granted[e]

\* A gated step without approval: its placeholder row, then its approval record.
Pause(e, i) ==
  /\ pc[e] = "loop"
  /\ NextStep(e, i)
  /\ NeedsApproval(e, i)
  /\ rows' = [rows EXCEPT ![i] = @ \cup {"awaiting_approval"}]
  /\ at' = [at EXCEPT ![e] = i]
  /\ Goto(e, "pausing")
  /\ UNCHANGED <<plan, runStatus, approvals, granted, known, stopAs, calls, ghostVars>>

\* INSERT ... WHERE NOT EXISTS reads a snapshot and inserts after it; a statement
\* that throws is swallowed.  The run is left open either way.
LookForApproval(e) ==
  /\ pc[e] = "pausing"
  /\ Goto(e, IF ApprovalsOf(at[e]) = {} THEN "inserting" ELSE "ended")
  /\ UNCHANGED <<runVars, granted, known, at, stopAs, calls, ghostVars>>

InsertApproval(e) ==
  /\ pc[e] = "inserting"
  /\ \/ approvals' = Append(approvals, Row(at[e], "pending"))
     \/ UNCHANGED approvals
  /\ Goto(e, "ended")
  /\ UNCHANGED <<plan, runStatus, rows, granted, known, at, stopAs, calls, ghostVars>>

\* callTool reaches the Lab.
Call(e, i) ==
  /\ pc[e] = "loop"
  /\ NextStep(e, i)
  /\ ~NeedsApproval(e, i)
  /\ calls' = [calls EXCEPT ![i] = @ + 1]
  /\ at' = [at EXCEPT ![e] = i]
  /\ Goto(e, "called")
  /\ UNCHANGED <<runVars, granted, known, stopAs, ghostVars>>

\* A completed step is recorded and the loop goes on.
Answer(e) ==
  /\ pc[e] = "called"
  /\ rows' = [rows EXCEPT ![at[e]] = @ \cup {"completed"}]
  /\ known' = [known EXCEPT ![e] = @ \cup {at[e]}]
  /\ Goto(e, "loop")
  /\ UNCHANGED <<plan, runStatus, approvals, granted, at, stopAs, calls, ghostVars>>

\* Mutation: an error result does not end the loop.
AnswerErrorGoesOn(e) ==
  /\ pc[e] = "called"
  /\ rows' = [rows EXCEPT ![at[e]] = @ \cup {"error"}]
  /\ known' = [known EXCEPT ![e] = @ \cup {at[e]}]
  /\ Goto(e, "loop")
  /\ UNCHANGED <<plan, runStatus, approvals, granted, at, stopAs, calls, ghostVars>>

\* An exception or an error result: recorded as an error, and the run ends.
AnswerError(e) ==
  /\ pc[e] = "called"
  /\ rows' = [rows EXCEPT ![at[e]] = @ \cup {"error"}]
  /\ stopAs' = [stopAs EXCEPT ![e] = "error"]
  /\ Goto(e, "stopping")
  /\ UNCHANGED <<plan, runStatus, approvals, granted, known, at, calls, ghostVars>>

\* Hard blocks of any tool, or coverage below the floor: the step is recorded as
\* completed and the run ends as blocked.
AnswerBlocked(e) ==
  /\ pc[e] = "called"
  /\ rows' = [rows EXCEPT ![at[e]] = @ \cup {"completed"}]
  /\ stopAs' = [stopAs EXCEPT ![e] = "blocked"]
  /\ Goto(e, "stopping")
  /\ UNCHANGED <<plan, runStatus, approvals, granted, known, at, calls, ghostVars>>

\* All steps done: the Truth Card.
Finish(e) ==
  /\ pc[e] = "loop"
  /\ Steps \subseteq known[e]
  /\ stopAs' = [stopAs EXCEPT ![e] = "completed"]
  /\ Goto(e, "stopping")
  /\ UNCHANGED <<runVars, granted, known, at, calls, ghostVars>>

\* finishRun: an update by id, whatever the status was.
FinishRun(e) ==
  /\ pc[e] = "stopping"
  /\ runStatus' = stopAs[e]
  /\ Goto(e, "ended")
  /\ UNCHANGED <<plan, rows, approvals, granted, known, at, stopAs, calls, ghostVars>>

\* An await of executePlan that throws, or the process dies: the run stays as it is.
Abort(e) ==
  /\ pc[e] \in InFlight \cup {"approve", "deny"}
  /\ aborts < MaxAborts
  /\ aborts' = aborts + 1
  /\ Goto(e, "ended")
  /\ UNCHANGED <<runVars, granted, known, at, stopAs, calls, consent>>

Work(e) ==
  \/ Approve(e) \/ Deny(e) \/ Begin(e)
  \/ \E i \in Steps : Pause(e, i) \/ Call(e, i)
  \/ LookForApproval(e) \/ InsertApproval(e)
  \/ Answer(e) \/ AnswerError(e) \/ AnswerBlocked(e)
  \/ Finish(e) \/ FinishRun(e)

Request(e) ==
  \/ Launch(e)
  \/ \E r \in DOMAIN approvals : ReadApproval(e, r)
  \/ \E i \in Steps : ApproveStep(e, i)

\* Every execution has ended: the run rests for good.
Rest == (\A e \in Execs : pc[e] = "ended") /\ UNCHANGED vars

Next == (\E e \in Execs : Request(e) \/ Work(e) \/ Abort(e)) \/ Rest

Spec == Init /\ [][Next]_vars

\* An await is resolved in the end; the owner may never decide.
Fairness == \A e \in Execs : WF_vars(Work(e))

FairSpec == Spec /\ Fairness

-----------------------------------------------------------------------------
(* What a run promises *)

RunnerTypeOK ==
  /\ plan \in Plans
  /\ runStatus \in RunStates
  /\ rows \in [Steps -> SUBSET RowStates]
  /\ approvals \in Seq([step : Steps, status : {"pending"} \cup Verdicts])
  /\ pc \in [Execs -> {"new", "approve", "deny", "ended"} \cup InFlight]
  /\ granted \in [Execs -> SUBSET Steps]
  /\ known \in [Execs -> SUBSET Steps]
  /\ at \in [Execs -> Nat]
  /\ stopAs \in [Execs -> Stops]
  /\ calls \in [Steps -> Nat]
  /\ consent \subseteq Steps
  /\ aborts \in 0..MaxAborts

\* No tool is called for a step with a declared gate, for a publication, or, below
\* L2, for a tool the playbook wants approved, unless the owner approved that very
\* step, whatever order the executions of the run take.
Consent ==
  \A i \in Steps :
    /\ calls[i] > 0
    /\ \/ Gated(plan, i)
       \/ Tool(plan, i) \in Publishing
       \/ WantsApproval(plan, i) /\ ~AtLeast(plan, "L2")
    => i \in consent

\* What reaches the Lab respects the floors: nothing at L0 or below the playbook's
\* level, live paper only from L2, a position never without a valid exit policy, a
\* web trigger never mutates, only tools of the playbook run, and no step changes the
\* execution fidelity in silence.
Floors ==
  \A i \in Steps : calls[i] > 0 =>
    /\ plan.level # "L0"
    /\ AtLeast(plan, plan.playbook.minAutonomy)
    /\ Tool(plan, i) \in plan.playbook.allowed
    /\ Tool(plan, i) \in LiveStart => AtLeast(plan, "L2")
    /\ Tool(plan, i) \in ManagedEntry => plan.exitPolicy = "valid"
    /\ Tool(plan, i) \in Mutating => ~plan.web
    /\ plan.steps[i].toggles => plan.notes

\* A step reaches the Lab only when every earlier step has completed, so the outputs
\* its params refer to exist, across pauses, crashes and concurrent resumptions.
PlanOrder ==
  \A i \in Steps : calls[i] > 0 => \A j \in Steps : j < i => j \in Completed

\* A run is completed only when every step of its plan is, though any execution may
\* write the status.
CompletedMeansDone == runStatus = "completed" => Completed = Steps

\* A step that has completed is not called again (runner.ts:41-43).
NeverRerun == [][\A i \in Steps : i \in Completed => calls'[i] = calls[i]]_vars
=============================================================================
