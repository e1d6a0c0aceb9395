-------------------------- MODULE PlanRunnerProofs --------------------------
(***************************************************************************)
(* What holds of a run for any plans and any number of executions, in any  *)
(* interleaving.  RunnerInv adds to the type invariant what each execution *)
(* knows: it works only on a plan the guardrails accepted, it holds no     *)
(* approval the owner did not give, it takes no step for completed that is *)
(* not, and it ends the run as completed only when every step is.          *)
(***************************************************************************)
EXTENDS MCPlanRunner, TLAPS

\* Executions that have passed the guardrails and may call tools.
Running == {"loop", "called", "pausing", "inserting"}

\* The row or the step that an execution is at exists.
AtExists ==
  \A e \in Execs :
    /\ pc[e] \in {"approve", "deny"} => at[e] \in DOMAIN approvals
    /\ pc[e] \in {"called", "pausing", "inserting"} => at[e] \in Steps

RunnerTyped == RunnerTypeOK /\ AtExists

PlanAccepted == \A e \in Execs : pc[e] \in Running => plan.level # "L0" /\ PlanOk(plan)
GrantedByOwner == \A e \in Execs : granted[e] \subseteq consent
KnownCompleted == \A e \in Execs : known[e] \subseteq Completed
EndsHonestly ==
  \A e \in Execs : pc[e] = "stopping" /\ stopAs[e] = "completed" => Steps \subseteq Completed

RunnerInv ==
  /\ RunnerTyped
  /\ PlanAccepted /\ GrantedByOwner /\ Consent /\ Floors
  /\ KnownCompleted /\ EndsHonestly /\ PlanOrder /\ CompletedMeansDone

\* A plan of the set has at least one step, numbered from 1.
LEMMA PlanSteps == ASSUME NEW p \in Plans PROVE StepsOf(p) \subseteq Nat
<1>1. IsPlan(p)
  BY PlansAssumption
<1>2. p.steps \in Seq(Step)
  BY <1>1 DEF IsPlan
<1>3. QED
  BY <1>2 DEF StepsOf

\* In a plan the guardrails accept, a step that is called without a pause for
\* approval either needs no consent or its approval was given.
LEMMA CalledWithConsent ==
  ASSUME NEW p, PlanOk(p), NEW i \in StepsOf(p), NEW G,
         ~(Decision(p, i) = "needs_approval" /\ i \notin G),
         \/ Gated(p, i)
         \/ Tool(p, i) \in Publishing
         \/ WantsApproval(p, i) /\ ~AtLeast(p, "L2")
  PROVE  i \in G
<1>1. ~Blocked(p, i)
  BY DEF PlanOk
<1>2. Gated(p, i)
  BY <1>1 DEF Blocked, ForbiddenTool, UndeclaredGate
<1>3. Decision(p, i) = "needs_approval"
  BY <1>1, <1>2 DEF Decision
<1>4. QED
  BY <1>3

\* What Floors says of a step that was called.
OnTheFloor(p, i) ==
  /\ p.level # "L0"
  /\ AtLeast(p, p.playbook.minAutonomy)
  /\ Tool(p, i) \in p.playbook.allowed
  /\ Tool(p, i) \in LiveStart => AtLeast(p, "L2")
  /\ Tool(p, i) \in ManagedEntry => p.exitPolicy = "valid"
  /\ Tool(p, i) \in Mutating => ~p.web
  /\ p.steps[i].toggles => p.notes

\* Every step of a plan that the guardrails accept respects the floors.
LEMMA AcceptedOnTheFloor ==
  ASSUME NEW p, p.level # "L0", PlanOk(p), NEW i \in StepsOf(p)
  PROVE  OnTheFloor(p, i)
<1>1. ~Blocked(p, i) /\ AtLeast(p, p.playbook.minAutonomy) /\ NoNakedEntry(p)
  BY DEF PlanOk, PlanRules
<1>2. ~ForbiddenTool(p, i) /\ (p.steps[i].toggles => p.notes)
  BY <1>1 DEF Blocked
<1>3. Tool(p, i) \in ManagedEntry => p.exitPolicy = "valid"
  BY <1>1 DEF NoNakedEntry, Uses
<1>4. QED
  BY <1>1, <1>2, <1>3 DEF ForbiddenTool, OnTheFloor

LEMMA RunnerTypedInit == Init => RunnerTyped
<1> SUFFICES ASSUME Init PROVE RunnerTyped
  OBVIOUS
<1>0. approvals \in Seq([step : Steps, status : {"pending"} \cup Verdicts])
  BY DEF Init
<1>a. /\ rows \in [Steps -> SUBSET RowStates] /\ calls \in [Steps -> Nat]
      /\ granted \in [Execs -> SUBSET Steps] /\ known \in [Execs -> SUBSET Steps]
      /\ at \in [Execs -> Nat] /\ stopAs \in [Execs -> Stops]
      /\ pc \in [Execs -> {"new", "approve", "deny", "ended"} \cup InFlight]
  BY DEF Init, Stops
<1>b. aborts \in 0..MaxAborts
  BY RunnerAssumption DEF Init
<1>1. RunnerTypeOK
  BY <1>0, <1>a, <1>b DEF Init, RunnerTypeOK, RunStates
<1>2. AtExists
  BY DEF Init, AtExists
<1>3. QED
  BY <1>1, <1>2 DEF RunnerTyped

ApprovalRows == [step : Steps, status : {"pending"} \cup Verdicts]

\* Deciding rows in place and appending one keep the table's type and its rows.
LEMMA ApprovalTable ==
  ASSUME approvals \in Seq(ApprovalRows)
  PROVE  /\ \A r \in DOMAIN approvals : approvals[r].step \in Steps
         /\ \A r \in DOMAIN approvals, v \in Verdicts :
              /\ Decided(r, v) \in Seq(ApprovalRows)
              /\ DOMAIN Decided(r, v) = DOMAIN approvals
         /\ \A i \in Steps :
              /\ ApprovedRows(i) \in Seq(ApprovalRows)
              /\ DOMAIN ApprovedRows(i) = DOMAIN approvals
              /\ Append(approvals, Row(i, "pending")) \in Seq(ApprovalRows)
              /\ DOMAIN approvals \subseteq DOMAIN Append(approvals, Row(i, "pending"))
<1>1. approvals \in [1..Len(approvals) -> ApprovalRows] /\ Len(approvals) \in Nat
  OBVIOUS
<1>2. DOMAIN approvals = 1..Len(approvals)
  BY <1>1
<1>3. \A f : f \in [1..Len(approvals) -> ApprovalRows] => f \in Seq(ApprovalRows)
  BY <1>1
<1>4. \A i \in Steps, v \in {"pending"} \cup Verdicts : Row(i, v) \in ApprovalRows
  BY DEF Row, ApprovalRows
<1>5. \A r \in DOMAIN approvals : approvals[r].step \in Steps
  BY <1>1, <1>2 DEF ApprovalRows
<1>6. ASSUME NEW r \in DOMAIN approvals, NEW v \in Verdicts
      PROVE  Decided(r, v) \in [1..Len(approvals) -> ApprovalRows]
  <2>1. Row(approvals[r].step, v) \in ApprovalRows
    BY <1>4, <1>5
  <2>2. QED
    BY <1>1, <2>1 DEF Decided
<1>7. ASSUME NEW i \in Steps
      PROVE  ApprovedRows(i) \in [1..Len(approvals) -> ApprovalRows]
  <2>1. Row(i, "approved") \in ApprovalRows
    BY <1>4 DEF Verdicts
  <2>2. QED
    BY <1>1, <1>2, <2>1 DEF ApprovedRows
<1>8. ASSUME NEW i \in Steps
      PROVE  /\ Append(approvals, Row(i, "pending")) \in Seq(ApprovalRows)
             /\ DOMAIN approvals \subseteq DOMAIN Append(approvals, Row(i, "pending"))
  <2>1. Row(i, "pending") \in ApprovalRows
    BY <1>4
  <2>2. QED
    BY <1>1, <1>2, <2>1
<1>9. QED
  BY <1>2, <1>3, <1>5, <1>6, <1>7, <1>8

LEMMA RunnerTypedStep == RunnerTyped /\ [Next]_vars => RunnerTyped'
<1> SUFFICES ASSUME RunnerTyped, [Next]_vars PROVE RunnerTyped'
  OBVIOUS
<1>0. Steps \subseteq Nat
  BY PlanSteps DEF RunnerTyped, RunnerTypeOK, Steps
<1>a. approvals \in Seq(ApprovalRows)
  BY DEF ApprovalRows, RunnerTyped, RunnerTypeOK
<1>b. /\ \A r \in DOMAIN approvals : approvals[r].step \in Steps
      /\ \A r \in DOMAIN approvals, v \in Verdicts :
           /\ Decided(r, v) \in Seq(ApprovalRows)
           /\ DOMAIN Decided(r, v) = DOMAIN approvals
      /\ \A i \in Steps :
           /\ ApprovedRows(i) \in Seq(ApprovalRows)
           /\ DOMAIN ApprovedRows(i) = DOMAIN approvals
           /\ Append(approvals, Row(i, "pending")) \in Seq(ApprovalRows)
           /\ DOMAIN approvals \subseteq DOMAIN Append(approvals, Row(i, "pending"))
  BY <1>a, ApprovalTable
<1> USE DEF RunnerTyped, RunnerTypeOK, AtExists, Goto, runVars, ghostVars, InFlight
<1>c. Steps' = Steps
  <2>1. plan' = plan
    BY DEF Next, Request, Work, Rest, vars, Launch, ReadApproval, ApproveStep, Approve, Deny,
           Begin, Pause, Call, LookForApproval, InsertApproval, Answer, AnswerError,
           AnswerBlocked, Finish, FinishRun, Abort
  <2>2. QED
    BY <2>1 DEF Steps
<1>1. ASSUME NEW e \in Execs, Launch(e) PROVE RunnerTyped'
  BY <1>c, <1>1 DEF Launch, RunStates
<1>2. ASSUME NEW e \in Execs, NEW r \in DOMAIN approvals, ReadApproval(e, r)
      PROVE  RunnerTyped'
  BY <1>c, <1>2 DEF ReadApproval
<1>3. ASSUME NEW e \in Execs, NEW i \in Steps, ApproveStep(e, i) PROVE RunnerTyped'
  <2>1. approvals' \in Seq(ApprovalRows) /\ DOMAIN approvals' = DOMAIN approvals
    BY <1>c, <1>b, <1>3 DEF ApproveStep
  <2>2. QED
    BY <1>c, <1>3, <2>1 DEF ApproveStep, ResumeWith, ApprovalRows
<1>4. ASSUME NEW e \in Execs, Approve(e) PROVE RunnerTyped'
  <2>1. at[e] \in DOMAIN approvals /\ approvals[at[e]].step \in Steps
    BY <1>b, <1>4 DEF Approve
  <2>2. approvals' \in Seq(ApprovalRows) /\ DOMAIN approvals' = DOMAIN approvals
    BY <1>c, <1>4, <1>b, <2>1 DEF Approve, Verdicts
  <2>3. QED
    BY <1>c, <1>4, <2>1, <2>2 DEF Approve, ResumeWith, ApprovalRows
<1>5. ASSUME NEW e \in Execs, Deny(e) PROVE RunnerTyped'
  <2>1. at[e] \in DOMAIN approvals
    BY <1>c, <1>5 DEF Deny
  <2>2. approvals' \in Seq(ApprovalRows) /\ DOMAIN approvals' = DOMAIN approvals
    BY <1>c, <1>5, <1>b, <2>1 DEF Deny, Verdicts
  <2>3. QED
    BY <1>c, <1>5, <2>2 DEF Deny, ApprovalRows
<1>6. ASSUME NEW e \in Execs, Begin(e) PROVE RunnerTyped'
  <2>1. known' \in [Execs -> SUBSET Steps]
    <3>1. DoneBefore \in SUBSET Steps
      BY DEF DoneBefore, Completed
    <3>2. known' = known \/ known' = [known EXCEPT ![e] = DoneBefore]
      BY <1>6 DEF Begin
    <3>3. QED
      BY <3>1, <3>2
  <2>2. stopAs' \in [Execs -> Stops]
    BY <1>6 DEF Begin, Stops
  <2>3. QED
    BY <1>c, <1>6, <2>1, <2>2 DEF Begin
<1>7. ASSUME NEW e \in Execs, NEW i \in Steps, Pause(e, i) PROVE RunnerTyped'
  BY <1>c, <1>0, <1>7 DEF Pause, RowStates
<1>8. ASSUME NEW e \in Execs, NEW i \in Steps, Call(e, i) PROVE RunnerTyped'
  BY <1>c, <1>0, <1>8 DEF Call
<1>9. ASSUME NEW e \in Execs, LookForApproval(e) PROVE RunnerTyped'
  BY <1>c, <1>9 DEF LookForApproval
<1>10. ASSUME NEW e \in Execs, InsertApproval(e) PROVE RunnerTyped'
  <2>1. at[e] \in Steps
    BY <1>c, <1>10 DEF InsertApproval
  <2>2. approvals' \in Seq(ApprovalRows) /\ DOMAIN approvals \subseteq DOMAIN approvals'
    <3>1. CASE approvals' = Append(approvals, Row(at[e], "pending"))
      BY <1>b, <2>1, <3>1
    <3>2. CASE UNCHANGED approvals
      BY <1>a, <3>2
    <3>3. QED
      BY <1>10, <3>1, <3>2 DEF InsertApproval
  <2>3. QED
    BY <1>c, <1>10, <2>2 DEF InsertApproval, ApprovalRows
<1>11. ASSUME NEW e \in Execs, Answer(e) PROVE RunnerTyped'
  BY <1>c, <1>11 DEF Answer, RowStates
<1>12. ASSUME NEW e \in Execs, AnswerError(e) PROVE RunnerTyped'
  BY <1>c, <1>12 DEF AnswerError, RowStates, Stops
<1>13. ASSUME NEW e \in Execs, AnswerBlocked(e) PROVE RunnerTyped'
  BY <1>c, <1>13 DEF AnswerBlocked, RowStates, Stops
<1>14. ASSUME NEW e \in Execs, Finish(e) PROVE RunnerTyped'
  BY <1>c, <1>14 DEF Finish, Stops
<1>15. ASSUME NEW e \in Execs, FinishRun(e) PROVE RunnerTyped'
  BY <1>c, <1>15 DEF FinishRun, RunStates
<1>16. ASSUME NEW e \in Execs, Abort(e) PROVE RunnerTyped'
  BY <1>c, <1>16, RunnerAssumption DEF Abort
<1>17. CASE UNCHANGED vars
  BY <1>c, <1>17 DEF vars
<1>18. QED
  BY <1>1, <1>2, <1>3, <1>4, <1>5, <1>6, <1>7, <1>8, <1>9, <1>10, <1>11, <1>12,
     <1>13, <1>14, <1>15, <1>16, <1>17 DEF Next, Request, Work, Rest

LEMMA RunnerInvInit == Init => RunnerInv
<1> SUFFICES ASSUME Init PROVE RunnerInv
  OBVIOUS
<1>1. RunnerTyped
  BY RunnerTypedInit
<1>2. PlanAccepted /\ GrantedByOwner /\ KnownCompleted /\ EndsHonestly
  BY DEF Init, PlanAccepted, Running, GrantedByOwner, KnownCompleted, EndsHonestly
<1>3. Consent /\ Floors /\ PlanOrder /\ CompletedMeansDone
  BY DEF Init, Consent, Floors, PlanOrder, CompletedMeansDone
<1>4. QED
  BY <1>1, <1>2, <1>3 DEF RunnerInv

\* The plan never changes, consent only grows, and a completed step stays completed.
LEMMA OnlyGrow ==
  ASSUME RunnerTyped, [Next]_vars
  PROVE  plan' = plan /\ Steps' = Steps /\ consent \subseteq consent'
         /\ Completed \subseteq Completed'
<1> USE DEF runVars, ghostVars
<1>1. plan' = plan
  BY DEF Next, Request, Work, Rest, vars, Launch, ReadApproval, ApproveStep, Approve, Deny,
         Begin, Pause, Call, LookForApproval, InsertApproval, Answer, AnswerError,
         AnswerBlocked, Finish, FinishRun, Abort
<1>2. Steps' = Steps
  BY <1>1 DEF Steps
<1>3. consent \subseteq consent'
  BY DEF Next, Request, Work, Rest, vars, Launch, ReadApproval, ApproveStep, Approve, Deny,
         Begin, Pause, Call, LookForApproval, InsertApproval, Answer, AnswerError,
         AnswerBlocked, Finish, FinishRun, Abort, ResumeWith
<1>4. \A i \in Steps : rows[i] \subseteq rows'[i]
  <2> USE DEF RunnerTyped, RunnerTypeOK
  <2>1. ASSUME NEW e \in Execs,
               (\E i \in Steps : Pause(e, i)) \/ Answer(e) \/ AnswerError(e) \/ AnswerBlocked(e)
        PROVE  \A i \in Steps : rows[i] \subseteq rows'[i]
    <3>1. ASSUME NEW k, NEW t, rows' = [rows EXCEPT ![k] = @ \cup t]
          PROVE  \A i \in Steps : rows[i] \subseteq rows'[i]
      BY <3>1
    <3>2. \E k, t : rows' = [rows EXCEPT ![k] = @ \cup t]
      BY <2>1 DEF Pause, Answer, AnswerError, AnswerBlocked
    <3>3. QED
      BY <3>1, <3>2
  <2>2. ASSUME UNCHANGED rows PROVE \A i \in Steps : rows[i] \subseteq rows'[i]
    BY <2>2
  <2>3. QED
    BY <2>1, <2>2 DEF Next, Request, Work, Rest, vars, Launch, ReadApproval, ApproveStep,
         Approve, Deny, Begin, Call, LookForApproval, InsertApproval, Finish, FinishRun, Abort
<1>5. QED
  BY <1>1, <1>2, <1>3, <1>4 DEF Completed

\* What a step changes for each part of the invariant.
LEMMA RunnerInvStep == RunnerInv /\ [Next]_vars => RunnerInv'
<1> SUFFICES ASSUME RunnerInv, [Next]_vars PROVE RunnerInv'
  OBVIOUS
<1>0. /\ plan' = plan /\ Steps' = Steps
      /\ consent \subseteq consent' /\ Completed \subseteq Completed'
  BY OnlyGrow DEF RunnerInv
<1>1. RunnerTyped'
  BY RunnerTypedStep DEF RunnerInv
<1>t. RunnerTypeOK /\ AtExists
  BY DEF RunnerInv, RunnerTyped
<1> USE DEF Goto, runVars, ghostVars
<1>2. PlanAccepted'
  <2>1. ASSUME NEW e \in Execs, pc'[e] \in Running
        PROVE  pc[e] \in Running \/ (plan.level # "L0" /\ PlanOk(plan))
    BY <1>t, <2>1 DEF RunnerTypeOK, Running, Next, Request, Work, Rest, vars, Launch,
         ReadApproval, ApproveStep, Approve, Deny, Begin, Pause, Call, LookForApproval,
         InsertApproval, Answer, AnswerError, AnswerBlocked, Finish, FinishRun, Abort, ResumeWith
  <2>2. QED
    BY <1>0, <2>1 DEF RunnerInv, PlanAccepted
<1>3. GrantedByOwner'
  <2>1. ASSUME NEW e \in Execs PROVE granted'[e] \subseteq granted[e] \cup consent'
    <3>1. ASSUME NEW d \in Execs, NEW i, ResumeWith(d, i)
          PROVE  granted'[e] \subseteq granted[e] \cup consent'
      BY <1>t, <3>1 DEF RunnerTypeOK, ResumeWith
    <3>2. ASSUME UNCHANGED granted PROVE granted'[e] \subseteq granted[e] \cup consent'
      BY <3>2
    <3>3. QED
      BY <3>1, <3>2 DEF Next, Request, Work, Rest, vars, Launch, ReadApproval,
         ApproveStep, Approve, Deny, Begin, Pause, Call, LookForApproval, InsertApproval,
         Answer, AnswerError, AnswerBlocked, Finish, FinishRun, Abort
  <2>2. QED
    BY <1>0, <2>1 DEF RunnerInv, GrantedByOwner
<1>4. KnownCompleted'
  <2>1. ASSUME NEW e \in Execs PROVE known'[e] \subseteq known[e] \cup Completed'
    <3>1. ASSUME NEW d \in Execs, Begin(d) PROVE known'[e] \subseteq known[e] \cup Completed'
      BY <1>0, <1>t, <3>1 DEF RunnerTypeOK, Begin, DoneBefore
    <3>2. ASSUME NEW d \in Execs, Answer(d) PROVE known'[e] \subseteq known[e] \cup Completed'
      <4>1. at[d] \in Steps
        BY <1>t, <3>2 DEF AtExists, Answer
      <4>2. at[d] \in Completed'
        BY <1>0, <1>t, <3>2, <4>1 DEF RunnerTypeOK, Answer, Completed
      <4>3. QED
        BY <1>t, <3>2, <4>2 DEF RunnerTypeOK, Answer
    <3>3. ASSUME UNCHANGED known PROVE known'[e] \subseteq known[e] \cup Completed'
      BY <3>3
    <3>4. QED
      BY <3>1, <3>2, <3>3 DEF Next, Request, Work, Rest, vars, Launch, ReadApproval,
         ApproveStep, Approve, Deny, Pause, Call, LookForApproval, InsertApproval,
         AnswerError, AnswerBlocked, Finish, FinishRun, Abort
  <2>2. QED
    BY <1>0, <2>1 DEF RunnerInv, KnownCompleted
<1>5. EndsHonestly'
  <2>1. ASSUME NEW e \in Execs, pc'[e] = "stopping", stopAs'[e] = "completed"
        PROVE  (pc[e] = "stopping" /\ stopAs[e] = "completed") \/ Steps \subseteq known[e]
    <3>1. ASSUME NEW d \in Execs, Begin(d) \/ AnswerError(d) \/ AnswerBlocked(d)
          PROVE  pc[e] = "stopping" /\ stopAs[e] = "completed"
      BY <1>t, <2>1, <3>1 DEF RunnerTypeOK, Begin, AnswerError, AnswerBlocked
    <3>2. ASSUME NEW d \in Execs, Finish(d)
          PROVE  (pc[e] = "stopping" /\ stopAs[e] = "completed") \/ Steps \subseteq known[e]
      BY <1>t, <2>1, <3>2 DEF RunnerTypeOK, Finish
    <3>3. QED
      BY <1>t, <2>1, <3>1, <3>2 DEF RunnerTypeOK, Next, Request, Work, Rest, vars, Launch,
         ReadApproval, ApproveStep, Approve, Deny, Pause, Call, LookForApproval,
         InsertApproval, Answer, FinishRun, Abort, ResumeWith
  <2>2. QED
    BY <1>0, <2>1 DEF RunnerInv, KnownCompleted, EndsHonestly
<1>6. ASSUME NEW e \in Execs, NEW i \in Steps, Call(e, i)
      PROVE  Consent' /\ Floors' /\ PlanOrder'
  <2>1. plan.level # "L0" /\ PlanOk(plan)
    BY <1>6 DEF RunnerInv, PlanAccepted, Running, Call
  <2>2. ASSUME \/ Gated(plan, i)
               \/ Tool(plan, i) \in Publishing
               \/ WantsApproval(plan, i) /\ ~AtLeast(plan, "L2")
        PROVE  i \in consent
    <3>1. i \in granted[e]
      BY <1>6, <2>1, <2>2, CalledWithConsent DEF Call, NeedsApproval, Steps
    <3>2. QED
      BY <3>1 DEF RunnerInv, GrantedByOwner
  <2>3. Consent'
    BY <1>0, <1>t, <1>6, <2>2 DEF RunnerInv, RunnerTypeOK, Consent, Call
  <2>4. \A j \in Steps : j < i => j \in Completed
    <3>1. Steps \subseteq Nat
      BY <1>t, PlanSteps DEF RunnerTypeOK, Steps
    <3>2. \A j \in Steps \ known[e] : i <= j
      BY <1>6 DEF Call, NextStep
    <3>3. QED
      BY <3>1, <3>2 DEF RunnerInv, KnownCompleted
  <2>5. PlanOrder'
    BY <1>0, <1>t, <1>6, <2>4 DEF RunnerInv, RunnerTypeOK, PlanOrder, Call
  <2>6. OnTheFloor(plan, i)
    BY <2>1, AcceptedOnTheFloor DEF Steps
  <2>7. Floors'
    <3>1. \A j \in Steps : calls[j] > 0 => OnTheFloor(plan, j)
      BY DEF RunnerInv, Floors, OnTheFloor
    <3>2. \A j \in Steps : calls'[j] > 0 => OnTheFloor(plan, j)
      BY <1>t, <1>6, <2>6, <3>1 DEF RunnerTypeOK, Call
    <3> QED BY <1>0, <3>2 DEF Floors, OnTheFloor
  <2>8. QED
    BY <2>3, <2>5, <2>7
<1>7. ASSUME UNCHANGED calls PROVE Consent' /\ Floors' /\ PlanOrder'
  BY <1>0, <1>7 DEF RunnerInv, Consent, Floors, PlanOrder
<1>8. Consent' /\ Floors' /\ PlanOrder'
  BY <1>6, <1>7 DEF Next, Request, Work, Rest, vars, Launch, ReadApproval, ApproveStep,
     Approve, Deny, Begin, Pause, LookForApproval, InsertApproval, Answer, AnswerError,
     AnswerBlocked, Finish, FinishRun, Abort
<1>9. CompletedMeansDone'
  <2>1. ASSUME runStatus' = "completed"
        PROVE  runStatus = "completed"
               \/ \E e \in Execs : pc[e] = "stopping" /\ stopAs[e] = "completed"
    BY <2>1 DEF Next, Request, Work, Rest, vars, Launch, ReadApproval, ApproveStep,
       Approve, Deny, Begin, Pause, Call, LookForApproval, InsertApproval, Answer,
       AnswerError, AnswerBlocked, Finish, FinishRun, Abort
  <2>2. Completed' \subseteq Steps'
    BY DEF Completed
  <2>3. QED
    BY <1>0, <2>1, <2>2 DEF RunnerInv, CompletedMeansDone, EndsHonestly, Completed
<1>10. QED
  BY <1>1, <1>2, <1>3, <1>4, <1>5, <1>8, <1>9 DEF RunnerInv

LEMMA RunnerInvariant == Spec => []RunnerInv
BY RunnerInvInit, RunnerInvStep, PTL DEF Spec

\* Every variable of a run keeps its type.
THEOREM RunnerTypeCorrect == Spec => []RunnerTypeOK
<1>1. RunnerInv => RunnerTypeOK
  BY DEF RunnerInv, RunnerTyped
<1>2. QED
  BY <1>1, RunnerInvariant, PTL

\* No step that needs the owner's approval reaches the Lab without it
\* (guardrails/index.ts:121-142, runner.ts:97), whatever the plan and however many
\* executions of the run overlap.
THEOREM ConsentHolds == Spec => []Consent
<1>1. RunnerInv => Consent
  BY DEF RunnerInv
<1>2. QED
  BY <1>1, RunnerInvariant, PTL

\* What reaches the Lab respects the floors of autonomy, allowlist, entry and determinism
\* (guardrails/index.ts:85-175), whatever the plan and whoever resumes the run.
THEOREM FloorsHold == Spec => []Floors
<1>1. RunnerInv => Floors
  BY DEF RunnerInv
<1>2. QED
  BY <1>1, RunnerInvariant, PTL

\* A step reaches the Lab only after every earlier step completed (runner.ts:93-94).
THEOREM StepsInOrder == Spec => []PlanOrder
<1>1. RunnerInv => PlanOrder
  BY DEF RunnerInv
<1>2. QED
  BY <1>1, RunnerInvariant, PTL

\* A run whose status is "completed" has completed every step of its plan, though any
\* execution may write the status (runner.ts:166).
THEOREM CompletedIsHonest == Spec => []CompletedMeansDone
<1>1. RunnerInv => CompletedMeansDone
  BY DEF RunnerInv
<1>2. QED
  BY <1>1, RunnerInvariant, PTL

-----------------------------------------------------------------------------
(* Executions that follow one another never repeat a completed step. *)

\* An execution in its loop takes for completed whatever is.
KnowsAll == \A e \in Execs : pc[e] \in {"loop", "called"} => Completed \subseteq known[e]

RerunInv == RunnerInv /\ KnowsAll

\* Other executions do not record steps meanwhile.
LEMMA KnowsAllStep ==
  ASSUME RerunInv, Serial, Serial', [Next]_vars
  PROVE  KnowsAll'
<1>t. RunnerTypeOK /\ AtExists /\ RunnerTyped /\ KnowsAll
  BY DEF RerunInv, RunnerInv, RunnerTyped
<1>0. plan' = plan /\ Steps' = Steps
  BY <1>t, OnlyGrow
<1> USE DEF Goto, runVars, ghostVars
<1> SUFFICES ASSUME NEW e \in Execs, pc'[e] \in {"loop", "called"}
             PROVE  Completed' \subseteq known'[e]
  BY DEF KnowsAll
<1>1. \A d \in Execs \ {e} : ~Active(d)' /\ (pc[e] \in {"loop", "called"} => ~Active(d))
  BY DEF Serial, Active, InFlight
<1>2. CASE Begin(e)
  BY <1>0, <1>t, <1>2 DEF RunnerTypeOK, Begin, DoneBefore, Completed
<1>3. CASE Answer(e)
  <2>1. at[e] \in Steps /\ Completed \subseteq known[e]
    BY <1>t, <1>3 DEF AtExists, Answer, KnowsAll
  <2>2. Completed' \subseteq Completed \cup {at[e]}
    BY <1>0, <1>t, <1>3, <2>1 DEF RunnerTypeOK, Answer, Completed
  <2>3. QED
    BY <1>t, <1>3, <2>1, <2>2 DEF RunnerTypeOK, Answer
<1>4. ASSUME NEW i \in Steps, Call(e, i) PROVE Completed' \subseteq known'[e]
  <2>1. pc[e] = "loop" /\ rows' = rows /\ known' = known
    BY <1>4 DEF Call
  <2>2. QED
    BY <1>0, <1>t, <2>1 DEF KnowsAll, Completed
<1>5. CASE UNCHANGED vars
  BY <1>t, <1>5 DEF vars, KnowsAll, Completed, Steps
<1>6. ASSUME NEW d \in Execs \ {e}, Request(d) \/ Work(d) \/ Abort(d)
      PROVE  Completed' \subseteq known'[e]
  <2>1. pc'[e] = pc[e] /\ known'[e] = known[e]
    BY <1>t, <1>6 DEF RunnerTypeOK, Request, Work, Launch, ReadApproval, ApproveStep,
       Approve, Deny, Begin, Pause, Call, LookForApproval, InsertApproval, Answer,
       AnswerError, AnswerBlocked, Finish, FinishRun, Abort, ResumeWith
  <2>2. ~Active(d) /\ Completed \subseteq known[e]
    BY <1>t, <1>1, <2>1 DEF KnowsAll
  <2>3. rows' = rows
    BY <1>6, <2>2 DEF Active, InFlight, Request, Work, Launch, ReadApproval, ApproveStep,
       Approve, Deny, Begin, Pause, Call, LookForApproval, InsertApproval, Answer,
       AnswerError, AnswerBlocked, Finish, FinishRun, Abort
  <2>4. QED
    BY <1>0, <2>1, <2>2, <2>3 DEF Completed
<1>7. CASE Request(e) \/ Abort(e)
  BY <1>t, <1>7 DEF RunnerTypeOK, Request, Launch, ReadApproval, ApproveStep, Abort, ResumeWith
<1>8. CASE Approve(e) \/ Deny(e) \/ (\E i \in Steps : Pause(e, i)) \/ LookForApproval(e)
            \/ InsertApproval(e) \/ AnswerError(e) \/ AnswerBlocked(e) \/ Finish(e)
            \/ FinishRun(e)
  BY <1>t, <1>8 DEF RunnerTypeOK, Approve, Deny, Pause, LookForApproval, InsertApproval,
     AnswerError, AnswerBlocked, Finish, FinishRun, ResumeWith
<1>9. QED
  BY <1>2, <1>3, <1>4, <1>5, <1>6, <1>7, <1>8 DEF Next, Work, Rest

\* What an execution calls, it does not take for completed.
LEMMA CallsAreNew ==
  ASSUME RerunInv, [Next]_vars
  PROVE  \A i \in Steps : i \in Completed => calls'[i] = calls[i]
<1> SUFFICES ASSUME NEW i \in Completed, i \in Steps PROVE calls'[i] = calls[i]
  OBVIOUS
<1>1. ASSUME NEW e \in Execs, NEW j \in Steps, Call(e, j) PROVE calls'[i] = calls[i]
  <2>1. j # i /\ calls \in [Steps -> Nat]
    BY <1>1 DEF Call, NextStep, RerunInv, KnowsAll, RunnerInv, RunnerTyped, RunnerTypeOK
  <2>2. QED
    BY <1>1, <2>1 DEF Call
<1>2. CASE UNCHANGED calls
  BY <1>2
<1>3. QED
  BY <1>1, <1>2 DEF Next, Request, Work, Rest, vars, ghostVars, Launch, ReadApproval,
     ApproveStep, Approve, Deny, Begin, Pause, LookForApproval, InsertApproval, Answer,
     AnswerError, AnswerBlocked, Finish, FinishRun, Abort

\* No execution is in its loop before the run is launched.
LEMMA RerunInitially == Init => RerunInv
<1>1. Init => KnowsAll
  BY DEF Init, KnowsAll
<1>2. QED
  BY <1>1, RunnerInvInit DEF RerunInv

\* A completed step is never called again when the executions of its run follow one
\* another (runner.ts:41-43), whatever fails, is blocked or dies between them.
THEOREM NeverRerunOneByOne == Spec /\ []Serial => NeverRerun
<1>1. RerunInv /\ Serial /\ Serial' /\ [Next]_vars => RerunInv'
  BY KnowsAllStep, RunnerInvStep DEF RerunInv
<1>2. RerunInv /\ [Next]_vars =>
        [\A i \in Steps : i \in Completed => calls'[i] = calls[i]]_vars
  BY CallsAreNew
<1>3. QED
  BY <1>1, <1>2, RerunInitially, PTL DEF Spec, NeverRerun

\* The same of the executions that the run explores in turn.
THEOREM NoRerunInTurn == MCSpec => NeverRerunInTurn
<1> DEFINE Inv == part = "serial" => RerunInv /\ Serial
           Step1 == [Next /\ UNCHANGED part /\ Within']_<<vars, part>>
<1>1. MCInit => Inv
  BY RerunInitially DEF MCInit, Within
<1>2. Inv /\ Step1 => Inv'
  <2> SUFFICES ASSUME Inv, Step1, part' = "serial" PROVE (RerunInv /\ Serial)'
    OBVIOUS
  <2>1. part = "serial" /\ [Next]_vars
    OBVIOUS
  <2>2. Serial'
    <3>1. CASE Within'
      BY <2>1, <3>1 DEF Within
    <3>2. CASE UNCHANGED <<vars, part>>
      BY <2>1, <3>2 DEF vars, Serial, Active
    <3>3. QED
      BY <3>1, <3>2
  <2>3. QED
    BY <2>1, <2>2, KnowsAllStep, RunnerInvStep DEF RerunInv
<1>3. Inv /\ Step1 =>
        [part = "serial" => \A i \in Steps : i \in Completed => calls'[i] = calls[i]]_vars
  <2> SUFFICES ASSUME Inv, Step1, part = "serial"
               PROVE  \A i \in Steps : i \in Completed => calls'[i] = calls[i]
    OBVIOUS
  <2>1. [Next]_vars
    OBVIOUS
  <2>2. QED
    BY <2>1, CallsAreNew
<1>4. QED
  BY <1>1, <1>2, <1>3, PTL DEF MCSpec, NeverRerunInTurn
=============================================================================
