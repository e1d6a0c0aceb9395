------------------------------- MODULE Copilot -------------------------------
(***************************************************************************)
(* The Copilot from the page to the events table: a page that starts chat  *)
(* turns and playbook runs and follows one stream at a time (page.tsx,     *)
(* ConsolePanel.tsx, lib/copilot/api.ts), the turns of ChatTurn, and the   *)
(* playbook runs in what they publish (PlanRunner models what they do):    *)
(* they may wait for an approval, and an approval starts the run again.    *)
(* The agent may crash and restart.                                        *)
(***************************************************************************)
EXTENDS ChatTurn

CONSTANTS MaxApprovals,   \* bound: approvals of one run
          MaxDeaths      \* bound: deaths of the agent

VARIABLES exec,       \* where each playbook run stands, and its approvals
          followed,   \* the run whose stream the page reads, or none
          posting,    \* requests of the page that have not returned
          deaths

PlanRuns == Runs \ ChatRuns
NoRun == "no run"
ASSUME NoRunAssumption == NoRun \notin Runs

pageVars == <<followed, posting>>
copilotVars == <<eventVars, turnVars, exec, pageVars, deaths>>

CopilotInit ==
  /\ EventsInit /\ TurnInit
  /\ exec = [r \in PlanRuns |-> [pc |-> "none", approvals |-> 0]]
  /\ followed = NoRun /\ posting = {} /\ deaths = 0

-----------------------------------------------------------------------------
(* Playbook runs. *)

At(r, pc) == exec[r].pc = pc
ExecTo(r, pc) == exec' = [exec EXCEPT ![r].pc = pc]

AcceptPlan(r) ==
    /\ status[r] = "none"
    /\ status' = [status EXCEPT ![r] = "running"]
    /\ ExecTo(r, "begin")
    /\ UNCHANGED turnVars /\ Quiet

PlanBegins(r) ==
    /\ At(r, "begin")
    /\ Publish(r, <<"run.started">>)
    /\ ExecTo(r, "work")
    /\ UNCHANGED <<status, turnVars>>

(* The run is left open for an approval, which nothing times out. *)
PlanPauses(r) ==
    /\ At(r, "work")
    /\ Publish(r, <<"approval.required">>)
    /\ ExecTo(r, "waiting")
    /\ UNCHANGED <<status, turnVars>>

PlanFinishes(r) ==
    /\ At(r, "work")
    /\ \E outcome \in {"completed", "blocked"} :
         /\ status' = [status EXCEPT ![r] = outcome]
         /\ ExecTo(r, outcome)
    /\ UNCHANGED turnVars /\ Quiet

PlanTells(r) ==
    /\ exec[r].pc \in {"completed", "blocked"}
    /\ Publish(r, IF At(r, "completed") THEN <<"truth_card", "message", "run.done">>
                  ELSE <<"truth_card", "run.error">>)
    /\ ExecTo(r, "over")
    /\ UNCHANGED <<status, turnVars>>

(* POST /runs/:id/approve executes the plan again, whatever the run's status. *)
Approve(r) ==
    /\ exec[r].pc \in {"waiting", "over", "dead"}
    /\ exec[r].approvals < MaxApprovals
    /\ exec' = [exec EXCEPT ![r] = [pc |-> "begin", approvals |-> @.approvals + 1]]
    /\ UNCHANGED <<eventVars, turnVars, pageVars, deaths>>

PlanStep(r) == PlanBegins(r) \/ PlanPauses(r) \/ PlanFinishes(r) \/ PlanTells(r)

-----------------------------------------------------------------------------
(* The page. *)

(* runAgent, from the composer, a panel or the answer to a question. *)
RunAgent(r) ==
    /\ status[r] = "none" /\ r \notin posting
    /\ posting' = posting \union {r}
    /\ UNCHANGED <<eventVars, turnVars, exec, followed, deaths>>

Reaches(r) ==
    /\ r \in posting
    /\ \/ r \in ChatRuns /\ AcceptMessage(r) /\ UNCHANGED exec
       \/ r \in PlanRuns /\ AcceptPlan(r)
    /\ UNCHANGED <<pageVars, deaths>>

(* The stream the page reads is aborted, and the one of run r, if any, is asked for. *)
Follow(r) ==
    /\ followed' = r
    /\ stream' = [s \in Runs |-> IF s = r THEN "asked"
                                 ELSE IF s = followed /\ stream[s] # "told" THEN "off" ELSE stream[s]]
    /\ UNCHANGED <<status, busVars, rows, heard, lost, turnVars, exec, deaths>>

PostReturns(r) ==
    /\ r \in posting /\ status[r] # "none"
    /\ posting' = posting \ {r}
    /\ Follow(r)

PostFails(r) ==
    /\ r \in posting
    /\ posting' = posting \ {r}
    /\ UNCHANGED <<eventVars, turnVars, exec, followed, deaths>>

(* The page opens another thread or a saved setup, or is closed. *)
Leave ==
    /\ followed # NoRun
    /\ Follow(NoRun)
    /\ UNCHANGED posting

-----------------------------------------------------------------------------
StreamStep(r) == StreamReadsRow(r) \/ StreamSynthesizes(r) \/ StreamFollows(r)
BusStep(r) == Persist(r) \/ (r \notin posting /\ Expire(r)) \/ StreamStep(r)

LosesInsert(r) == /\ dbErrors < MaxDbErrors /\ dbErrors' = dbErrors + 1
                  /\ PersistFails(r)
                  /\ UNCHANGED <<turn, thread, exec, pageVars, deaths>>

AgentDies ==
    /\ deaths < MaxDeaths /\ deaths' = deaths + 1
    /\ BusDies /\ TurnsDie
    /\ exec' = [r \in PlanRuns |-> IF exec[r].pc \in {"none", "waiting", "over"} THEN exec[r]
                                   ELSE [exec[r] EXCEPT !.pc = "dead"]]
    /\ UNCHANGED pageVars

CopilotNext ==
    \/ \E r \in ChatRuns : (TurnStep(r) \/ Throws(r)) /\ UNCHANGED <<exec, pageVars, deaths>>
    \/ \E r \in PlanRuns : \/ PlanStep(r) /\ UNCHANGED <<pageVars, deaths>>
                           \/ Approve(r)
    \/ \E r \in Runs : \/ BusStep(r) /\ UNCHANGED <<turnVars, exec, pageVars, deaths>>
                       \/ RunAgent(r) \/ Reaches(r) \/ PostReturns(r) \/ PostFails(r)
                       \/ LosesInsert(r)
    \/ Leave \/ AgentDies

CopilotSpec == CopilotInit /\ [][CopilotNext]_copilotVars

(* While the agent runs, every await of a turn resolves, inserts end, and streams *)
(* that are asked for are opened.                                                 *)
CopilotFairness ==
    /\ \A r \in ChatRuns : WF_copilotVars(TurnStep(r) /\ UNCHANGED <<exec, pageVars, deaths>>)
    /\ \A r \in Runs :
         /\ WF_copilotVars(Persist(r) /\ UNCHANGED <<turnVars, exec, pageVars, deaths>>)
         /\ WF_copilotVars(StreamStep(r) /\ UNCHANGED <<turnVars, exec, pageVars, deaths>>)

FairCopilotSpec == CopilotSpec /\ CopilotFairness

-----------------------------------------------------------------------------
(* A page that connects at any moment, before the run's first event, in the       *)
(* middle or after the end, is sent every event of a chat turn from the first,    *)
(* once, in order and nothing behind its end; of a playbook run that is started   *)
(* again no gap (bus.ts:72, server.ts:743-768).                                   *)
StreamsInOrder ==
    \A r \in Runs :
        /\ \A i \in 1 .. Len(heard[r]) - 1 :
              heard[r][i + 1] = heard[r][i] + 1 /\ published[r][heard[r][i]] \notin Terminal
        /\ r \in ChatRuns /\ heard[r] # <<>> => heard[r][1] = 1

(* Whoever is told that a turn is done can read its answer in the thread and its  *)
(* end in the run's row, and once the inserts are through the events table holds  *)
(* the whole turn (engine.ts:336-345, bus.ts:42).                                 *)
DoneIsDurable ==
    \A r \in ChatRuns : turn[r].pc = "ended" =>
        /\ "run.done" \in ToSet(published[r]) =>
              /\ status[r] = turn[r].outcome
              /\ [role |-> "assistant", run |-> r] \in ToSet(thread)
        /\ saving[r] = {} /\ ~ lost =>
              \A i \in DOMAIN published[r] :
                  [type |-> published[r][i], seq |-> i, n |-> i] \in rows[r]

(* While the agent lives, a page that follows a turn is told its end: whatever     *)
(* the model, the tools and the database answer, and however late the page         *)
(* connects (engine.ts:346-353, server.ts:744).                                    *)
EndIsTold ==
    \A r \in ChatRuns :
        followed = r ~> stream[r] = "told" \/ followed # r \/ deaths > 0
=============================================================================
