------------------------------ MODULE Triggers ------------------------------
(***************************************************************************)
(* The trigger engine: evaluateEvent and executeTriggerPlan of             *)
(* triggers/evaluator.ts from await to await, woken by the subscriber or   *)
(* the test endpoint, with the owner's trigger configuration, settings and *)
(* daily budget, and the promotion of a shadow trigger in server.ts.  The  *)
(* day does not end.  What makes an event a candidate of a trigger, the    *)
(* hour of the day and the review plans themselves are any outcome.        *)
(***************************************************************************)
EXTENDS RiskState

CONSTANTS Types,        \* trigger types in the order evaluateConditions tests them
          Events,       \* events, as far as their dedupe key: symbol, regime, bar bucket
          Evals,        \* evaluations in flight at a time
          Configs,      \* configurations an owner may give a type
          MaxPerDay,    \* triggerMaxPerDay
          MaxRuns,      \* maxRunsPerDay
          MaxFails,     \* bound: review plans and budget events that fail
          MaxChanges    \* bound: changes of the owner's settings and configuration

\* armed, default_mode = "live", cooldown_seconds > 0
ASSUME TypesAssumption == Types \in Seq(ToSet(Types)) /\ Types # <<>> /\ MaxPerDay \in Nat
ASSUME EvalsAssumption == IsFiniteSet(Evals)
ASSUME ConfigsAssumption == Configs \subseteq [armed : BOOLEAN, live : BOOLEAN, cools : BOOLEAN]

VARIABLES config,   \* agent_trigger_config by type
          settings, \* agent_enabled without disable_triggers, and is autonomy L2 or above?
          rows,     \* agent_trigger_events
          hot,      \* types and symbols that fired within a cooldown
          runs,     \* agent_budget_events of kind "run"
          eval,     \* evaluations
          fails, changes,
          racers,   \* history: the most evaluations past the dedupe of a key at a time
          crowd     \* history: the most fires on their way when a cap was found free

historyVars == <<racers, crowd>>
triggerVars == <<config, settings, rows, hot, runs, eval, fails, changes, historyVars>>

TypeSet == ToSet(Types)
NoEvent == [symbol |-> "none", regime |-> "none", bar |-> 0]
Asleep == [pc |-> "asleep", event |-> NoEvent, todo |-> {}, cfg |-> <<>>, level |-> FALSE,
           allowed |-> TRUE]

TriggersInit ==
  /\ config \in [TypeSet -> Configs]
  /\ settings \in [enabled : {TRUE}, L2 : BOOLEAN]
  /\ rows = <<>> /\ hot = {} /\ runs = 0
  /\ eval = [e \in Evals |-> Asleep]
  /\ fails = 0 /\ changes = 0
  /\ racers = [k \in TypeSet \X Events |-> 0] /\ crowd = 0

EvalAt(e, pc) == eval[e].pc = pc
EvalTo(e, pc) == eval' = [eval EXCEPT ![e].pc = pc]

\* Past the count of the day, until the row is written.
Railed == {"budget", "risk", "clear", "insert"}

\* The next candidate, or back to sleep.
Later(e, todo) == IF todo = {} THEN Asleep
                  ELSE [eval[e] EXCEPT !.pc = "dedupe", !.todo = todo, !.allowed = TRUE]

\* The candidates are gone through in the order in which they were tested.
Type(e) == Types[Min({i \in DOMAIN Types : Types[i] \in eval[e].todo})]
Skip(e) == eval' = [eval EXCEPT ![e] = Later(e, eval[e].todo \ {Type(e)})]

\* onBarClose, or POST /triggers/evaluate: the kill switches and the autonomy are read.
Wake(e) ==
  /\ EvalAt(e, "asleep")
  /\ settings.enabled
  /\ \E event \in Events :
       eval' = [eval EXCEPT ![e] = [Asleep EXCEPT !.pc = "config", !.event = event,
                                                  !.level = settings.L2]]
  /\ UNCHANGED <<riskVars, config, settings, rows, hot, runs, fails, changes, historyVars>>

\* The armed rows are read, and the candidates among them are found.
ReadConfig(e) ==
  /\ EvalAt(e, "config")
  /\ \E met \in SUBSET {t \in TypeSet : config[t].armed} :
       eval' = [eval EXCEPT ![e] = [Later(e, met)
                                      EXCEPT !.cfg = IF met = {} THEN <<>> ELSE config]]
  /\ UNCHANGED <<riskVars, config, settings, rows, hot, runs, fails, changes, historyVars>>

\* What the dedupe key of a row or of a candidate is made of, the owner apart.
RowKey(i) == <<rows[i].type, rows[i].event>>
Key(e) == <<Type(e), eval[e].event>>

\* Mutation: only a trigger that acted counts as fired.
SameActed(e) == {i \in DOMAIN rows : RowKey(i) = Key(e) /\ rows[i].acted}

\* The rows that have the dedupe key of this candidate.
Same(e) == {i \in DOMAIN rows : RowKey(i) = Key(e)}

\* The evaluations that found a key free and have not written their row.
Past(k) == {e \in Evals : eval[e].pc \in {"cooldown", "count"} \cup Railed /\ Key(e) = k}

\* Quiet hours, then the dedupe key.
Dedupe(e) ==
  /\ EvalAt(e, "dedupe")
  /\ \/ Skip(e) /\ UNCHANGED racers
     \/ /\ Same(e) = {}
        /\ EvalTo(e, "cooldown")
        /\ racers' = [racers EXCEPT ![Key(e)] = Max({@, Cardinality(Past(Key(e))) + 1})]
  /\ UNCHANGED <<riskVars, config, settings, rows, hot, runs, fails, changes, crowd>>

Cooldown(e) ==
  /\ EvalAt(e, "cooldown")
  /\ IF <<Type(e), eval[e].event.symbol>> \in hot /\ eval[e].cfg[Type(e)].cools
       THEN Skip(e) ELSE EvalTo(e, "count")
  /\ UNCHANGED <<riskVars, config, settings, rows, hot, runs, fails, changes, historyVars>>

Acted == {i \in DOMAIN rows : rows[i].acted}

\* Each rail may force the candidate to shadow.
Rail(e, ok, pc) ==
  eval' = [eval EXCEPT ![e].pc = pc, ![e].allowed = @ /\ ok]

\* Mutation: the cap is passed only when it was exceeded.
OverCapLate == Cardinality(Acted) > MaxPerDay

OverCap == Cardinality(Acted) >= MaxPerDay

\* The agent's own plans that execute and have not acted, and the evaluations that found
\* the cap free: what a count of acted rows does not see.
InFlight == {i \in DOMAIN rows : rows[i].agent = "plan" /\ ~rows[i].acted}
Counted == {e \in Evals : eval[e].pc \in Railed /\ eval[e].allowed}
OnTheWay == Cardinality(InFlight) + Cardinality(Counted)

CountDay(e) ==
  /\ EvalAt(e, "count")
  /\ Rail(e, ~OverCap, "budget")
  /\ crowd' = IF OverCap THEN crowd ELSE Max({crowd, OnTheWay})
  /\ UNCHANGED <<riskVars, config, settings, rows, hot, runs, fails, changes, racers>>

\* The day's runs, and its spending on models.
CheckBudget(e) ==
  /\ EvalAt(e, "budget")
  /\ \E spent \in BOOLEAN : Rail(e, runs < MaxRuns /\ ~spent, "risk")
  /\ UNCHANGED <<riskVars, config, settings, rows, hot, runs, fails, changes, historyVars>>

ReadRisk(e) ==
  /\ EvalAt(e, "risk")
  /\ IF Expired THEN EvalTo(e, "clear") ELSE Rail(e, risk.state # "halted", "insert")
  /\ UNCHANGED <<riskVars, config, settings, rows, hot, runs, fails, changes, historyVars>>

ClearExpired(e) ==
  /\ EvalAt(e, "clear")
  /\ ClearRisk
  /\ EvalTo(e, "insert")
  /\ UNCHANGED <<config, settings, rows, hot, runs, fails, changes, historyVars>>

\* The event is recorded; a live one is executed, and nobody waits for that.
Insert(e) ==
  /\ EvalAt(e, "insert")
  /\ LET live == eval[e].cfg[Type(e)].live /\ eval[e].level /\ eval[e].allowed
     IN rows' = Append(rows, [type |-> Type(e), event |-> eval[e].event, acted |-> FALSE,
                              shadow |-> ~live, agent |-> IF live THEN "plan" ELSE "none",
                              owner |-> "none"])
  /\ hot' = hot \cup {<<Type(e), eval[e].event.symbol>>}
  /\ Skip(e)
  /\ UNCHANGED <<riskVars, config, settings, runs, fails, changes, historyVars>>

(***************************************************************************)
(* executeTriggerPlan, of the agent's own fire or of a promotion (who).    *)
(***************************************************************************)

\* The plan ran and the row says so; or it threw, and the row is as it was.
Execute(i, who) ==
  /\ rows[i][who] = "plan"
  /\ \/ /\ rows' = [rows EXCEPT ![i].acted = TRUE, ![i].shadow = FALSE, ![i][who] = "budget"]
        /\ UNCHANGED fails
     \/ /\ fails < MaxFails /\ fails' = fails + 1
        /\ rows' = [rows EXCEPT ![i][who] = "failed"]
  /\ UNCHANGED <<riskVars, config, settings, hot, runs, eval, changes, historyVars>>

\* The budget event; an error of it is swallowed.
Charge(i, who) ==
  /\ rows[i][who] = "budget"
  /\ \/ runs' = runs + 1 /\ UNCHANGED fails
     \/ fails < MaxFails /\ fails' = fails + 1 /\ UNCHANGED runs
  /\ rows' = [rows EXCEPT ![i][who] = IF who = "owner" THEN "future" ELSE "done"]
  /\ UNCHANGED <<riskVars, config, settings, hot, eval, changes, historyVars>>

\* POST /shadow-mode: an event that has not acted is executed, whatever its mode.
Promote(i) ==
  /\ ~rows[i].acted
  /\ rows[i].owner \in {"none", "failed"}
  /\ rows' = [rows EXCEPT ![i].owner = "plan"]
  /\ UNCHANGED <<riskVars, config, settings, hot, runs, eval, fails, changes, historyVars>>

\* future_live makes the type live from now on.
Future(i) ==
  /\ rows[i].owner = "future"
  /\ rows' = [rows EXCEPT ![i].owner = "done"]
  /\ config' \in {config, [config EXCEPT ![rows[i].type].live = TRUE]}
  /\ UNCHANGED <<riskVars, settings, hot, runs, eval, fails, changes, historyVars>>

(***************************************************************************)
(* The owner's settings and configuration, and the clock.                  *)
(***************************************************************************)
Change ==
  /\ changes < MaxChanges
  /\ changes' = changes + 1
  /\ \/ settings' \in [enabled : BOOLEAN, L2 : BOOLEAN] \ {settings} /\ UNCHANGED config
     \/ /\ \E t \in TypeSet, c \in Configs : config' = [config EXCEPT ![t] = c]
        /\ UNCHANGED settings
  /\ UNCHANGED <<riskVars, rows, hot, runs, eval, fails, historyVars>>

Cool ==
  /\ hot # {}
  /\ \E t \in hot : hot' = hot \ {t}
  /\ UNCHANGED <<riskVars, config, settings, rows, runs, eval, fails, changes, historyVars>>

EvalStep(e) == \/ Wake(e) \/ ReadConfig(e) \/ Dedupe(e) \/ Cooldown(e) \/ CountDay(e)
               \/ CheckBudget(e) \/ ReadRisk(e) \/ ClearExpired(e) \/ Insert(e)

ExecutionStep(i) == \/ \E who \in {"agent", "owner"} : Execute(i, who) \/ Charge(i, who)
                    \/ Promote(i) \/ Future(i)

TriggersNext == \/ \E e \in Evals : EvalStep(e)
                \/ \E i \in DOMAIN rows : ExecutionStep(i)
                \/ Change \/ Cool

(***************************************************************************)
(* Properties                                                              *)
(***************************************************************************)

\* A trigger fires for one event (type, symbol, regime and bar) no more often than
\* evaluations of that event were past its dedupe at a time: once when they come one after
\* the other, live or shadow, acted or not (evaluator.ts:160-163).  The key has no unique
\* index and nothing locks it, so evaluations that overlap there may each fire.
RowsOf(k) == {i \in DOMAIN rows : RowKey(i) = k}
OncePerKey == \A k \in TypeSet \X Events : Cardinality(RowsOf(k)) <= racers[k]

\* The agent's own live fires of a day, in flight or executed, pass the cap by no more than
\* the most fires that were on their way when the cap was found free: the cap counts what
\* has acted, and neither an event's candidates nor the next event wait for a plan
\* (evaluator.ts:175-179, 203).
OwnFires == {i \in DOMAIN rows : rows[i].agent \in {"plan", "budget", "done"}}
WithinDayCap == Cardinality(OwnFires) <= MaxPerDay + crowd

\* Both, while evaluations overlap, plans of earlier events execute, fail and are promoted,
\* and settings change.
FiresAreBounded == OncePerKey /\ WithinDayCap
=============================================================================
