---------------------------- MODULE MCPlanRunner ----------------------------
(* PlanRunner on the plans of four playbooks: build_and_backtest_bot at L1,  *)
(* publish_verified_result at L2, a web trigger that would trade, and an L0  *)
(* proposal; and, for the floors, on the plans of one step.                  *)
EXTENDS PlanRunner

MCTools == {"data_coverage", "run_bot_backtest", "start_live_paper", "publish_passport"}
MCMutating == MCTools \ {"data_coverage"}
MCLiveStart == {"start_live_paper"}
MCPublishing == {"publish_passport"}
MCBacktests == {"run_bot_backtest"}

Ample == [steps |-> 4, runs |-> 4, sweeps |-> 0, lives |-> 1]

PlanOf(level, playbook, steps, web) ==
  [level |-> level, playbook |-> playbook, steps |-> steps, budgets |-> Ample,
   inputs |-> TRUE, web |-> web, notes |-> FALSE, exitPolicy |-> "valid"]

Free(tool) == [tool |-> tool, requiresApproval |-> FALSE, gate |-> FALSE, toggles |-> FALSE]
WithGate(tool) == [tool |-> tool, requiresApproval |-> TRUE, gate |-> TRUE, toggles |-> FALSE]

Research == [allowed |-> {"data_coverage", "run_bot_backtest"},
             minAutonomy |-> "L1", wantsApproval |-> {"run_bot_backtest"}]
Publish == [allowed |-> MCTools, minAutonomy |-> "L2", wantsApproval |-> MCPublishing]

RunPlans ==
  {PlanOf("L1", Research, <<Free("data_coverage"), WithGate("run_bot_backtest"),
                            WithGate("run_bot_backtest")>>, FALSE),
   PlanOf("L2", Publish, <<Free("start_live_paper"), WithGate("publish_passport"),
                           Free("data_coverage")>>, FALSE),
   PlanOf("L2", Publish, <<Free("data_coverage"), Free("run_bot_backtest")>>, TRUE),
   PlanOf("L0", Research, <<Free("data_coverage")>>, FALSE)}

OneStepPlans ==
  [level : {"L0", "L1", "L2"},
   playbook : [allowed : {MCTools, MCTools \ MCLiveStart},
               minAutonomy : {"L0", "L2"}, wantsApproval : {MCPublishing}],
   steps : {<<[step EXCEPT !.toggles = toggles]>> :
              step \in UNION {{Free(tool), WithGate(tool)} : tool \in MCTools},
              toggles \in BOOLEAN},
   budgets : {Ample}, inputs : {TRUE},
   web : BOOLEAN, notes : BOOLEAN, exitPolicy : {"invalid", "valid"}]

AllPlans == RunPlans \cup OneStepPlans

(***************************************************************************)
(* The owner decides whenever there is something to decide, or only when   *)
(* no execution is in flight.                                              *)
(***************************************************************************)
VARIABLE part

\* The executions are interchangeable: they are used in one order.
Order == CHOOSE f \in [1..Cardinality(Execs) -> Execs] : {f[i] : i \in DOMAIN f} = Execs
InOrder == \A i \in 2..Cardinality(Execs) : pc[Order[i]] # "new" => pc[Order[i - 1]] # "new"

Active(e) == pc[e] \in InFlight \cup {"approve", "deny"}
Serial == \A d, e \in Execs : Active(d) /\ Active(e) => d = e

\* Two executions overlap at a time, and after an abort the third follows them.
InPairs == /\ Cardinality({e \in Execs : Active(e)}) <= 2
           /\ aborts > 0 /\ pc[Order[Cardinality(Execs)]] \notin {"new", "ended"} => Serial

Within == /\ InOrder
          /\ IF part = "serial" THEN Serial ELSE plan \in RunPlans /\ InPairs

MCInit == Init /\ part \in {"overlap", "serial"} /\ Within

MCSpec == /\ MCInit
          /\ [][Next /\ UNCHANGED part /\ Within']_<<vars, part>>
          /\ Fairness

RerunSpec == Init /\ part = "overlap" /\ [][Next /\ UNCHANGED part]_<<vars, part>>

\* A step that has completed is not called again, as long as the executions of the
\* run follow one another (runner.ts:41-43).
NeverRerunInTurn ==
  [][part = "serial" => \A i \in Steps : i \in Completed => calls'[i] = calls[i]]_vars

\* Then an approved row is acted upon: its step reaches the Lab, unless an execution
\* dies (server.ts:375-381).
ApprovalTakesEffect ==
  \A i \in UNION {StepsOf(p) : p \in Plans} :
    (part = "serial" /\ \E r \in DOMAIN approvals : approvals[r] = Row(i, "approved"))
      ~> ((i \in Steps /\ calls[i] > 0) \/ aborts > 0)
=============================================================================
