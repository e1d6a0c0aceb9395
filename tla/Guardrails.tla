----------------------------- MODULE Guardrails -----------------------------
(***************************************************************************)
(* validatePlan (guardrails/index.ts): the decision taken for every step   *)
(* of a typed plan before any of them runs.  A pure function of the plan,  *)
(* its playbook and the tool classes of playbooks/toolClasses.ts.  A tool  *)
(* stands for itself, params only for what the rules read of them: whether *)
(* the required inputs are there and whether a step toggles determinism.   *)
(***************************************************************************)
EXTENDS Naturals, Sequences, FiniteSets

CONSTANTS Tools,        \* the Lab's tools
          Mutating,     \* MUTATING_TOOLS
          LiveStart,    \* LIVE_PAPER_START_TOOLS
          ManagedEntry, \* MANAGED_ENTRY_TOOLS
          Publishing,   \* PUBLISH_TOOLS
          Optimizers,   \* OPTIMIZER_TOOLS
          Backtests     \* BACKTEST_TOOLS

ASSUME ToolClassesAssumption ==
  /\ {Mutating, LiveStart, ManagedEntry, Publishing, Optimizers, Backtests}
       \subseteq SUBSET Tools
  /\ ManagedEntry \subseteq LiveStart
  /\ LiveStart \cup Publishing \subseteq Mutating

Levels == {"L0", "L1", "L1_5_shadow", "L2", "L3"}
Rank == [L0 |-> 0, L1 |-> 1, L1_5_shadow |-> 2, L2 |-> 3, L3 |-> 4]

Playbook == [allowed : SUBSET Tools, minAutonomy : Levels, wantsApproval : SUBSET Tools]

\* requires_approval, and whether approval_gates names the step.
Step == [tool : Tools, requiresApproval : BOOLEAN, gate : BOOLEAN, toggles : BOOLEAN]

Budgets == [steps : Nat, runs : Nat, sweeps : Nat, lives : Nat]

\* web: a trigger of a "web:" reference.  exitPolicy: absent, malformed or valid.
IsPlan(p) ==
  /\ p.playbook \in Playbook
  /\ p.level \in Levels
  /\ p.steps \in Seq(Step) \ {<<>>}
  /\ p.budgets \in Budgets
  /\ {p.inputs, p.web, p.notes} \subseteq BOOLEAN
  /\ p.exitPolicy \in {"none", "invalid", "valid"}

AtLeast(p, level) == Rank[p.level] >= Rank[level]

StepsOf(p) == DOMAIN p.steps
Tool(p, i) == p.steps[i].tool
Uses(p, tools) == {i \in StepsOf(p) : Tool(p, i) \in tools}

WithinBudgets(p) ==
  /\ Len(p.steps) <= p.budgets.steps
  /\ Cardinality(Uses(p, Backtests)) <= p.budgets.runs
  /\ Cardinality(Uses(p, Optimizers)) <= p.budgets.sweeps
  /\ Cardinality(Uses(p, LiveStart)) <= p.budgets.lives

\* A plan that opens a position carries a valid exit policy.
NoNakedEntry(p) == Uses(p, ManagedEntry) # {} => p.exitPolicy = "valid"

PlanRules(p) ==
  /\ AtLeast(p, p.playbook.minAutonomy)
  /\ p.inputs
  /\ WithinBudgets(p)
  /\ NoNakedEntry(p)

Gated(p, i) == p.steps[i].requiresApproval /\ p.steps[i].gate

WantsApproval(p, i) == Tool(p, i) \in p.playbook.wantsApproval

\* Mutation: a web trigger may trade.
ForbiddenToolWebTrades(p, i) ==
  \/ Tool(p, i) \notin p.playbook.allowed
  \/ p.level = "L0" /\ Tool(p, i) \in Mutating
  \/ Tool(p, i) \in LiveStart /\ ~AtLeast(p, "L2")
  \/ Tool(p, i) \in Publishing /\ ~Gated(p, i)

\* Rules 1 to 5: the allowlist and the floors of the tool classes.
ForbiddenTool(p, i) ==
  \/ Tool(p, i) \notin p.playbook.allowed
  \/ p.level = "L0" /\ Tool(p, i) \in Mutating
  \/ Tool(p, i) \in LiveStart /\ ~AtLeast(p, "L2")
  \/ Tool(p, i) \in Publishing /\ ~Gated(p, i)
  \/ p.web /\ Tool(p, i) \in Mutating

\* A gate that has to be declared and is not.
UndeclaredGate(p, i) ==
  IF WantsApproval(p, i)
  THEN ~AtLeast(p, "L2") /\ ~Gated(p, i)
  ELSE p.steps[i].requiresApproval /\ ~p.steps[i].gate

Blocked(p, i) ==
  ForbiddenTool(p, i) \/ UndeclaredGate(p, i) \/ (p.steps[i].toggles /\ ~p.notes)

\* Mutation: from L2 on the tools a playbook wants approved run without their gate.
DecisionAutoAtL2(p, i) ==
  IF Blocked(p, i) THEN "blocked"
  ELSE IF Gated(p, i) /\ ~AtLeast(p, "L2") THEN "needs_approval" ELSE "allow"

Decision(p, i) ==
  IF Blocked(p, i) THEN "blocked"
  ELSE IF Gated(p, i) THEN "needs_approval" ELSE "allow"

\* validatePlan(plan).ok
PlanOk(p) == PlanRules(p) /\ \A i \in StepsOf(p) : ~Blocked(p, i)
=============================================================================
