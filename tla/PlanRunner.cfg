SPECIFICATION MCSpec
CONSTANTS
  Tools <- MCTools
  Mutating <- MCMutating
  LiveStart <- MCLiveStart
  ManagedEntry <- MCLiveStart
  Publishing <- MCPublishing
  Optimizers = {}
  Backtests <- MCBacktests
  Plans <- AllPlans
  Execs = {e1, e2, e3}
  Overlap = TRUE
  MaxAborts = 1
INVARIANTS
  Consent
  PlanOrder
  CompletedMeansDone
  Floors
PROPERTIES
  NeverRerunInTurn
  ApprovalTakesEffect
