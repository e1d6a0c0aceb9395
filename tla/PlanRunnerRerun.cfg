SPECIFICATION RerunSpec
CONSTANTS
  Tools <- MCTools
  Mutating <- MCMutating
  LiveStart <- MCLiveStart
  ManagedEntry <- MCLiveStart
  Publishing <- MCPublishing
  Optimizers = {}
  Backtests <- MCBacktests
  Plans <- RunPlans
  Execs = {e1, e2, e3}
  Overlap = TRUE
  MaxAborts = 0
PROPERTIES
  NeverRerun
