SPECIFICATION MCSpec
CONSTANTS
  HaltDrawdown = 25
  HaltLosses = 3
  AverseCvar = 10
  AverseLosses = 2
  Window = 30
  TailPart = 10
  Positions = {p1, p2, p3}
  Returns <- MCReturns
  MaxErrors = 1
  MaxPosts = 1
  Types <- MCTypes
  Events <- MCEvents
  Evals = {e1, e2}
  Configs <- MCConfigs
  MaxPerDay = 1
  MaxRuns = 2
  MaxFails = 1
  MaxChanges = 1
INVARIANTS
  UnwatchedCostsAFailure
  TrippedForCause
  FiresAreBounded
PROPERTIES
  LossesHalt
CHECK_DEADLOCK FALSE
