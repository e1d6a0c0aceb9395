SPECIFICATION OverlapSpec
CONSTANTS
  HaltDrawdown = 25
  HaltLosses = 3
  AverseCvar = 10
  AverseLosses = 2
  Window = 30
  TailPart = 10
  Positions = {p1, p2}
  Returns <- MCReturns
  MaxErrors = 0
  MaxPosts = 0
  Types <- MCTypes
  Events <- MCEvents
  Evals = {e1}
  Configs <- MCConfigs
  MaxPerDay = 1
  MaxRuns = 2
  MaxFails = 1
  MaxChanges = 1
PROPERTIES
  OnlyExpiryLowers
CHECK_DEADLOCK FALSE
