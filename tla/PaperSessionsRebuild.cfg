SPECIFICATION SessionsSpec
CONSTANTS
  Markets = {btc}
  TickPrices = {1, 2}
  Handlers = {i1}
  Required = 2
  MaxTicks = 3
  MaxRebuilds = 2
  MaxCreates = 1
  MaxLost = 0
INVARIANTS
  RebuildableFromLog
CHECK_DEADLOCK FALSE
