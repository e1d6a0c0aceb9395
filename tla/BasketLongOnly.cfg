SPECIFICATION BasketSpec
CONSTANTS
  StartingEquity = 1000
  MaxPositionPct = 100
  MaxExposurePct = 100
  MaxDailyLossPct = 6
  MaxDrawdownPct = 8
  TakerFee = 2
  MakerFee = 1
  Slip = 1
  OrderQty = 4
  TrailOffset = 10
  Spread = 3
  MaxInventory = 6
  BarsPerDay = 4
  Warmup <- Quiet
  Strategies <- Trend
  Shapes <- RiseFall
  Outages = FALSE
  Revisions = FALSE
  Overlap = FALSE
  MaxGap = 0
  MaxBars = 4
  MaxCreates = 1
  MaxCrashes = 1
  MaxErrors = 0
  Legs <- StockAndPerp
  OffHours = {}
  TimesPerDay = 3
  LegSlip = 1
  OffHoursSlip = 3
  LegFeeBps = 10
  ThresholdPct = 5
  Lookback = 1
  TopN = 1
  DayLossPct = 15
  KillPct = 18
  Schemes = {"momentum"}
  LegBars <- Steps
  BarsLimit = 2
  MaxColumns = 5
  MaxFailures = 0
INVARIANTS LongOnly
CHECK_DEADLOCK FALSE
