SPECIFICATION MCSpec
CONSTANTS
  StartingEquity = 1000
  MaxPositionPct = 100
  MaxExposurePct = 100
  MaxDailyLossPct = 6
  MaxDrawdownPct = 8
  TakerFee = 2
  MakerFee = 1
  Slip = 1
  OrderQty = 4
  TrailOffset = 22
  Spread = 3
  MaxInventory = 6
  BarsPerDay = 4
  Warmup <- Quiet
  Strategies <- Both
  Shapes <- RiseFallSlump
  Outages = TRUE
  Revisions = TRUE
  Overlap = TRUE
  MaxGap = 0
  MaxBars = 7
  MaxCreates = 1
  MaxCrashes = 1
  MaxErrors = 1
  Legs <- StockAndPerp
  OffHours = {3}
  TimesPerDay = 3
  LegSlip = 1
  OffHoursSlip = 3
  LegFeeBps = 10
  ThresholdPct = 5
  Lookback = 1
  TopN = 1
  DayLossPct = 15
  KillPct = 18
  Schemes = {"fixed", "momentum"}
  LegBars <- UpDownGap
  BarsLimit = 2
  MaxColumns = 4
  MaxFailures = 1
INVARIANTS BooksBalance FedOnce BasketRunsAreSound
PROPERTIES KilledStaysFlat SessionsCatchUp
CHECK_DEADLOCK FALSE
