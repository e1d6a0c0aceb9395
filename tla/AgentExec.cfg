SPECIFICATION MCSpec
CONSTANTS
  Requests = {r1, r2}
  Users = {k1, k2, t1}
  Trader = t1
  Sink = sink
  Pool = pool
  Vault = vault
  FeeBps = 30
  PriceScale = 2
  Symbols = {"tsla", "nvda"}
  Listed = {"tsla"}
  Prices = {3, 5}
  Actions <- Trades_
  Launches <- Plans_
  LaunchUsd = {12}
  LaunchCap = 10
  MaxBuy = 10
  MaxBridge = 10
  MaxMoves = 1
  Owners = {o1}
  Specs = {s1, s2}
  Versions = {v1}
  Hashes = {h1, h2}
  Bars = {b1, b2}
  Askers = {q1}
  Attempts = {j1, j2}
  MaxCalls = 2
  MaxRuns = 2
  Markets = {btc}
  TickPrices = {1, 2}
  Handlers = {i1, i2}
  Required = 2
  MaxTicks = 4
  MaxRebuilds = 1
  MaxCreates = 2
  MaxLost = 1
SYMMETRY Symmetry
INVARIANTS
  PoolBacked
  AnswersAreHonest
  BridgedIsLocked
  EvidenceHolds
  SessionIsSound
PROPERTIES
  NoDilution
  OnlyPricesOpenADeficit
CHECK_DEADLOCK FALSE
