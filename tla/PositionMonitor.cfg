SPECIFICATION MCSpec
CONSTANTS
  Policies <- AllPolicies
  Marks = {94, 97, 100, 103, 104, 106, 108}
  Feeds = {f1}
  Sweeps = {s1}
  Overlap = TRUE
  MaxReduces = 2
  MaxErrors = 1
  MaxCrashes = 1
  MaxBar = 3
  PollLimit = 2
  PageSize = 3
  Lookback = 2
  Attempts = 2
  Polls = {p1}
  Fills = {r1, r2}
  MaxInbox = 1
  MaxLosses = 1
  Prices = {bid, ask}
  Sizes = {0, 1}
  MaxSeq = 4
  MaxWire = 2
  MaxBreaks = 2
  Runs = {"c1", "p1"}
  ChatRuns = {"c1"}
  MaxInFlight = 2
  MaxRounds = 2
  CallLists <- TwoLists
  MaxDbErrors = 1
  MaxApprovals = 1
  MaxDeaths = 1
CHECK_DEADLOCK FALSE
INVARIANTS
  OneExit
  ClosedMeansStopped
  LadderKept
  ScansAreExact
  RecordedBookIsTheVenues
  StreamsInOrder
  DoneIsDurable
PROPERTIES
  ClosedIsFinal
  StopNeverLoosens
  DeadlineClosesInTurn
  FinalInTheEnd
  EndIsTold
