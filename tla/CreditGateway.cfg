SPECIFICATION MCSpec
CONSTANTS
  Owners = {o1}
  Keys = {k1, e1}
  EmbedKeys = {e1}
  GrantKeys = {g1}
  WelcomeKey = welcome
  Welcome = 5
  GrantSizes = {1}
  HoldSizes = {2, 4}
  Costs = {0, 3}
  StepCap = 3
  Calls = {c1, c2}
  MaxDbErrors = 1
  MaxCrashes = 1
INVARIANTS
  AuditTrail
  BooksAgree
  SettledBeforeTold
PROPERTIES
  ImplementsPrepaidCredit
  ImplementsCreditLedger
  HoldsSettle
