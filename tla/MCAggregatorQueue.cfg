SPECIFICATION FairSpec
CONSTANTS
  Offers <- TwoAccounts
  Modes <- Both
  MaxTracked = 1
  MaxRetries = 1
  MaxFaults = 2
  MayAge = TRUE
INVARIANTS
  BestHeld
  SendsBest
PROPERTIES
  Drains
CHECK_DEADLOCK FALSE
