SPECIFICATION FairSpec
CONSTANTS
  NumChains = 2
  ReadBuffers = 1
  MaxDisks = 2
  Setups <- OneDiskOrTwo
INVARIANTS
  NeverIdleWithWork
  YieldsToBetterBlock
  ResumesOwnProgress
  FinishedIsScanned
PROPERTIES
  Settles
CHECK_DEADLOCK FALSE
