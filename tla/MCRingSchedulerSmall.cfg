SPECIFICATION FairSpec
CONSTANTS
  NumPaths = 2
  Warps <- TwoPathWarps
  Plots <- TwoPathPlots
  Escalate = 2
  Passes = 2
  C = 4
  WorkSizes <- SmallWorkSizes
  U64 = 1000
  NumBuffers = 2
  MayStop = TRUE
  MaxFaults = 1
INVARIANTS
  WarpsRight
  NoncesMatchWarps
  LoopAdvances
PROPERTIES
  SchedulerEnds
CHECK_DEADLOCK FALSE
