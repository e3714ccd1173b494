SPECIFICATION Spec
CONSTANTS
  NumPaths = 2
  Warps <- BothTwoWarps
  Plots <- OneFileEach
  Escalate = 1
  Passes = 1
  C = 4
  WorkSizes <- LargeWorkSizes
  U64 = 1000
  NumBuffers = 2
  MayStop = FALSE
  MaxFaults = 0
INVARIANT WarpsRight
CHECK_DEADLOCK FALSE
