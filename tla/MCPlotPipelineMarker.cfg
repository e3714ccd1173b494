SPECIFICATION Spec
CONSTANTS
  MaxPaths = 1
  Warps <- ThreeWarps
  Escalate = 2
  Jobs <- OneFile
  MaxPlots = 1
  MaxRuns = 1
INVARIANTS
  CompletedHasNoMarker
CHECK_DEADLOCK FALSE
