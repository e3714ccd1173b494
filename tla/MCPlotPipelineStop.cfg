SPECIFICATION FairSpec
CONSTANTS
  MaxPaths = 1
  Warps <- ThreeWarps
  Escalate = 2
  Jobs <- OneFileFails
  MaxPlots = 1
  MaxRuns = 1
PROPERTIES
  StopTerminates
CHECK_DEADLOCK FALSE
