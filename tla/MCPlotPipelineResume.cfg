SPECIFICATION Spec
CONSTANTS
  MaxPaths = 1
  Warps <- ThreeWarps
  Escalate = 2
  Jobs <- OneFile
  MaxPlots = 1
  MaxRuns = 2
INVARIANTS
  EveryLeftoverResumes
CHECK_DEADLOCK FALSE
