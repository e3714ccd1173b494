SPECIFICATION FairSpec
CONSTANTS
  MaxPaths = 2
  Warps <- ThreeAndOne
  Escalate = 2
  Jobs <- OnePathOrTwo
  MaxPlots = 2
  MaxRuns = 2
INVARIANTS
  MarkerCoversWarps
  FinishedIsRight
  OkMeansWritten
PROPERTIES
  ImplementsDirectory
  LastRunFinishes
CHECK_DEADLOCK FALSE
