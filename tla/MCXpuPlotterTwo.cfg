SPECIFICATION FairSpec
CONSTANTS
  NumPaths = 2
  Warps <- TwoPathWarps
  Plots <- TwoPathPlots
  Space <- TwoPathSpace
  Leftovers <- AllLeftovers
  Nonces = 4
  Escalate = 2
  CpuThreads = 2
  CpuTaskSize = 1
  Gpus = 1
  WorkSize = 4
  WriteBuffers = 1
  MaxFiles = 2
  MaxFaults = 1
  MayStop = TRUE
INVARIANTS
  FilesRight
  HashersQuietAfterHandover
  OkMeansPlotted
PROPERTIES
  RunEnds
CHECK_DEADLOCK FALSE
