SPECIFICATION Spec
CONSTANTS
  NumPaths = 2
  Warps <- FillWarps
  Plots <- FillPlots
  Space <- FillSpace
  Leftovers <- NoLeftovers
  Nonces = 4
  Escalate = 1
  CpuThreads = 2
  CpuTaskSize = 1
  Gpus = 1
  WorkSize = 4
  WriteBuffers = 1
  MaxFiles = 2
  MaxFaults = 0
  MayStop = FALSE
INVARIANTS
  OkMeansPlotted
CHECK_DEADLOCK FALSE
