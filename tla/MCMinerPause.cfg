SPECIFICATION Spec
CONSTANTS
  NumChains = 2
  ReadBuffers = 1
  MaxDisks = 1
  Setups <- OnePlot
INVARIANTS
  ResumedIsScanned
CHECK_DEADLOCK FALSE
