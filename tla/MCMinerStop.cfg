SPECIFICATION FairSpec
CONSTANTS
  NumChains = 1
  ReadBuffers = 1
  MaxDisks = 1
  Setups <- OnePlotStops
PROPERTIES
  ShutdownEndsScan
CHECK_DEADLOCK FALSE
