SPECIFICATION Spec
CONSTANTS
  NumChains = 2
  ReadBuffers = 1
  MaxDisks = 1
  Setups <- NoneForFirst
PROPERTIES
  NeverBackToOldBlock
CHECK_DEADLOCK FALSE
