SPECIFICATION Spec
CONSTANTS
  Sigs <- TwoSigs
  Accounts <- OneAccount
  Nonces <- FewNonces
  BaseTarget = 2
  Target <- NoTargets
  Modes <- PoolOnly
  MaxBlocks = 2
  MaxFaults = 1
  MayFlip = FALSE
  BusyModes <- PoolOnly
  NoBest = 9
PROPERTIES
  BusyIsRetried
