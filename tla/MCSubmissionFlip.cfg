SPECIFICATION Spec
CONSTANTS
  Sigs <- TwoSigs
  Accounts <- OneAccount
  Nonces <- FewNonces
  BaseTarget = 2
  Target <- NoTargets
  Modes <- PoolOnly
  MaxBlocks = 3
  MaxFaults = 0
  MayFlip = TRUE
  BusyModes <- WalletOnly
  NoBest = 9
INVARIANTS
  BestNotLost
