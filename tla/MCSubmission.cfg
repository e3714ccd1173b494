SPECIFICATION FairSpec
CONSTANTS
  Sigs <- TwoSigs
  Accounts <- TwoAccounts
  Nonces <- TwoBlocks
  BaseTarget = 2
  Target <- SomeTargets
  Modes <- Both
  MaxBlocks = 2
  MaxFaults = 1
  MayFlip = FALSE
  BusyModes <- WalletOnly
  NoBest = 9
INVARIANTS
  BestNotLost
  FindsBest
PROPERTIES
  NeverWorse
  Delivered
