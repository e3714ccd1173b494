SPECIFICATION Spec
CONSTANTS
  Miners = {m1, m2}
  Account <- OneAccount
  Qualities = {3, 4}
  MaxQuality = 5
  BlockTime = 1
  GenesisBaseTarget = 4
  TimeOf <- TimeOfOne
  Lookback = 2
  MinPercent = 80
  MaxPercent = 120
  MaxHeight = 2
  MaxTasks = 2
  MaxAge = 2
  SetTo <- BackOrOn
  MaxClockSets = 1
  MaxRestarts = 1
  MaxFaults = 1
CONSTRAINT TwoUpsets
SYMMETRY Symmetry
INVARIANTS
  ForgedForItsBlock
  ForgedOnTime
  BestBacked
