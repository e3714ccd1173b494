SPECIFICATION Spec
CONSTANTS
  Miners = {m1, m2}
  Account <- OneAccount
  Qualities = {3, 4, 8}
  MaxQuality = 9
  BlockTime = 1
  GenesisBaseTarget = 4
  TimeOf <- TimeOfOne
  Lookback = 2
  MinPercent = 80
  MaxPercent = 120
  MaxHeight = 2
  MaxTasks = 3
  MaxAge = 2
  SetTo <- BackOrOn
  MaxClockSets = 0
  MaxRestarts = 0
  MaxFaults = 0
PROPERTIES
  InterruptedByBetter
