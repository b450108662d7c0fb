CONSTANTS
  p1 = p1
  Default = Default
  Providers = {p1}
  Configs <- MCConfigs
  MaxAge = 4
  MaxStreak = 3
SPECIFICATION HFairSpec
INVARIANTS
  BreakerTypeOK
  RowsCoherent
PROPERTIES
  OpenIsLeftCooled
  KeepsPromise
  OpenEnds
