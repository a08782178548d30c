CONSTANTS
  TimClk = 200000000
  PeriodClocks = 4000000
  SlowFreq = 50
  FastFreq = 100000
  Significands = 1024
  MaxExp = 14
  Granule <- MCGranule
  One = 16
  CountsPerUnit = 388
  PosMin <- MCPosMin
  PosMax = 1600
  Homes <- MCHomes
  Positions <- MCPositions
SPECIFICATION Spec
INVARIANTS EdgesMatchFrequency TargetsKeepLimits
PROPERTY FasterIsFaster
