CONSTANTS
  Unit = 20
  Scale = 1
  Kp = 20
  Ki = 4
  Kd = 1
  ErrorLimit = 5000
  OutputLimit = 2000000
  IntegralLimit = 80000000
  SpeedLimit = 100000
  MaxAccel = 4000
  Threshold = 1000
  Fine = 80
  TimClk = 200000000
  PeriodClocks = 4000000
  SlowFreq = 50
  FastFreq = 100000
  Positions <- MCPositions
  Invert = TRUE
  Targets <- MCTargets
  MaxTargets = 2
  Deadline = 135
  Band = 60
  Excess = 65
  Kick = 3500
SPECIFICATION Spec
INVARIANTS SpeedSettles OvershootIsBounded
