CONSTANTS
  MinFreq = 1
  MaxFreq = 6
  ResetHz = 1
  TicksPerSec = 1
  IdleTimeout = 0
  Kp = 1
  Ki = 1
  Kd = 1
  ErrorLimit = 2
  OutputLimit = 6
  IntegralLimit = 7
  Unit = 1
  Scale = 1
  SpeedLimit = 6
  MaxAccel = 2
  Threshold = 1
  Targets <- MCTargets
  Speeds <- MCSpeeds
  MaxPeriods = 2
SPECIFICATION Spec
INVARIANTS TypeOK
PROPERTIES KeepsContract MotorFollowsRamp StartIsFresh RenewalDropsIntegral
