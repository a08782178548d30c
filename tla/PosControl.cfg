CONSTANTS
  Unit = 1
  LoopUnits = 2
  MaxAccel = 2
  Jerk = 1
  RampMax = 3
  SpeedLimit = 3
  LeadMin = 1
  LeadMax = 2
  Near = 0
  PerCount = 1
  NearMin = 1
  NearMax = 2
  CorrLimit = 1
  Kp = 1
  Ki = 2
  Kd = 2
  ErrorLimit = 1
  OutputLimit = 2
  IntegralLimit = 2
  Positions <- MCPositions
  Targets <- MCTargets
  Brakes <- MCBrakes
SPECIFICATION Spec
INVARIANTS TypeOK IntegralIsLimited
PROPERTIES RampIsSmooth RampStaysBefore RampStaysNearMotor StartHoldsPosition
