CONSTANTS
  Unit = 10
  LoopUnits = 500
  MaxAccel = 2000
  Jerk = 250
  RampMax = 500000
  SpeedLimit = 500000
  LeadMin = 200
  LeadMax = 2000
  Near = 20
  PerCount = 270
  NearMin = 500
  NearMax = 5000
  CorrLimit = 25000
  Kp = 50
  Ki = 5
  Kd = 1
  ErrorLimit = 50000
  OutputLimit = 500000
  IntegralLimit = 50000000
  Fine = 80
  TimClk = 200000000
  PeriodClocks = 4000000
  SlowFreq = 50
  FastFreq = 100000
  Threshold = 20
  Decel = 15000
  Shafts <- MCShafts
  Goals <- MCTargets
  Noise <- MCNoNoise
  MaxMoves = 2
  Excess = 50
  Deadline = 150
SPECIFICATION ServoSpec
INVARIANTS OvershootIsBounded SettlesInTime
PROPERTIES ArrivalIsFinal
