CONSTANTS
  MinFreq = 1
  MaxFreq = 5
  ResetHz = 1
  TicksPerSec = 1
  IdleTimeout = 0
  Accel = 2
  FreqHz = 2
  Speeds <- AllSpeeds
  Lengths <- AllLengths
  MaxAcc = 16
SPECIFICATION FairSpec
INVARIANTS TypeOK MoveEndsNear
PROPERTIES KeepsContract RampIsSmooth MoveComesToRest
