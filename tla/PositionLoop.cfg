CONSTANTS
  MinFreq = 1
  MaxFreq = 2
  ResetHz = 1
  TicksPerSec = 4
  IdleTimeout = 2
  Travel <- MCTravel
  SwitchAt <- MCSwitchAt
  Targets <- MCTargets
  Near = 1
  Threshold = 1
  Calls = {"start", "stop", "move_to", "home"}
SPECIFICATION FairSpec
INVARIANTS LatchedFaultIsStill
PROPERTIES KeepsContract MoveOkMeansArrived FaultEndsMove
