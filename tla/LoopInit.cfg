SPECIFICATION FairSpec
CONSTANTS
  p1 = p1
  p2 = p2
  s1 = s1
  position = position
  speed = speed
  timer4 = timer4
  timer5 = timer5
  motor1 = motor1
  motor2 = motor2
  None = None
  Loops <- MCLoops
  Kinds <- MCKinds
  Timers <- MCTimers
  Motors <- MCMotors
  Kind <- MCKind
  Timer <- MCTimer
  Motor <- MCMotor
  MaxValue = 2
INVARIANT IsrFindsOwner
PROPERTY InitedLoopRuns
CHECK_DEADLOCK FALSE
