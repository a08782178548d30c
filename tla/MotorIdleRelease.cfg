CONSTANTS
  t1 = t1
  t2 = t2
  Threads <- SoloThreads
  Calls <- IdleCalls
  Freqs = {0, 4}
  Rates = {0, 1}
  Backoffs = {0}
  Timeouts = {2}
  MaxAge = 3
  MaxSteps = 2
  MinFreq = 2
  MaxFreq = 4
  ResetHz = 1
  TicksPerSec = 2
  IdleTimeout = 1
SPECIFICATION Spec
INVARIANT ReleasedOnlyWhenStopped
