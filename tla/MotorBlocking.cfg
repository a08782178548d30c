CONSTANTS
  t1 = t1
  t2 = t2
  Threads <- PairThreads
  Calls <- BlockingCalls
  Freqs = {0, 5}
  Rates = {0, 3}
  Backoffs = {0, 1}
  Timeouts = {1}
  MaxAge = 2
  MaxSteps = 0
  MinFreq = 2
  MaxFreq = 4
  ResetHz = 1
  TicksPerSec = 2
  IdleTimeout = 0
SPECIFICATION FairSpec
PROPERTIES BrakeOnlySlows CallsReturn
