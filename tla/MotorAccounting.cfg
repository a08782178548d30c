CONSTANTS
  Threads = {t1, t2}
  Calls <- CountingCalls
  Freqs = {0, 1, 5}
  Rates = {0}
  Backoffs = {0}
  Timeouts = {1}
  MaxAge = 2
  MaxSteps = 2
  MaxSamples = 3
  MaxStray = 4
  MinFreq = 2
  MaxFreq = 4
  ResetHz = 1
  TicksPerSec = 3
  IdleTimeout = 0
SPECIFICATION ASpec
INVARIANTS TypeOK FlagsMatchHardware OnlyStrayPulsesAreLost
