CONSTANTS
  Threads = {t1, t2}
  Half = 2
  MaxCount = 4
SPECIFICATION Spec
INVARIANTS TypeOK OverflowInTravel ReadIsCurrent
PROPERTY ImplementsCounter
