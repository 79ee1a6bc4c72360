CONSTANTS
  Workers = {w1, w2}
  Threads = {t1, t2}
  RedisModes = {TRUE}
  MaxConnects = 1
  MaxEvents = 2
  MaxSaves = 3
  Faults = {"redis"}
  None = None
SPECIFICATION FairSpec
CHECK_DEADLOCK FALSE
PROPERTIES
  RepliesArrive
  ResolvedReturns
INVARIANTS
  ShownInOrder
  OnlyItsMarkEnds
