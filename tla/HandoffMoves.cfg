CONSTANTS
  Workers = {w1, w2}
  Threads = {t1}
  RedisModes = {TRUE, FALSE}
  MaxConnects = 3
  MaxEvents = 2
  MaxSaves = 2
  Faults = {"slack", "listener", "crash", "redis"}
  None = None
SPECIFICATION Spec
CONSTRAINT StillCalm
SYMMETRY Symmetry
CHECK_DEADLOCK FALSE
INVARIANTS
  TypeOK
  CalmHandoffSettles
  DirectHandoffIsOpen
