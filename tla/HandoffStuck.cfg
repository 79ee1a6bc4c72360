CONSTANTS
  Workers = {w1}
  Threads = {t1}
  RedisModes = {TRUE}
  MaxConnects = 2
  MaxEvents = 1
  MaxSaves = 2
  Faults = {}
  None = None
SPECIFICATION Spec
CHECK_DEADLOCK FALSE
INVARIANTS
  SettledIsOpen
