CONSTANTS
  Workers = {w1, w2}
  Tasks = {t1, t2}
  MaxVersion = 2
  MaxBacklog = 1
  Indexes = {"canonical"}
  Faults = {}
  None = None
SPECIFICATION Spec
CHECK_DEADLOCK FALSE
INVARIANTS
  NeverStalerThanUncached
