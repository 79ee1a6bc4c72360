CONSTANTS
  Workers = {w1, w2}
  Tasks = {t1, t2}
  Objects = {o1, o2, o3, o4}
  Events = {e1, e2}
  Faults = {"read", "write", "expiry", "crash"}
  None = None
SPECIFICATION Spec
SYMMETRY Symmetry
CHECK_DEADLOCK FALSE
INVARIANTS
  TypeOK
  CalmVisitSeesEverything
  CalmQuiescenceIsDurable
  CalmSaveIsNotRefused
PROPERTY RegressesOnlyByRaceOrBlindness
