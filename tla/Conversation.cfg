CONSTANTS
  Workers = {w1, w2}
  MaxConns = 3
  MaxMessages = 3
  MaxRevisions = 2
  Pages <- PagesOfAllKinds
  Faults = {"write", "expiry", "crash"}
  None = None
SPECIFICATION Spec
SYMMETRY Symmetry
CONSTRAINT Orderly
CHECK_DEADLOCK FALSE
INVARIANTS
  TypeOK
  OrderlyLog
  NewestIsRegistered
