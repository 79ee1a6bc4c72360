CONSTANTS
  Turns = {t1}
  Lookups = {billInfo}
  BillInfo = billInfo
  MaxPieces = 1
  Faults = {"cutoff"}
  None = None
SPECIFICATION Spec
CHECK_DEADLOCK FALSE
INVARIANTS
  StreamIsEnded
