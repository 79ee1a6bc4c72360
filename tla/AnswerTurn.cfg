CONSTANTS
  Turns = {t1, t2}
  Lookups = {billInfo, legislator}
  BillInfo = billInfo
  MaxPieces = 1
  Faults = {"retrieval", "model", "cutoff", "leave"}
  None = None
SPECIFICATION FairSpec
CHECK_DEADLOCK FALSE
INVARIANTS
  TypeOK
  NoLookupOutlivesTurn
  SavedWasShownWhole
  RecordsAgree
PROPERTIES
  OneEnding
  AnswerEnds
