CONSTANTS
  MaxConns = 3
  MaxMessages = 3
  MaxAgentActs = 2
  MaxAttempts = 4
  Faults = {"break", "reload", "error", "cutoff"}
SPECIFICATION FairSpec
CHECK_DEADLOCK FALSE
INVARIANTS
  TypeOK
  StuckOnlyIfCutOrUnawares
  HandoffIsReal
PROPERTY InputComesBack
