CONSTANTS
  Parts = {"button", "bill", "request", "vote", "turn", "context"}
  None = None
  Workers = {w1, w2}
  Tasks = {t1, t2}
  MaxBacklog = 1
  ButtonKinds = {"legacy", "canonical"}
  Faults = {"disconnect", "restart", "lookup", "redis"}
  MaxVersion = 2
  BillQuestions <- MCBillQuestions
  Years = 4
  Pending = Pending
  NotFound = NotFound
  GaveUp = GaveUp
  People <- Legislators
  Records <- MCRecords
  MaxRounds = 3
  MaxAttempts = 3
  PageQuestions <- MCPageQuestions
  Indexes <- MCIndexes
  MaxChunks = 2
  LookupK = 3
  Subject = "b1"
SPECIFICATION Spec
SYMMETRY Symmetry
CHECK_DEADLOCK FALSE
INVARIANTS
  TypesOK
  SavedAnswersAreFresh
  OneSubject
  ContextIsOfItsBill
  NothingOutlives
  VoterIsFound
  ReportIsTrue
PROPERTIES
  NewestSessionWins
