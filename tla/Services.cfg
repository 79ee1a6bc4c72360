CONSTANTS
  Parts = {"embedding", "roster", "probe", "start", "broker", "cms"}
  None = None
  Callers = {"c1", "c2"}
  Texts = {"t1", "t2", "t3"}
  Requests = {"r1", "r2", "r3"}
  Kept = 1
  Visitors = {"v1", "v2", "v3"}
  MaxChanges = 2
  Polls = {"p1", "p2", "p3"}
  MaxDrops = 2
  Connections = {"c1", "c2", "c3", "c4"}
  Bills = {"b1", "b2"}
  Positions = {"support", "oppose", "neutral"}
  Shown = {"support", "oppose"}
  MaxRows = 3
  MaxPages = 2
  RowsPerPage = 1
  Lookups <- MCLookups
  Collections <- MCCollections
  Listings <- MCListings
  Target = "i3"
  ItemsPerPage = 2
SPECIFICATION Spec
CHECK_DEADLOCK FALSE
INVARIANTS
  TypesOK
  RequestsAreShared
  WorkerHears
  PositionsAreTrue
  CmsIsShownAsListed
PROPERTIES
  RosterOnlyImproves
  WaitersAreAnswered
