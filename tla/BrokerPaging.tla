------------------------------ MODULE BrokerPaging ------------------------------
(***************************************************************************)
(* The bills an organization supports or opposes, on the canonical-id      *)
(* index: get_org_bill_positions of services/broker_lookup.py reads the    *)
(* broker's rows page by page beside get_org_details, within the message's *)
(* enrichment budget (_prefetch_org_bill_positions_from_broker).  There is *)
(* a row per bill VERSION, in the order of the versions' ids.  While the   *)
(* pages are read a position may be recorded on any version, changed or    *)
(* withdrawn, so a row may come, change or go anywhere in that order.      *)
(***************************************************************************)
EXTENDS FiniteSetsExt, SequencesExt, Subsequences

CONSTANTS
  Bills,
  Positions,  \* the positions of a row; only Shown ones are listed
  Shown,      \* support and oppose
  MaxRows,    \* bound: how many rows there are at most
  MaxPages,   \* MAX_POSITION_PAGES
  PageSize,   \* POSITIONS_PAGE_SIZE
  None

Parameters ==
  /\ Shown \subseteq Positions
  /\ MaxRows \in Nat /\ MaxPages \in Nat \ {0} /\ PageSize \in Nat \ {0}
  /\ None # "list" /\ None # "list with a note"

VARIABLES
  rows,     \* the broker's rows: [bill, position]
  page,     \* the page asked for
  got,      \* by_bill, in its order
  details,  \* get_org_details: "running", "known" or "unknown"
  at,       \* "reading", "read", "over"
  late,     \* the budget is used up
  answer,   \* what get_org_bill_positions returns: [listed, complete], or None
  context,  \* what the model is told
  passed,   \* history: rows up to this one were read, or skipped, already
  unsure    \* history: the bills that changed among those, or were skipped

vars == <<rows, page, got, details, at, late, answer, context, passed, unsure>>

Rows == [bill : Bills, position : Positions]
Listed == {r \in Rows : r.position \in Shown}

TypeOK ==
  /\ rows \in Seq(Rows) /\ Len(rows) <= MaxRows
  /\ page \in 1 .. MaxPages
  /\ got \in Seq(Listed)
  /\ details \in {"running", "known", "unknown"}
  /\ at \in {"reading", "read", "over"}
  /\ late \in BOOLEAN
  /\ passed \in Nat /\ passed >= (page - 1) * PageSize
  /\ unsure \subseteq Bills
  /\ answer # None => answer.listed \in Seq(Listed) /\ answer.complete \in BOOLEAN
  /\ context \in {None, "nothing", "none verified", "list", "list with a note"}

Init ==
  /\ rows \in UNION {[1 .. n -> Rows] : n \in 0 .. MaxRows}
  /\ page = 1 /\ got = <<>> /\ details = "running"
  /\ at = "reading" /\ late = FALSE
  /\ answer = None /\ context = None
  /\ passed = 0 /\ unsure = {}

-----------------------------------------------------------------------------
\* The broker: a position is recorded on a version ...
RowInserted ==
  /\ at = "reading" /\ Len(rows) < MaxRows
  /\ \E i \in 1 .. Len(rows) + 1, r \in Rows :
       /\ rows' = InsertAt(rows, i, r)
       /\ passed' = IF i <= passed /\ passed <= Len(rows) THEN passed + 1 ELSE passed
       /\ unsure' = IF i <= passed THEN unsure \cup {r.bill} ELSE unsure
  /\ UNCHANGED <<page, got, details, at, late, answer, context>>

\* ... or changed ...
RowChanged ==
  /\ at = "reading"
  /\ \E i \in DOMAIN rows, position \in Positions :
       /\ rows' = [rows EXCEPT ![i].position = position]
       /\ unsure' = IF i <= passed THEN unsure \cup {rows[i].bill} ELSE unsure
  /\ UNCHANGED <<page, got, details, at, late, answer, context, passed>>

\* The rows of the pages before `page`.
Before == (page - 1) * PageSize

\* ... or withdrawn.  The rows after it move up, and if it was of a page before,
\* the first row of the page asked for moves to those pages, and is skipped.
RowRemoved ==
  /\ at = "reading"
  /\ \E i \in DOMAIN rows :
       LET gone == IF i <= passed THEN {i} ELSE {}
           skipped == IF i <= Before THEN {Before + 1} ELSE {}
       IN /\ rows' = RemoveAt(rows, i)
          /\ passed' = IF i <= passed THEN Max({passed - 1, Before}) ELSE passed
          /\ unsure' = unsure
               \cup {rows[n].bill : n \in (gone \cup skipped) \cap DOMAIN rows}
  /\ UNCHANGED <<page, got, details, at, late, answer, context>>

Deadline ==
  /\ ~late /\ at # "over"
  /\ late' = TRUE
  /\ UNCHANGED <<rows, page, got, details, at, answer, context, passed, unsure>>

\* Slip: the row read first stays.
KeepFirst(list, row) ==
  IF \E i \in DOMAIN list : list[i].bill = row.bill THEN list ELSE Append(list, row)
\* The later row of a bill replaces the earlier and moves to the end.
Keep(list, row) ==
  Append(Chosen(list, {i \in DOMAIN list : list[i].bill # row.bill}), row)

\* by_bill once a page's rows are in it, one after the other.
Entered(list, rowsOfPage) ==
  LET upTo[n \in 0 .. Len(rowsOfPage)] ==
        IF n = 0 THEN list
        ELSE IF rowsOfPage[n].position \in Shown THEN Keep(upTo[n - 1], rowsOfPage[n])
        ELSE upTo[n - 1]
  IN upTo[Len(rowsOfPage)]

Returns(list, complete) ==
  /\ answer' = [listed |-> list, complete |-> complete]
  /\ at' = "read"

Page(n) == SubSeq(rows, (n - 1) * PageSize + 1, Min({n * PageSize, Len(rows)}))

\* A page is answered: on to the next, while there is one and time for it.
PageAnswered ==
  /\ at = "reading"
  /\ page > 1 => Page(page) # <<>>
  /\ LET read == Entered(got, Page(page))
         more == page * PageSize < Len(rows)
     IN /\ got' = read
        /\ IF ~more THEN Returns(read, TRUE) /\ UNCHANGED page
           ELSE IF page = MaxPages \/ late THEN Returns(read, FALSE) /\ UNCHANGED page
           ELSE page' = page + 1 /\ UNCHANGED <<at, answer>>
  /\ passed' = Max({passed, page * PageSize})
  /\ UNCHANGED <<rows, details, late, context, unsure>>

\* The broker does not answer, or has no such page (any more).
PageFails ==
  /\ at = "reading"
  /\ IF page = 1 THEN at' = "read" /\ UNCHANGED answer ELSE Returns(got, FALSE)
  /\ UNCHANGED <<rows, page, got, details, late, context, passed, unsure>>

DetailsAnswered ==
  /\ details = "running" /\ at # "over"
  /\ details' \in {"known", "unknown"}
  /\ UNCHANGED <<rows, page, got, at, late, answer, context, passed, unsure>>

\* format_org_bill_positions
Told ==
  IF answer = None THEN "nothing"
  ELSE IF answer.listed = <<>> THEN "none verified"
  ELSE IF answer.complete THEN "list" ELSE "list with a note"

Formats ==
  /\ at = "read" /\ details # "running"
  /\ at' = "over"
  /\ context' = Told
  /\ UNCHANGED <<rows, page, got, details, late, answer, passed, unsure>>

\* wait_for: a second past the budget both lookups are cancelled.
HardStop ==
  /\ late /\ at # "over"
  /\ at' = "over"
  /\ context' = "nothing"
  /\ UNCHANGED <<rows, page, got, details, late, answer, passed, unsure>>

Next ==
  \/ RowInserted \/ RowChanged \/ RowRemoved \/ Deadline
  \/ PageAnswered \/ PageFails \/ DetailsAnswered \/ Formats \/ HardStop

Spec == Init /\ [][Next]_vars

-----------------------------------------------------------------------------
\* The position of a bill: that of its newest version that has one.
Newest(list, bill) ==
  LET its == {i \in DOMAIN list : list[i].bill = bill /\ list[i].position \in Shown}
  IN IF its = {} THEN None ELSE list[Max(its)].position

(* "A bill is never listed twice, nor under both Support and Oppose", and a *)
(* list without the note that it may be incomplete has every bill, with    *)
(* the position of its newest version, as the broker's rows were when the  *)
(* last page was read: but for a bill of which a row that was read already *)
(* came, changed or went since, and for the one row that is skipped when a *)
(* row of an earlier page goes (get_org_bill_positions).  Rows that come   *)
(* in pages already read, so that rows are read again, put nothing else    *)
(* wrong.                                                                  *)
ListIsTrue ==
  /\ context \in {"list", "list with a note"} =>
       \A i, j \in DOMAIN answer.listed : answer.listed[i].bill = answer.listed[j].bill => i = j
  /\ context = "list" =>
       \A bill \in Bills \ unsure : Newest(answer.listed, bill) = Newest(rows, bill)
=============================================================================
