------------------------------ MODULE NewestBill ------------------------------
(***************************************************************************)
(* What get_bill_info of services/bill_votes.py promises: of the sessions  *)
(* it may ask OpenStates for, 0 the one asked for and 1 .. Years the years *)
(* before it, the newest that has the bill answers, in one step.           *)
(***************************************************************************)
EXTENDS Naturals

CONSTANTS
  Years,     \* how many older sessions there are to try
  Pending,   \* no answer yet
  NotFound,  \* "Return not-found result"
  GaveUp     \* the caller was cancelled

Parameters ==
  /\ Years \in Nat
  /\ {Pending, NotFound, GaveUp} \cap Nat = {}
  /\ Pending # NotFound /\ Pending # GaveUp /\ NotFound # GaveUp

VARIABLES
  holds,  \* the sessions whose request is answered with the bill
  answer

Sessions == 0 .. Years
Newest(k, S) == k \in S /\ \A j \in S : k <= j

\* What the caller may be told.
Answers(S) == {GaveUp} \cup (IF S = {} THEN {NotFound} ELSE {k \in S : Newest(k, S)})

Init == holds \in SUBSET Sessions /\ answer = Pending
Next == answer = Pending /\ answer' \in Answers(holds) /\ UNCHANGED holds
Spec == Init /\ [][Next]_<<holds, answer>>
=============================================================================
