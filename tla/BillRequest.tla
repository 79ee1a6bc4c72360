------------------------------ MODULE BillRequest ------------------------------
(***************************************************************************)
(* get_bill_info of services/bill_votes.py: the session asked for first,   *)
(* then the years before together; awaited from the newest on, the others  *)
(* cancelled and waited for, also when the caller is cancelled.            *)
(***************************************************************************)
EXTENDS Naturals

CONSTANTS
  Years,     \* older sessions to try: 2 for a state's numbered session, or 0
  Pending, NotFound, GaveUp

VARIABLES
  holds,    \* the sessions whose request is answered with the bill
  phase,    \* where the coroutine is
  request,  \* session -> its request
  awaited,  \* the session waited for
  outcome   \* what it will return, or Pending

vars == <<holds, phase, request, awaited, outcome>>

Sessions == 0 .. Years
Older    == 1 .. Years
Running(k) == request[k] = "running"

TypeOK ==
  /\ holds \in SUBSET Sessions
  /\ phase \in {"first", "older", "settling", "over"}
  /\ request \in [Sessions -> {"unused", "running", "ended", "cancelled"}]
  /\ awaited \in 0 .. Years + 1
  /\ outcome \in Sessions \cup {Pending, NotFound, GaveUp}

Init ==
  /\ holds \in SUBSET Sessions
  /\ phase = "first"
  /\ request = [k \in Sessions |-> IF k = 0 THEN "running" ELSE "unused"]
  /\ awaited = 0
  /\ outcome = Pending

-----------------------------------------------------------------------------
\* _fetch_bill_info: the bill, a 404, or a failure, told alike.
RequestEnds(k) ==
  /\ Running(k)
  /\ request' = [request EXCEPT ![k] = "ended"]
  /\ UNCHANGED <<holds, phase, awaited, outcome>>

\* The session asked for has answered: return it, or start the older ones.
FirstAnswered ==
  /\ phase = "first"
  /\ ~Running(0)
  /\ IF 0 \in holds
       THEN /\ phase' = "over"
            /\ outcome' = 0
            /\ UNCHANGED <<request, awaited>>
       ELSE /\ phase' = "older"
            /\ request' = [k \in Sessions |->
                             IF k \in Older THEN "running" ELSE request[k]]
            /\ awaited' = 1
            /\ UNCHANGED outcome
  /\ UNCHANGED holds

\* Slip: whichever answers first.
NextAny == {k \in Older : ~Running(k)}
\* The loop over the older sessions, the newest first.
NextInOrder == {k \in Older : k = awaited /\ ~Running(k)}

OlderAnswered ==
  /\ phase = "older"
  /\ \E k \in NextInOrder :
       IF k \in holds
         THEN phase' = "settling" /\ outcome' = k /\ UNCHANGED awaited
         ELSE awaited' = awaited + 1 /\ UNCHANGED <<phase, outcome>>
  /\ UNCHANGED <<holds, request>>

NoneLeft ==
  /\ phase = "older"
  /\ awaited = Years + 1
  /\ phase' = "settling"
  /\ outcome' = NotFound
  /\ UNCHANGED <<holds, request, awaited>>

\* finally: cancel, and gather.
RequestCancelled(k) ==
  /\ phase = "settling"
  /\ Running(k)
  /\ request' = [request EXCEPT ![k] = "cancelled"]
  /\ UNCHANGED <<holds, phase, awaited, outcome>>

Settled ==
  /\ phase = "settling"
  /\ \A k \in Sessions : ~Running(k)
  /\ phase' = "over"
  /\ UNCHANGED <<holds, request, awaited, outcome>>

\* The caller is cancelled: in its own request of the first session, or while
\* it waits for the older ones, or gathers them; gather still waits for them.
CallerCancelled ==
  /\ phase # "over"
  /\ outcome' = GaveUp
  /\ IF phase = "first"
       THEN /\ phase' = "over"
            /\ request' = [request EXCEPT ![0] = "cancelled"]
       ELSE phase' = "settling" /\ UNCHANGED request
  /\ UNCHANGED <<holds, awaited>>

Next ==
  \/ FirstAnswered \/ OlderAnswered \/ NoneLeft \/ Settled \/ CallerCancelled
  \/ \E k \in Sessions : RequestEnds(k) \/ RequestCancelled(k)

Spec == Init /\ [][Next]_vars

-----------------------------------------------------------------------------
\* The caller has its answer when everything is settled.
answer == IF phase = "over" THEN outcome ELSE Pending

Promise == INSTANCE NewestBill WITH holds <- holds, answer <- answer

(* get_bill_info: "the newest older session that has the bill still wins", *)
(* in whatever order the requests are answered: as if it had been looked up*)
(* in one step.                                                            *)
NewestSessionWins == Promise!Spec

(* ... "an older one still running once a newer one has answered is        *)
(* cancelled": no request outlives the lookup, however the lookup ends.    *)
NoRequestOutlivesLookup ==
  phase = "over" => \A k \in Sessions : ~Running(k)
=============================================================================
