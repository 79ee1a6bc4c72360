------------------------------- MODULE VoteSearch -------------------------------
(***************************************************************************)
(* find_legislator_in_votes of services/bill_votes.py: one legislator's    *)
(* vote, looked for by name in the roll calls of a bill, of which the final*)
(* passage is preferred.  A name is its words: the code asks whether a part*)
(* of the name asked for occurs in the recorded one.                       *)
(***************************************************************************)
EXTENDS Naturals, Sequences

CONSTANTS
  People,   \* legislators: [first, last]
  Bills,    \* lists of roll calls, as _parse_votes returns them
  Pending,  \* not looked for yet
  None      \* not found

Kinds == {"passage", "other", "procedural"}
\* A recorded name is the whole name, or only the last one.
Recorded == [person : People, whole : BOOLEAN]
RollCalls == [kind : Kinds, date : Nat, records : Seq(Recorded)]

Parameters ==
  /\ \A votes \in Bills : votes \in Seq(RollCalls)
  /\ None \notin Nat \X Nat

VARIABLES
  votes,  \* the bill's roll calls
  asked,  \* the legislator, ...
  alone,  \* ... of whom the message has the last name only
  found   \* what the model is told: a vote, by roll call and record

vars == <<votes, asked, alone, found>>

TypeOK ==
  /\ votes \in Bills /\ asked \in People /\ alone \in BOOLEAN
  /\ found \in {Pending, None} \cup (Nat \X Nat)

Init ==
  /\ votes \in Bills
  /\ asked \in People
  /\ alone \in BOOLEAN
  /\ found = Pending

-----------------------------------------------------------------------------
Terms == IF alone THEN {asked.last} ELSE {asked.first, asked.last}
Words(r) == IF r.whole THEN {r.person.first, r.person.last} ELSE {r.person.last}

All == UNION {{<<i, j>> : j \in DOMAIN votes[i].records} : i \in DOMAIN votes}
Record(v) == votes[v[1]].records[v[2]]
Matches == {v \in All : Terms \cap Words(Record(v)) # {}}

Rank(v) ==
  CASE votes[v[1]].kind = "passage"    -> 2
    [] votes[v[1]].kind = "other"      -> 1
    [] votes[v[1]].kind = "procedural" -> 0

\* Slip: the dates alone decide.
BetterByDate(v, w) == votes[v[1]].date > votes[w[1]].date
\* By the kind of motion, then by date.
Better(v, w) ==
  \/ Rank(v) > Rank(w)
  \/ Rank(v) = Rank(w) /\ votes[v[1]].date > votes[w[1]].date

Before(v, w) == v[1] < w[1] \/ (v[1] = w[1] /\ v[2] < w[2])

\* The sort is stable: the first of the best.
Best(S) == {v \in S : \A w \in S \ {v} :
              ~Better(w, v) /\ (Better(v, w) \/ Before(v, w))}

Find ==
  /\ found = Pending
  /\ found' = IF Matches = {} THEN None ELSE CHOOSE v \in Best(Matches) : TRUE
  /\ UNCHANGED <<votes, asked, alone>>

Next == Find
Spec == Init /\ [][Next]_vars

-----------------------------------------------------------------------------
Own == {v \in All : Record(v).person = asked}

(* find_legislator_in_votes: whoever voted is not said to be missing from  *)
(* the records, and no vote of his is of more weight than the one shown:   *)
(* he is not answered for by a procedural vote when he voted on passage.   *)
VoterIsFound ==
  found # Pending /\ Own # {} =>
    /\ found # None
    /\ \A v \in Own : Rank(v) <= Rank(found)
    /\ \A v \in Own : Rank(v) = Rank(found) =>
         votes[v[1]].date <= votes[found[1]].date
=============================================================================
