------------------------------ MODULE MCQuestions ------------------------------
(* Instances of Questions for TLC.                                         *)
EXTENDS Questions, TLC

\* Of the button cache, the only part that has workers and tasks.
Symmetry == Permutations(Workers) \cup Permutations(Tasks)

\* Messages that name a bill in either form, a person, both or neither; what was
\* said before, by whom; pages of every kind.
Message(bill, person) == [bill |-> bill, person |-> person, place |-> None]
Said(by, bill, person) == [by |-> by, bill |-> bill, person |-> person]
PageOf(type, id, slug, place, session) ==
  [type |-> type, id |-> id, slug |-> slug, place |-> place, session |-> session]

BillMessages == {Message("no", TRUE), Message("no", FALSE), Message("short", FALSE),
                 Message("long", TRUE)}
BillHistories ==
  [{"older", "newer"} -> {Said("bot", "no", FALSE), Said("bot", "short", TRUE),
                          Said("visitor", "no", TRUE), Said("visitor", "short", FALSE)}]
BillPages ==
  {PageOf("general", FALSE, FALSE, None, None), PageOf("legislator", TRUE, FALSE, "FL", None),
   PageOf("bill", TRUE, TRUE, "FL", "special"), PageOf("bill", FALSE, TRUE, None, None)}
MCBillQuestions ==
  [message : BillMessages, asks : {"votes", "else"}, disputes : BOOLEAN,
   said : BillHistories, page : BillPages, legacy : {TRUE}]

\* Two people share a last name, two a first; up to two roll calls of a record.
Person(first, last) == [first |-> first, last |-> last]
Legislators == {Person("john", "smith"), Person("john", "adams"), Person("ann", "smith")}
RollCalls ==
  [kind : {"passage", "other", "procedural"}, date : 1 .. 2,
   records : UNION {[1 .. n -> [person : Legislators, whole : BOOLEAN]] : n \in 0 .. 1}]
MCRecords == UNION {[1 .. n -> RollCalls] : n \in 0 .. 2}

\* Two versions of a bill's text, another bill, and one chunk of each other kind.
Chunk(type, of, version, words) ==
  [type |-> type, of |-> of, version |-> version, words |-> words,
   near |-> TRUE, apt |-> type \in {"organization", "bill-votes"}, local |-> of = "b1"]
Text1 == Chunk("bill-text", "b1", 1, "w1")
Text2 == Chunk("bill-text", "b1", 2, "w1")
OtherBill == [Chunk("bill-text", "b2", 1, "w2") EXCEPT !.near = FALSE]
MCIndexes ==
  {<<Text1, Text2, OtherBill, Chunk("bill", "b1", 0, "w3"), Chunk("organization", "o1", 0, "w4"),
     Chunk("bill-votes", "b1", 0, "w5"), Chunk("changelog", "b1", 0, "w6")>>,
   <<OtherBill, Text2, Text1>>, <<Text2>>}

Plain == [canonical |-> TRUE, page |-> "bill", pin |-> TRUE, slug |-> TRUE, names |-> {},
          orgWords |-> FALSE, asks |-> {}, follows |-> "no", named |-> None, scoped |-> FALSE]
General == [Plain EXCEPT !.page = "general", !.pin = FALSE, !.slug = FALSE]
Legacy == [Plain EXCEPT !.canonical = FALSE]
MCPageQuestions ==
  {[Plain EXCEPT !.asks = a, !.named = n] : a \in {{"changes"}, {"orgs"}}, n \in {None, {1}}}
    \cup {[Plain EXCEPT !.pin = FALSE], [Plain EXCEPT !.page = "legislator"],
          [Plain EXCEPT !.page = "organization"], [General EXCEPT !.scoped = TRUE]}
    \cup {[General EXCEPT !.names = n] : n \in {{"b1"}, {"b1", "b2"}}}
    \cup {[Legacy EXCEPT !.pin = p, !.asks = {"changes"}] : p \in BOOLEAN}
    \cup {[Legacy EXCEPT !.asks = {"votes"}, !.follows = f] : f \in {"no", "cached"}}
================================================================================
