------------------------------- MODULE MCServices -------------------------------
(* Instances of Services for TLC.                                          *)
EXTENDS Services

\* The walk: an item on the first, the last, a full or no page; the references:
\* inline, repeated, and none.
MCLookups ==
  [kind : {"bill", "organization"}, by : SUBSET {"id", "slug"}, configured : BOOLEAN,
   positions : BOOLEAN]
    \cup [kind : {"legislator"}, by : SUBSET {"id", "slug"}, configured : BOOLEAN,
          positions : {FALSE}]
MCCollections ==
  {<<>>, <<"i1">>, <<"i1", "i2">>, <<"i1", "i2", "i3">>, <<"i3", "i1", "i2">>,
   <<"i1", "i2", "i4", "i5">>, <<"i1", "i2", "i4", "i5", "i3">>}
Ref(id, inline) == [id |-> id, inline |-> inline]
MCListings ==
  {[support |-> <<>>, oppose |-> <<>>],
   [support |-> <<Ref("r1", FALSE), Ref("r2", TRUE)>>,
    oppose |-> <<Ref("r3", FALSE), Ref("r1", FALSE)>>]}
=================================================================================
