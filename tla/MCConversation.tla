--------------------------- MODULE MCConversation ---------------------------
(* Conversation for TLC: a general page, two pages of a type with          *)
(* different identities, and one of that type without an identity.         *)
EXTENDS Conversation, TLC

Page(type, ident) == [type |-> type, ident |-> ident]

PagesOfAllKinds ==
  {Page("general", None), Page("bill", "b1"), Page("bill", "b2"), Page("bill", None)}

\* Nothing is claimed of the log once it is not orderly: TLC stops there.
Orderly == orderly

Symmetry == Permutations(Workers)
=============================================================================
