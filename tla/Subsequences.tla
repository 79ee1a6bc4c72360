------------------------------ MODULE Subsequences ------------------------------
(* What the code does with a list when it keeps some of its elements.      *)
EXTENDS Naturals, Sequences

\* The elements of s whose index is in K, in their order.
Chosen(s, K) ==
  LET upTo[n \in 0 .. Len(s)] ==
        IF n = 0 THEN <<>>
        ELSE IF n \in K THEN Append(upTo[n - 1], s[n]) ELSE upTo[n - 1]
  IN upTo[Len(s)]

\* Those that have the property.
Where(s, P(_)) == Chosen(s, {i \in DOMAIN s : P(s[i])})

IsList(s) == s \in Seq({s[i] : i \in DOMAIN s})
=================================================================================
