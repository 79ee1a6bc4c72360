--------------------------- MODULE MCSessionStore ---------------------------
(* Instances of SessionStore for TLC.                                      *)
EXTENDS SessionStore, TLC

Symmetry == Permutations(Workers) \cup Permutations(Tasks)
              \cup Permutations(Objects) \cup Permutations(Events)
=============================================================================
