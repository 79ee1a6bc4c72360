----------------------------- MODULE MCHandoff -----------------------------
(* Instances of Handoff for TLC.                                           *)
EXTENDS Handoff, TLC

Symmetry == Permutations(Workers) \cup Permutations(Threads)

(* With Redis, HandoffMoves asks about calm runs only, and calm is never   *)
(* regained: what comes after its loss is not explored.                    *)
StillCalm == redis => calm
=============================================================================
