---------------------------- MODULE MCPublication ----------------------------
(* Bounded instances of Publication for TLC. *)
EXTENDS Publication, TLC

Symmetry == Permutations(Runs) \cup Permutations(Workers)
=============================================================================
