------------------------- MODULE MCCandidateCollection -------------------------
(* Candidate collection on small instances; processes are interchangeable. *)
EXTENDS CandidateCollection, TLC

Symmetry == Permutations(Processes)
=============================================================================
