------------------------------ MODULE MCSubmission ------------------------------
(* A submission with both stores.  Calls are numbered because their rows are      *)
(* ordered; collectors are interchangeable.                                       *)
EXTENDS Submission, TLC

Symmetry == Permutations(Collectors)
=============================================================================
