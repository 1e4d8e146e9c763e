------------------------------- MODULE MCOutbox -------------------------------
(* Bounded instances of Outbox for TLC. *)
EXTENDS Outbox, TLC

Symmetry == Permutations(Subscriptions \ Broken) \cup Permutations(Workers)
=============================================================================
