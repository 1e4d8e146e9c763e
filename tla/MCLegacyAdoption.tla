---------------------------- MODULE MCLegacyAdoption ----------------------------
(* Two controllers, both kinds of source file, two retained commits.              *)
EXTENDS LegacyAdoption
=============================================================================
