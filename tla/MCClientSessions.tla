--------------------------- MODULE MCClientSessions ---------------------------
(* Model-checking instances of ClientSessions; the cfg files give the constants. *)
EXTENDS ClientSessions
=============================================================================
