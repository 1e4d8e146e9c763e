---------------------------- MODULE MCWorkspaceCopy ----------------------------
(* Model-checking instance of WorkspaceCopy; the cfg file gives the constants. *)
EXTENDS WorkspaceCopy
=============================================================================
