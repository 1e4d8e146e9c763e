--------------------------- MODULE MCStorageMigration ---------------------------
(* A transfer on a small instance. *)
EXTENDS StorageMigration
=============================================================================
