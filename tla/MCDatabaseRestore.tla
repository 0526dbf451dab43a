-------------------------- MODULE MCDatabaseRestore --------------------------
(* Instances of DatabaseRestore for TLC. *)
EXTENDS DatabaseRestore
=============================================================================
