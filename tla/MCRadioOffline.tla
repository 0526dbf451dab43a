---------------------------- MODULE MCRadioOffline ----------------------------
(* Instances of RadioOffline for TLC. *)
EXTENDS RadioOffline, TLC
=============================================================================
