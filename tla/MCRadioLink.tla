----------------------------- MODULE MCRadioLink ------------------------------
(* Instances of RadioLink for TLC. *)
EXTENDS RadioLink

(* A radio with every operation the web viewer offers, and a database that  *)
(* takes every write: what these sites are checked for does not read the row. *)
Serial == [tcp |-> FALSE, uses |-> Operations, hangs |-> TRUE, locked |-> FALSE]
Network == [Serial EXCEPT !.tcp = TRUE]

(* A TCP radio that no operation and no stuck disconnect interferes with,   *)
(* and a database that may be locked.                                       *)
Undisturbed == [tcp |-> TRUE, uses |-> {}, hangs |-> FALSE, locked |-> TRUE]

ThreeSites == {Serial, Network, Undisturbed}
SerialOnly == {Serial}
=============================================================================
