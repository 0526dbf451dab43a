---------------------------- MODULE MCContactLease ----------------------------
(* Instances of ContactLease for TLC. *)
EXTENDS ContactLease

(* One DM is about a node of its own. *)
TwoNodes == [t \in Tasks |-> IF t = "other" THEN "b" ELSE "a"]

AllKinds == {"repeater", "companion", "by_key", "stale"}
=============================================================================
