--------------------------- MODULE MCOperationQueue ---------------------------
(* Instances of OperationQueue for TLC. *)
EXTENDS OperationQueue

(* Radio operations only. *)
OneGroup == [o \in Ops |-> "radio"]
=============================================================================
