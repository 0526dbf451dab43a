---------------------------- MODULE MCMessageSend ----------------------------
(* Instances of MessageSend for TLC. *)
EXTENDS MessageSend

(* A regional reply and a DM to the same user, and scheduled messages. *)
ScopeOf == [s \in Sends |-> CASE s = "reply" -> "east"
                              [] s \in {"scheduled"} -> "west"
                              [] OTHER -> "global"]

RepliesAreLimited ==
  [s \in Sends |-> IF s = "scheduled" THEN {} ELSE Limits \ {Tx}]

AllAreCharged == [s \in Sends |-> Limits]

Intervals == [l \in Limits |-> IF l = Tx THEN 1 ELSE 2]
=============================================================================
