--------------------------- MODULE SerialOperations ---------------------------
(***************************************************************************)
(* What the queue of device operations promises to the viewer that polls   *)
(* it and to the radio, without processes, claims, owners, recovery or     *)
(* failing transactions: within a group the operations are taken one at a  *)
(* time in the order of their requests, the radio is reached only for the  *)
(* one that is under way and once at most, and what ends stays ended.      *)
(***************************************************************************)
EXTENDS Integers

CONSTANTS Ops, GroupOf

VARIABLES
  outcome,  (* what a poll shows for each operation                         *)
  actions   (* how often the radio was reached for it                       *)

vars == <<outcome, actions>>

Over(o) == outcome[o] \in {"completed", "failed", "interrupted"}

(* The oldest operation may be under way since before the bot's start.      *)
Init ==
  /\ \E under \in SUBSET Ops :
       /\ \A o \in under, p \in Ops : o <= p
       /\ outcome = [o \in Ops |-> IF o \in under THEN "processing" ELSE "absent"]
  /\ actions = [o \in Ops |-> 0]

Request(o) ==
  /\ outcome[o] = "absent" /\ \A p \in Ops : p < o => outcome[p] # "absent"
  /\ outcome' = [outcome EXCEPT ![o] = "pending"]
  /\ UNCHANGED actions

Take(o) ==
  /\ outcome[o] = "pending"
  /\ \A p \in Ops : p < o /\ GroupOf[p] = GroupOf[o] => Over(p)
  /\ outcome' = [outcome EXCEPT ![o] = "processing"]
  /\ UNCHANGED actions

Reach(o) ==
  /\ outcome[o] = "processing" /\ actions[o] = 0
  /\ actions' = [actions EXCEPT ![o] = 1]
  /\ UNCHANGED outcome

(* Only what has reached the radio is completed; a failure may have.        *)
Finish(o) ==
  /\ outcome[o] = "processing"
  /\ \E end \in {"completed", "failed"} :
       /\ end = "completed" => actions[o] = 1
       /\ outcome' = [outcome EXCEPT ![o] = end]
  /\ UNCHANGED actions

(* Operations whose end nobody can know are given up.                       *)
Interrupt ==
  /\ \E lost \in SUBSET {o \in Ops : outcome[o] = "processing"} :
       outcome' = [o \in Ops |-> IF o \in lost THEN "interrupted" ELSE outcome[o]]
  /\ UNCHANGED actions

Next == Interrupt \/ \E o \in Ops : Request(o) \/ Take(o) \/ Reach(o) \/ Finish(o)

Spec == Init /\ [][Next]_vars
=============================================================================
