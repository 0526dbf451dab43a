---------------------------- MODULE CircuitBreaker ----------------------------
(***************************************************************************)
(* What the radio-offline breaker promises, without ids, counters, locks   *)
(* or a database: it opens, an answered probe arms one trial, one sender   *)
(* claims it, and the breaker closes only by that sender's success or on   *)
(* an operator's request.                                                  *)
(***************************************************************************)
CONSTANTS Senders, Nobody

VARIABLES
  state,    (* "closed", "open", "armed" or "trial"                         *)
  holder,   (* the sender of the trial in flight                            *)
  request   (* the operator asked to close and nothing overrode it since    *)

vars == <<state, holder, request>>

Init == state = "closed" /\ holder = Nobody /\ request = FALSE

Trip == state = "closed" /\ state' = "open" /\ UNCHANGED <<holder, request>>

Arm == state = "open" /\ state' = "armed" /\ UNCHANGED <<holder, request>>

Claim(s) ==
  /\ state = "armed"
  /\ state' = "trial" /\ holder' = s
  /\ UNCHANGED request

(* The claimed trial ends: closed on success, open on failure, armed again  *)
(* when nothing was sent.                                                   *)
Settle(s) ==
  /\ state = "trial" /\ holder = s
  /\ state' \in {"closed", "open", "armed"} /\ holder' = Nobody
  /\ UNCHANGED request

Request == request' = TRUE /\ UNCHANGED <<state, holder>>

Override == request' = FALSE /\ UNCHANGED <<state, holder>>

CloseOnRequest ==
  /\ request /\ state # "closed"
  /\ state' = "closed" /\ holder' = Nobody
  /\ UNCHANGED request

Next ==
  \/ Trip \/ Arm \/ Request \/ Override \/ CloseOnRequest
  \/ \E s \in Senders : Claim(s) \/ Settle(s)

Spec == Init /\ [][Next]_vars
=============================================================================
