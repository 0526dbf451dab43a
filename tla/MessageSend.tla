------------------------------ MODULE MessageSend ------------------------------
(***************************************************************************)
(* One outgoing message from the rate limits to the radio                  *)
(* (modules/command_manager.py, modules/rate_limiter.py and the command    *)
(* serializer of modules/radio_link.py): the limits are checked, a slot of *)
(* the transmitter is claimed, and the frames go out one at a time under   *)
(* the radio command lock. A regional channel message holds the lock while *)
(* it sets the flood scope of the radio, sends, and restores global flood. *)
(*                                                                         *)
(* Every send is a task of the event loop; a step ends where the task      *)
(* awaits. Time is what has passed since something, up to the limit it is  *)
(* compared with.                                                          *)
(***************************************************************************)
EXTENDS Integers, Sequences

CONSTANTS
  Sends,       (* the messages                                              *)
  Dms,         (* those that are direct messages                            *)
  Cancellable, (* those whose caller gives up waiting (send_timeout)        *)
  Scope,       (* the flood scope each is to go out under                   *)
  Global,      (* the scope of global flood                                 *)
  NoSend,      (* not a message                                             *)
  Limits, Tx,  (* the rate limits, Tx the one of the transmitter            *)
  Seconds,     (* how long each of them lasts                               *)
  Checked,     (* the limits that refuse a message: its reply limits        *)
  Charged,     (* the limits that a message is charged to, once sent        *)
  MaxRetries,  (* further attempts of a channel message or a DM             *)
  MaxFaults,   (* bound: frames that are not answered with success          *)
  MaxCancels   (* bound: callers that give up                               *)

Scopes == {Scope[s] : s \in Sends} \cup {Global}

ASSUME MessageSendAssumption ==
  /\ Dms \subseteq Sends /\ Cancellable \subseteq Sends
  /\ \A s \in Dms : Scope[s] = Global
  /\ NoSend \notin Sends
  /\ Tx \in Limits /\ Seconds \in [Limits -> Nat]
  /\ Checked \in [Sends -> SUBSET (Limits \ {Tx})]
  /\ Charged \in [Sends -> SUBSET Limits]
  /\ MaxRetries \in Nat /\ MaxFaults \in Nat /\ MaxCancels \in Nat

VARIABLES
  pc,        (* what the task of a message awaits                           *)
  step,      (* its frame: setting the scope, the message, restoring        *)
  attempt,   (* attempts it has repeated                                    *)
  accepted,  (* the radio has accepted its scope in this attempt            *)
  reply,     (* what becomes of its frame                                   *)
  result,    (* what became of the message                                  *)
  holder,    (* the radio command lock                                      *)
  waiting,   (* the tasks that wait for it, in order                        *)
  since,     (* since each limit was last charged                           *)
  device,    (* the flood scope the radio holds                             *)
  pinned,    (* a scope that a restore has left behind                      *)
  air,       (* history: the scopes of the message transmitted last         *)
  claimed,   (* history: since the last slot of the transmitter was claimed *)
  faults, cancels

task == <<pc, step, attempt, accepted, reply, result>>
lock == <<holder, waiting>>
radio == <<device, pinned, air>>
times == <<since, claimed>>
vars == <<task, lock, radio, times, faults, cancels>>

Places == {"idle", "slot", "delay", "wait", "pace", "frame", "sleep", "ack", "end"}
Frames == {"set", "send", "restore"}
Replies == {"ok", "rejected", "silent", "raised"}
Results == Replies \cup {"none", "refused", "cancelled"}

TypeOK ==
  /\ pc \in [Sends -> Places] /\ step \in [Sends -> Frames]
  /\ attempt \in [Sends -> 0..MaxRetries] /\ accepted \in [Sends -> BOOLEAN]
  /\ reply \in [Sends -> Replies] /\ result \in [Sends -> Results]
  /\ holder \in Sends \cup {NoSend} /\ waiting \in Seq(Sends)
  /\ since \in [Limits -> Nat] /\ claimed \in Nat
  /\ \A l \in Limits : since[l] <= Seconds[l]
  /\ claimed <= Seconds[Tx]
  /\ device \in Scopes /\ pinned \in Scopes
  /\ air \in [scope : Scopes, own : Scopes, pinned : Scopes, accepted : BOOLEAN]
  /\ faults \in 0..MaxFaults /\ cancels \in 0..MaxCancels

Init ==
  /\ pc = [s \in Sends |-> "idle"] /\ step = [s \in Sends |-> "send"]
  /\ attempt = [s \in Sends |-> 0] /\ accepted = [s \in Sends |-> FALSE]
  /\ reply = [s \in Sends |-> "ok"] /\ result = [s \in Sends |-> "none"]
  /\ holder = NoSend /\ waiting = <<>>
  /\ since = Seconds /\ claimed = Seconds[Tx]
  /\ device = Global /\ pinned = Global
  /\ air = [scope |-> Global, own |-> Global, pinned |-> Global, accepted |-> FALSE]
  /\ faults = 0 /\ cancels = 0

Scoped(s) == Scope[s] # Global

Passed(l) == since[l] >= Seconds[l]

Charge(ls) == since' = [l \in Limits |-> IF l \in ls THEN 0 ELSE since[l]]

-----------------------------------------------------------------------------
(* The limits and the slot. A task that may transmit at once goes on        *)
(* without awaiting anything.                                               *)

ClaimSlot(s) ==
  /\ Passed(Tx)
  /\ Charge({Tx})
  /\ claimed' = 0
  /\ pc' = [pc EXCEPT ![s] = "delay"]

Refuse(s) ==
  /\ pc[s] = "idle"
  /\ \E l \in Checked[s] : ~Passed(l)
  /\ pc' = [pc EXCEPT ![s] = "end"]
  /\ result' = [result EXCEPT ![s] = "refused"]
  /\ UNCHANGED <<step, attempt, accepted, reply, lock, radio, times, faults, cancels>>

Admit(s) ==
  /\ pc[s] = "idle"
  /\ \A l \in Checked[s] : Passed(l)
  /\ \/ ClaimSlot(s)
     \/ ~Passed(Tx) /\ pc' = [pc EXCEPT ![s] = "slot"] /\ UNCHANGED times
  /\ UNCHANGED <<step, attempt, accepted, reply, result, lock, radio, faults, cancels>>

(* The wait only checks that the interval has passed. *)
WaitForTx_NoClaim(s) ==
  /\ pc[s] = "slot" /\ Passed(Tx)
  /\ claimed' = 0
  /\ pc' = [pc EXCEPT ![s] = "delay"]
  /\ UNCHANGED <<step, attempt, accepted, reply, result, lock, radio, since, faults, cancels>>

WaitForTx(s) ==
  /\ pc[s] = "slot"
  /\ ClaimSlot(s)
  /\ UNCHANGED <<step, attempt, accepted, reply, result, lock, radio, faults, cancels>>

-----------------------------------------------------------------------------
(* The radio command lock (asyncio.Lock: first come, first served).         *)

Queue(s) ==
  /\ pc' = [pc EXCEPT ![s] = "wait"]
  /\ waiting' = Append(waiting, s)
  /\ step' = [step EXCEPT ![s] = IF Scoped(s) THEN "set" ELSE "send"]
  /\ accepted' = [accepted EXCEPT ![s] = FALSE]
  /\ UNCHANGED holder

(* The transmission delay is over, or the pause before a retry.             *)
AskForRadio(s) ==
  /\ pc[s] \in {"delay", "sleep"}
  /\ Queue(s)
  /\ UNCHANGED <<attempt, reply, result, radio, times, faults, cancels>>

Acquire(s) ==
  /\ pc[s] = "wait" /\ holder = NoSend
  /\ waiting # <<>> /\ Head(waiting) = s
  /\ holder' = s /\ waiting' = Tail(waiting)
  /\ pc' = [pc EXCEPT ![s] = "pace"]
  /\ UNCHANGED <<step, attempt, accepted, reply, result, radio, times, faults, cancels>>

Release == holder' = NoSend /\ UNCHANGED waiting

-----------------------------------------------------------------------------
(* A frame, after the gap to the frame before it. The radio acts on it and  *)
(* answers, or rejects it; an answer may be lost, and so may the link be.   *)

(* What the radio does with the frame of s. *)
Transmit(s) ==
  /\ air' = [scope |-> device, own |-> Scope[s], pinned |-> pinned, accepted |-> accepted[s]]
  /\ UNCHANGED <<device, pinned>>

SetScope(c) ==
  /\ device' = c /\ pinned' = Global
  /\ UNCHANGED air

Act(s) ==
  \/ step[s] = "send" /\ Transmit(s)
  \/ step[s] = "set" /\ SetScope(Scope[s])
  \/ step[s] = "restore" /\ SetScope(Global)

(* A frame that does nothing; of a restore, the scope stays behind.         *)
Ignore(s) ==
  /\ pinned' = IF step[s] = "restore" THEN device ELSE pinned
  /\ UNCHANGED <<device, air>>

WriteFrame(s) ==
  /\ pc[s] = "pace"
  /\ \E r \in Replies :
       /\ reply' = [reply EXCEPT ![s] = r]
       /\ IF r = "ok" THEN UNCHANGED faults ELSE faults < MaxFaults /\ faults' = faults + 1
       /\ \/ r # "rejected" /\ Act(s)
          \/ r # "ok" /\ Ignore(s)
  /\ pc' = [pc EXCEPT ![s] = "frame"]
  /\ UNCHANGED <<step, attempt, accepted, result, lock, times, cancels>>

-----------------------------------------------------------------------------
(* The task goes on with the answer.                                        *)

(* A refused scope is logged, and the message goes out all the same.        *)
ScopeAnswered(s) ==
  /\ pc[s] = "frame" /\ step[s] = "set"
  /\ pc' = [pc EXCEPT ![s] = "pace"]
  /\ accepted' = [accepted EXCEPT ![s] = reply[s] = "ok"]
  /\ IF reply[s] = "raised"
       THEN /\ step' = [step EXCEPT ![s] = "restore"]
            /\ result' = [result EXCEPT ![s] = "raised"]
       ELSE step' = [step EXCEPT ![s] = "send"] /\ UNCHANGED result
  /\ UNCHANGED <<attempt, reply, lock, radio, times, faults, cancels>>

(* A success is charged to the limits; the one of all replies is charged    *)
(* with scheduled messages too.                                             *)
RecordSuccessfulSend(s) == Charge(Charged[s])

(* The exchange is over and the radio released: a channel message without   *)
(* an answer is tried again, a DM waits for its ACK, and the library may    *)
(* try again a DM that the radio did not take.                              *)
Conclude(s, r) ==
  /\ result' = [result EXCEPT ![s] = r]
  /\ \/ /\ r = "ok" /\ s \notin Dms
        /\ pc' = [pc EXCEPT ![s] = "end"]
        /\ RecordSuccessfulSend(s)
        /\ UNCHANGED attempt
     \/ /\ r = "ok" /\ s \in Dms
        /\ pc' = [pc EXCEPT ![s] = "ack"]
        /\ UNCHANGED <<attempt, since>>
     \/ /\ attempt[s] < MaxRetries
        /\ r = "silent" \/ (r = "rejected" /\ s \in Dms)
        /\ pc' = [pc EXCEPT ![s] = "sleep"]
        /\ attempt' = [attempt EXCEPT ![s] = @ + 1]
        /\ UNCHANGED since
     \/ /\ r # "ok"
        /\ s \in Dms \/ r # "silent" \/ attempt[s] = MaxRetries
        /\ pc' = [pc EXCEPT ![s] = "end"]
        /\ UNCHANGED <<attempt, since>>

(* The restore is left to the way out of a send that did not raise. *)
SendAnswered_NoFinally(s) ==
  /\ pc[s] = "frame" /\ step[s] = "send"
  /\ IF Scoped(s) /\ reply[s] # "raised"
       THEN /\ step' = [step EXCEPT ![s] = "restore"]
            /\ pc' = [pc EXCEPT ![s] = "pace"]
            /\ result' = [result EXCEPT ![s] = reply[s]]
            /\ UNCHANGED <<attempt, since, lock>>
       ELSE Release /\ Conclude(s, reply[s]) /\ UNCHANGED step
  /\ UNCHANGED <<accepted, reply, radio, claimed, faults, cancels>>

SendAnswered(s) ==
  /\ pc[s] = "frame" /\ step[s] = "send"
  /\ IF Scoped(s)
       THEN /\ step' = [step EXCEPT ![s] = "restore"]
            /\ pc' = [pc EXCEPT ![s] = "pace"]
            /\ result' = [result EXCEPT ![s] = reply[s]]
            /\ UNCHANGED <<attempt, since, lock>>
       ELSE Release /\ Conclude(s, reply[s]) /\ UNCHANGED step
  /\ UNCHANGED <<accepted, reply, radio, claimed, faults, cancels>>

(* The radio is not released. *)
RestoreAnswered_KeepsRadio(s) ==
  /\ pc[s] = "frame" /\ step[s] = "restore"
  /\ UNCHANGED lock
  /\ Conclude(s, IF reply[s] = "raised" THEN "raised" ELSE result[s])
  /\ UNCHANGED <<step, accepted, reply, radio, claimed, faults, cancels>>

RestoreAnswered(s) ==
  /\ pc[s] = "frame" /\ step[s] = "restore"
  /\ Release
  /\ Conclude(s, IF reply[s] = "raised" THEN "raised" ELSE result[s])
  /\ UNCHANGED <<step, accepted, reply, radio, claimed, faults, cancels>>

Acknowledged(s) ==
  /\ pc[s] = "ack"
  /\ pc' = [pc EXCEPT ![s] = "end"]
  /\ RecordSuccessfulSend(s)
  /\ UNCHANGED <<step, attempt, accepted, reply, result, lock, radio, claimed, faults, cancels>>

(* No ACK in time: another attempt, or the DM is given up.                  *)
AckMissing(s) ==
  /\ pc[s] = "ack" /\ faults < MaxFaults
  /\ faults' = faults + 1
  /\ result' = [result EXCEPT ![s] = "silent"]
  /\ IF attempt[s] < MaxRetries
       THEN pc' = [pc EXCEPT ![s] = "sleep"] /\ attempt' = [attempt EXCEPT ![s] = @ + 1]
       ELSE pc' = [pc EXCEPT ![s] = "end"] /\ UNCHANGED attempt
  /\ UNCHANGED <<step, accepted, reply, lock, radio, times, cancels>>

-----------------------------------------------------------------------------
(* The caller gives up, which raises in the task where it awaits: a scope   *)
(* is restored on the way out, unless the restore is what is interrupted.   *)

GiveUp(s) ==
  /\ s \in Cancellable /\ cancels < MaxCancels
  /\ result[s] # "cancelled"
  /\ cancels' = cancels + 1
  /\ result' = [result EXCEPT ![s] = "cancelled"]

CancelOutside(s) ==
  /\ pc[s] \in {"slot", "delay", "sleep", "ack"}
  /\ GiveUp(s)
  /\ pc' = [pc EXCEPT ![s] = "end"]
  /\ UNCHANGED <<step, attempt, accepted, reply, lock, radio, times, faults>>

CancelWaiting(s) ==
  /\ pc[s] = "wait"
  /\ GiveUp(s)
  /\ pc' = [pc EXCEPT ![s] = "end"]
  /\ \E i \in DOMAIN waiting :
       /\ waiting[i] = s
       /\ waiting' = SubSeq(waiting, 1, i - 1) \o SubSeq(waiting, i + 1, Len(waiting))
  /\ UNCHANGED <<step, attempt, accepted, reply, holder, radio, times, faults>>

CancelFrame(s) ==
  /\ pc[s] \in {"pace", "frame"}
  /\ GiveUp(s)
  /\ IF Scoped(s) /\ step[s] # "restore"
       THEN /\ step' = [step EXCEPT ![s] = "restore"]
            /\ pc' = [pc EXCEPT ![s] = "pace"]
            /\ UNCHANGED <<lock, pinned>>
       ELSE /\ pc' = [pc EXCEPT ![s] = "end"]
            /\ Release
            /\ pinned' = IF Scoped(s) /\ pc[s] = "pace" THEN device ELSE pinned
            /\ UNCHANGED step
  /\ UNCHANGED <<attempt, accepted, reply, device, air, times, faults>>

-----------------------------------------------------------------------------
(* The event loop keeps up: the clock moves on when each task waits for the *)
(* radio, a pause or another message.                                       *)
Ready(s) ==
  \/ pc[s] \in {"delay", "pace"}
  \/ pc[s] = "slot" /\ Passed(Tx)
  \/ pc[s] = "wait" /\ holder = NoSend

Tick ==
  /\ \A s \in Sends : ~Ready(s)
  /\ since' = [l \in Limits |-> IF ~Passed(l) THEN since[l] + 1 ELSE since[l]]
  /\ claimed' = IF claimed < Seconds[Tx] THEN claimed + 1 ELSE claimed
  /\ UNCHANGED <<task, lock, radio, faults, cancels>>

Work(s) ==
  \/ WaitForTx(s) \/ AskForRadio(s) \/ Acquire(s) \/ WriteFrame(s)
  \/ ScopeAnswered(s) \/ SendAnswered(s) \/ RestoreAnswered(s)
  \/ Acknowledged(s) \/ AckMissing(s)

Next ==
  \/ \E s \in Sends :
       \/ Refuse(s) \/ Admit(s) \/ Work(s)
       \/ CancelOutside(s) \/ CancelWaiting(s) \/ CancelFrame(s)
  \/ Tick

Spec == Init /\ [][Next]_vars

(* Tasks run, time passes, and the library ends the wait for an answer.     *)
Fairness == WF_vars(Tick) /\ \A s \in Sends : WF_vars(Work(s))

FairSpec == Spec /\ Fairness

-----------------------------------------------------------------------------
(* No message goes out under the scope of another one, however tasks        *)
(* interleave, unless a restore was lost: each goes out under its own scope *)
(* or global flood, or under what a lost restore has left behind.           *)
OwnScope == air.scope \in {Global, air.own, air.pinned}

(* Once the radio has accepted its scope, a message goes out under it.      *)
AcceptedScope == air.accepted => air.scope = air.own

(* The radio is on a regional scope only while the message that has set it  *)
(* holds the radio, or after a restore was lost.                            *)
ScopeIsHeld ==
  device # Global => \/ device = pinned
                     \/ holder # NoSend /\ device = Scope[holder]

(* Between two frames of the bot there is the answer, or the end of the     *)
(* wait for it: no two tasks exchange a frame at the same time.             *)
OneExchange ==
  \A s, t \in Sends : pc[s] = "frame" /\ pc[t] = "frame" => s = t

(* Slots of the transmitter are claimed an interval apart.                  *)
SlotsSpaced ==
  [][\A s \in Sends : pc[s] \in {"idle", "slot"} /\ pc'[s] = "delay" => claimed >= Seconds[Tx]]_vars

(* Every message that is taken up ends, whatever waits for the radio.       *)
EverySendEnds == \A s \in Sends : pc[s] # "idle" ~> pc[s] = "end"
=============================================================================
