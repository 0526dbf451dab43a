----------------------------- MODULE RadioOffline -----------------------------
(***************************************************************************)
(* The radio-offline circuit breaker of the bot (modules/radio_offline.py) *)
(* with everything that drives it: the scheduler thread's measured sends,  *)
(* the replies sent by the event loop, the set-up advert, the health       *)
(* probe, the worker thread that honours the web viewer's "Clear Offline   *)
(* Flag", and the viewer itself, a separate process that can only write    *)
(* the bot_metadata row.                                                   *)
(*                                                                         *)
(* What a step may interleave with is what the code leaves unlocked: each  *)
(* section under _offline_lock is one step; a publication, serialized by   *)
(* _offline_publish_lock, is one step per access to memory or database.    *)
(*                                                                         *)
(* The start timestamp that travels with the flag, log lines and the text  *)
(* of the alert email are left out: nothing in the breaker reads them.     *)
(***************************************************************************)
EXTENDS Integers

CONSTANTS
  Measured,     (* callers of the scheduler's _run_measured_send            *)
  Interactive,  (* replies in progress: send_dm / send_channel_message      *)
  Setup,        (* the task that sends the start-up advert                  *)
  Health,       (* the worker thread of the viewer-clear check              *)
  Nobody,       (* no thread holds the publish lock                         *)
  Threshold,    (* radio_offline_threshold                                  *)
  MaxGeneration,(* bound: outage transitions explored                       *)
  MaxTrials,    (* bound: trial ids handed out                              *)
  MaxFaults,    (* bound: database accesses that fail                       *)
  MaxClears     (* bound: presses of "Clear Offline Flag"                   *)

Senders == Measured \cup Interactive \cup {Setup}
Threads == Senders \cup {Health}

ASSUME RadioOfflineAssumption ==
  /\ Threshold \in Nat \ {0}
  /\ MaxGeneration \in Nat /\ MaxTrials \in Nat
  /\ MaxFaults \in Nat /\ MaxClears \in Nat
  /\ Measured \cap Interactive = {}
  /\ Setup \notin Measured \cup Interactive
  /\ Health \notin Senders
  /\ Nobody \notin Threads

VARIABLES
  offline,     (* _radio_offline                                            *)
  trial,       (* _radio_offline_trial: "none", "armed" or "in_flight"      *)
  trialId,     (* _radio_offline_trial_id, the last id handed out           *)
  failures,    (* _send_consecutive_failures, counted up to Threshold       *)
  generation,  (* _radio_offline_generation                                 *)
  alerted,     (* _radio_offline_alerted                                    *)
  persisted,   (* _radio_offline_persisted_generation, -1 for None          *)
  pc,          (* where each thread is                                      *)
  held,        (* the trial id each sender was admitted with, 0 for none    *)
  publisher,   (* holder of _offline_publish_lock                           *)
  step,        (* where the publish lock's holder is                        *)
  snap,        (* what the publish lock's holder read from memory           *)
  db,          (* the stored bot.radio_offline                              *)
  dbWriter,    (* history: who changed the stored value last                *)
  probed,      (* history: an answered probe no trial was let out on yet    *)
  faults,      (* failed database accesses so far                           *)
  clears       (* viewer clears so far                                      *)

breaker == <<offline, trial, trialId, failures, generation, alerted>>
publication == <<persisted, publisher, step, snap>>
store == <<db, dbWriter, faults, clears>>
vars == <<breaker, publication, store, pc, held, probed>>

NoTrial == 0
NoGeneration == -1

TrialStates == {"none", "armed", "in_flight"}
SenderStates == {"idle", "checked", "admitted", "out", "publish", "syncing"}
PublishSteps == {"free", "snapshot", "write", "readback", "confirm", "read", "clear"}

TypeOK ==
  /\ offline \in BOOLEAN /\ alerted \in BOOLEAN /\ probed \in BOOLEAN
  /\ trial \in TrialStates
  /\ trialId \in Nat /\ failures \in 0..Threshold
  /\ generation \in Nat /\ persisted \in Nat \cup {NoGeneration}
  /\ pc \in [Threads -> SenderStates]
  /\ held \in [Senders -> Nat]
  /\ publisher \in Threads \cup {Nobody}
  /\ step \in PublishSteps
  /\ snap \in [offline : BOOLEAN, generation : Nat]
  /\ db \in {"none", "true", "false"} /\ dbWriter \in {"bot", "viewer"}
  /\ faults \in Nat /\ clears \in Nat

-----------------------------------------------------------------------------
(* What start() leaves behind before the senders run: no outage in memory,  *)
(* and its publication of "false", unless that write failed and an earlier  *)
(* run's value is still stored.                                             *)
Init ==
  /\ offline = FALSE /\ trial = "none" /\ trialId = 0
  /\ failures = 0 /\ generation = 0 /\ alerted = FALSE
  /\ persisted = NoGeneration
  /\ pc = [t \in Threads |-> IF t = Setup THEN "out" ELSE "idle"]
  /\ held = [s \in Senders |-> NoTrial]
  /\ publisher = Nobody /\ step = "free"
  /\ snap = [offline |-> FALSE, generation |-> 0]
  /\ \/ db = "false" /\ faults = 0
     \/ db \in {"none", "true"} /\ faults = 1 /\ MaxFaults > 0
  /\ dbWriter = "bot" /\ probed = FALSE /\ clears = 0

-----------------------------------------------------------------------------
(* The breaker's own operations, each one section under _offline_lock. They *)
(* are parts of the actions below and leave pc and held to them.            *)

HoldsOfflineTrial(id) ==
  id # NoTrial /\ trial = "in_flight" /\ trialId = id

IsRadioOffline(id) == offline /\ ~HoldsOfflineTrial(id)

ResetOfflineState ==
  /\ offline' = FALSE
  /\ trial' = "none"
  /\ alerted' = FALSE
  /\ failures' = 0
  /\ generation' = generation + 1
  /\ UNCHANGED trialId

(* _admit_measured_send while offline: the armed trial is claimed, once. *)
ClaimTrial ==
  /\ offline /\ trial = "armed" /\ trialId < MaxTrials
  /\ trial' = "in_flight"
  /\ trialId' = trialId + 1
  /\ UNCHANGED <<offline, failures, generation, alerted>>

EndOfflineTrial_Forgets(id) == UNCHANGED breaker

EndOfflineTrial(id) ==
  /\ trial' = IF HoldsOfflineTrial(id) THEN "none" ELSE trial
  /\ UNCHANGED <<offline, trialId, failures, generation, alerted>>

RecordSendInconclusive(id) ==
  /\ trial' = IF HoldsOfflineTrial(id) THEN "armed" ELSE trial
  /\ UNCHANGED <<offline, trialId, failures, generation, alerted>>

(* Whether the next failure reaches the threshold and starts an outage. *)
Trips == ~offline /\ failures + 1 >= Threshold

StartOutage ==
  /\ generation + 2 <= MaxGeneration
  /\ offline' = TRUE
  /\ trial' = "none"
  /\ failures' = failures + 1
  /\ generation' = generation + 1
  /\ alerted' = TRUE
  /\ UNCHANGED trialId

CountFailure(id) ==
  /\ failures' = IF failures < Threshold THEN failures + 1 ELSE failures
  /\ trial' = IF offline /\ HoldsOfflineTrial(id) THEN "none" ELSE trial
  /\ UNCHANGED <<offline, trialId, generation, alerted>>

Clears_AnySuccess(id) == offline

(* Whether a success recorded with this id ends the outage. *)
Clears(id) == offline /\ HoldsOfflineTrial(id)

ForgetFailures ==
  /\ failures' = IF offline THEN failures ELSE 0
  /\ UNCHANGED <<offline, trial, trialId, generation, alerted>>

-----------------------------------------------------------------------------
Goto(t, to) == pc' = [pc EXCEPT ![t] = to]

Return(s) ==
  /\ Goto(s, "idle")
  /\ held' = [held EXCEPT ![s] = NoTrial]

(* send_scheduled_message and send_interval_advert, up to the admission. A  *)
(* refused caller returns at once and changes nothing.                      *)
MeasuredAdmit(s) ==
  /\ s \in Measured /\ pc[s] = "idle"
  /\ \/ /\ ~offline
        /\ UNCHANGED <<breaker, held>>
     \/ /\ ClaimTrial
        /\ held' = [held EXCEPT ![s] = trialId + 1]
  /\ Goto(s, "admitted")
  /\ UNCHANGED <<publication, store, probed>>

(* A reply that finds the breaker open. One that finds it closed neither    *)
(* reads nor writes the breaker again and is not followed.                  *)
InteractiveCheck(s) ==
  /\ s \in Interactive /\ pc[s] = "idle"
  /\ IsRadioOffline(held[s])
  /\ Goto(s, "checked")
  /\ UNCHANGED <<breaker, publication, store, held, probed>>

(* Between the check and the admission another thread may have changed the  *)
(* breaker: the reply may be admitted without a trial, or refused.          *)
InteractiveAdmit(s) ==
  /\ s \in Interactive /\ pc[s] = "checked"
  /\ \/ /\ ~offline
        /\ Goto(s, "admitted")
        /\ held' = [held EXCEPT ![s] = NoTrial]
        /\ UNCHANGED breaker
     \/ /\ ClaimTrial
        /\ Goto(s, "admitted")
        /\ held' = [held EXCEPT ![s] = trialId + 1]
     \/ /\ offline /\ trial # "armed"
        /\ Return(s)
        /\ UNCHANGED breaker
  /\ UNCHANGED <<publication, store, probed>>

(* The send path's own guard, passed: the message may go on the air. The    *)
(* interval advert has no such guard.                                       *)
LetThrough(s) ==
  /\ s \in Measured \cup Interactive /\ pc[s] = "admitted"
  /\ s \in Measured \/ ~IsRadioOffline(held[s])
  /\ Goto(s, "out")
  /\ probed' = IF Clears(held[s]) THEN FALSE ELSE probed
  /\ UNCHANGED <<breaker, publication, store, held>>

(* The guard refuses an admitted reply whose trial is no longer the one in  *)
(* flight: the reply starts over at the admission.                          *)
GuardRefuses(s) ==
  /\ s \in Interactive /\ pc[s] = "admitted"
  /\ IsRadioOffline(held[s])
  /\ Goto(s, "checked")
  /\ held' = [held EXCEPT ![s] = NoTrial]
  /\ UNCHANGED <<breaker, publication, store, probed>>

(* _record_send_success with the sender's trial id. *)
SendSucceeds(s) ==
  /\ s \in Measured \cup Interactive /\ pc[s] = "out"
  /\ held' = [held EXCEPT ![s] = NoTrial]
  /\ \/ Clears(held[s]) /\ ResetOfflineState /\ Goto(s, "publish")
     \/ ~Clears(held[s]) /\ ForgetFailures /\ Goto(s, "idle")
  /\ UNCHANGED <<publication, store, probed>>

(* _record_send_failure: the 60 s wait ran out or the send raised. The      *)
(* start-up advert reports its own timeout this way too.                    *)
SendTimesOut(s) ==
  /\ \/ s \in Measured /\ pc[s] \in {"admitted", "out"}
     \/ s = Setup /\ pc[s] = "out"
  /\ held' = [held EXCEPT ![s] = NoTrial]
  /\ \/ Trips /\ StartOutage /\ Goto(s, "publish")
     \/ ~Trips /\ CountFailure(held[s]) /\ Goto(s, "idle")
  /\ UNCHANGED <<publication, store, probed>>

(* The send reported failure (or a reply raised) without a timeout. An      *)
(* ordinary send moves nothing; a trial ends.                               *)
SendReturnsFalse(s) ==
  /\ s \in Senders /\ pc[s] \in {"admitted", "out"}
  /\ EndOfflineTrial(held[s])
  /\ Return(s)
  /\ UNCHANGED <<publication, store, probed>>

(* The scheduler lost the event loop, or left by an exception, before the   *)
(* send was let out.                                                        *)
SendAborted(s) ==
  /\ s \in Measured /\ pc[s] = "admitted"
  /\ RecordSendInconclusive(held[s])
  /\ Return(s)
  /\ UNCHANGED <<publication, store, probed>>

(* _probe_radio_health got an answer: _allow_offline_trial. *)
ProbeAnswered ==
  /\ offline /\ trial = "none"
  /\ trial' = "armed"
  /\ probed' = TRUE
  /\ UNCHANGED <<offline, trialId, failures, generation, alerted>>
  /\ UNCHANGED <<publication, store, pc, held>>

-----------------------------------------------------------------------------
(* Publication: _publish_offline_state, under the publish lock.             *)

Fault == faults < MaxFaults /\ faults' = faults + 1

Unlock ==
  /\ publisher' = Nobody
  /\ step' = "free"
  /\ Goto(publisher, "idle")

PublishAcquire(t) ==
  /\ pc[t] = "publish" /\ publisher = Nobody
  /\ publisher' = t
  /\ step' = "snapshot"
  /\ UNCHANGED <<breaker, store, persisted, snap, pc, held, probed>>

PublishSnapshot_Stale ==
  /\ step = "snapshot"
  /\ step' = "write"
  /\ UNCHANGED <<breaker, store, persisted, publisher, snap, pc, held, probed>>

PublishSnapshot ==
  /\ step = "snapshot"
  /\ snap' = [offline |-> offline, generation |-> generation]
  /\ step' = "write"
  /\ UNCHANGED <<breaker, store, persisted, publisher, pc, held, probed>>

(* set_metadata swallows its own errors: a failed write looks like one that *)
(* worked.                                                                  *)
PublishWrite ==
  /\ step = "write"
  /\ \/ /\ db' = IF snap.offline THEN "true" ELSE "false"
        /\ dbWriter' = "bot"
        /\ UNCHANGED faults
     \/ Fault /\ UNCHANGED <<db, dbWriter>>
  /\ IF snap.offline
       THEN step' = "readback" /\ UNCHANGED <<publisher, pc>>
       ELSE Unlock
  /\ UNCHANGED <<breaker, persisted, snap, clears, held, probed>>

PublishReadBack ==
  /\ step = "readback"
  /\ \/ /\ db = "true"
        /\ step' = "confirm"
        /\ UNCHANGED <<faults, publisher, pc>>
     \/ db # "true" /\ Unlock /\ UNCHANGED faults
     \/ Fault /\ Unlock
  /\ UNCHANGED <<breaker, persisted, snap, db, dbWriter, clears, held, probed>>

PublishConfirm ==
  /\ step = "confirm"
  /\ persisted' = IF generation = snap.generation THEN generation ELSE persisted
  /\ Unlock
  /\ UNCHANGED <<breaker, snap, store, held, probed>>

(* The viewer-clear check falls due, at most every 30 s and while offline.  *)
SyncDue ==
  /\ pc[Health] = "idle" /\ offline
  /\ Goto(Health, "syncing")
  /\ UNCHANGED <<breaker, publication, store, held, probed>>

SyncConfirmed == persisted = generation

SyncAcquire_NoRetry ==
  /\ pc[Health] = "syncing" /\ publisher = Nobody
  /\ IF SyncConfirmed
       THEN /\ publisher' = Health /\ Goto(Health, "publish")
            /\ step' = "read" /\ snap' = [offline |-> offline, generation |-> generation]
       ELSE Goto(Health, "idle") /\ UNCHANGED <<publisher, step, snap>>
  /\ UNCHANGED <<breaker, persisted, store, held, probed>>

(* An unconfirmed write is retried; a stored value is trusted only once     *)
(* this process has confirmed its own for the current outage.               *)
SyncAcquire ==
  /\ pc[Health] = "syncing" /\ publisher = Nobody
  /\ publisher' = Health
  /\ Goto(Health, "publish")
  /\ IF SyncConfirmed
       THEN step' = "read" /\ snap' = [offline |-> offline, generation |-> generation]
       ELSE step' = "snapshot" /\ UNCHANGED snap
  /\ UNCHANGED <<breaker, persisted, store, held, probed>>

SyncRead ==
  /\ step = "read"
  /\ \/ /\ db = "false"
        /\ step' = "clear"
        /\ UNCHANGED <<faults, publisher, pc>>
     \/ db # "false" /\ Unlock /\ UNCHANGED faults
     \/ Fault /\ Unlock
  /\ UNCHANGED <<breaker, persisted, snap, db, dbWriter, clears, held, probed>>

(* _clear_radio_offline_state(expected_generation): the outage the stored   *)
(* value was read for, or none.                                             *)
SyncClear ==
  /\ step = "clear"
  /\ IF offline /\ generation = snap.generation
       THEN ResetOfflineState /\ step' = "snapshot" /\ UNCHANGED <<publisher, pc>>
       ELSE UNCHANGED breaker /\ Unlock
  /\ UNCHANGED <<persisted, snap, store, held, probed>>

(* The viewer's process writes the row; it cannot reach the bot's memory.   *)
ViewerClears ==
  /\ clears < MaxClears
  /\ clears' = clears + 1
  /\ db' = "false"
  /\ dbWriter' = IF db = "true" THEN "viewer" ELSE dbWriter
  /\ UNCHANGED <<breaker, publication, faults, pc, held, probed>>

-----------------------------------------------------------------------------
Settle(s) ==
  \/ SendSucceeds(s) \/ SendTimesOut(s) \/ SendReturnsFalse(s) \/ SendAborted(s)

Sender(s) ==
  \/ MeasuredAdmit(s) \/ InteractiveCheck(s) \/ InteractiveAdmit(s)
  \/ LetThrough(s) \/ GuardRefuses(s) \/ Settle(s)

Publish ==
  \/ PublishSnapshot \/ PublishWrite \/ PublishReadBack \/ PublishConfirm
  \/ SyncRead \/ SyncClear

Next ==
  \/ \E s \in Senders : Sender(s)
  \/ \E t \in Threads : PublishAcquire(t)
  \/ Publish
  \/ SyncDue \/ SyncAcquire
  \/ ProbeAnswered
  \/ ViewerClears

Spec == Init /\ [][Next]_vars

(* A send is given up after at most 60 s, a thread that holds the publish   *)
(* lock is not blocked by anything, a waiting thread gets the lock in turn, *)
(* and the main loop comes back to the viewer-clear check. Nothing is       *)
(* assumed of the radio, of the probes, of new sends or of the viewer.      *)
Fairness ==
  /\ \A s \in Senders : WF_vars(InteractiveAdmit(s) \/ GuardRefuses(s) \/ Settle(s))
  /\ \A s \in Senders : SF_vars(PublishAcquire(s))
  /\ WF_vars(Publish)
  /\ WF_vars(SyncDue) /\ SF_vars(SyncAcquire)

FairSpec == Spec /\ Fairness

-----------------------------------------------------------------------------
(* A sender is using the trial that is in flight. *)
Holder(s) == pc[s] \in {"admitted", "out"} /\ HoldsOfflineTrial(held[s])

(* The trial in flight belongs to exactly one send that is still running:   *)
(* it is never claimed twice, and no way out of a send (timeout, False,     *)
(* exception, lost event loop) leaves it claimed with nobody to settle it,  *)
(* which would suppress every send until a restart.                         *)
TrialHasOneHolder ==
  trial = "in_flight" =>
    \E s \in Senders : Holder(s) /\ \A r \in Senders : Holder(r) => r = s

(* An outage that begins always raises the one alert of that outage: the    *)
(* latch of the previous one is down whenever the breaker is closed.        *)
AlertLatchFollowsOutage == alerted = offline

(* With no failed database access, no viewer clear since the bot last wrote *)
(* and no publication under way, the banner's flag is the breaker's state:  *)
(* a slow writer never leaves an older transition behind.                   *)
BannerMatchesBreaker ==
  (faults = 0 /\ dbWriter = "bot" /\ \A t \in Threads : pc[t] # "publish")
    => (db = "true") = offline

(* A dead radio gets at most one send per answered probe: a trial is let    *)
(* out only on a probe that no earlier trial was let out on.                *)
OneAttemptPerProbe ==
  [][\A s \in Senders :
       (pc[s] = "admitted" /\ pc'[s] = "out" /\ offline /\ HoldsOfflineTrial(held[s]))
         => probed]_vars

(* An outage ends only by the success of the trial in flight or by a viewer *)
(* clear that is in the store when the check acts on it: never by a late    *)
(* success of an older send, and never by the bot's own stale "false".      *)
OutageEndsForAReason ==
  [][(offline /\ ~offline') =>
       \/ \E s \in Senders : pc[s] = "out" /\ Holder(s)
       \/ step = "clear" /\ db = "false" /\ dbWriter = "viewer"]_vars

(* Every trial in flight is settled, whatever becomes of its send; while it *)
(* is in flight no probe can arm another, so an unsettled one would         *)
(* suppress the bot for good. (Two trials never follow each other directly: *)
(* the second must be armed first.)                                         *)
TrialSettles == trial = "in_flight" ~> trial # "in_flight"

(* An outage is confirmed in the store for the viewer's banner, or ends,    *)
(* even if the first writes fail: the viewer-clear check retries them.      *)
OutageReachesViewer ==
  (offline /\ persisted # generation) ~> (~offline \/ persisted = generation)

-----------------------------------------------------------------------------
(* The breaker implements CircuitBreaker: ids, locks and the database round *)
(* trip to the viewer change nothing an operator could tell.                *)

BreakerState ==
  CASE ~offline -> "closed"
    [] offline /\ trial = "none" -> "open"
    [] offline /\ trial = "armed" -> "armed"
    [] offline /\ trial = "in_flight" -> "trial"

TrialHolder ==
  IF \E s \in Senders : Holder(s) THEN CHOOSE s \in Senders : Holder(s) ELSE Nobody

Abstract == INSTANCE CircuitBreaker WITH
  state <- BreakerState,
  holder <- TrialHolder,
  request <- (db = "false" /\ dbWriter = "viewer")

(* The breaker opens, arms, admits and closes as CircuitBreaker does, and   *)
(* every other step of a sender, a publication or a check is a stutter.     *)
ImplementsCircuitBreaker == Abstract!Spec
=============================================================================
