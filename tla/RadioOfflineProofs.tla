-------------------------- MODULE RadioOfflineProofs --------------------------
(* Proofs about RadioOffline for every set of senders, every threshold and  *)
(* every bound.                                                             *)
EXTENDS RadioOffline, TLAPS

(* Failures are counted below the threshold until an outage starts, and the *)
(* alert latch is up exactly during one.                                    *)
BreakerInv ==
  /\ ~offline => failures < Threshold
  /\ alerted <=> offline

(* The publish lock has a holder exactly while a publication or a check is  *)
(* under way, and that holder is waiting for nothing else.                  *)
LockInv ==
  /\ publisher = Nobody <=> step = "free"
  /\ publisher # Nobody => pc[publisher] = "publish"

(* Ids are handed out once: no two running sends were admitted as the same  *)
(* trial, and the trial in flight, if any, has a running send.              *)
TrialInv ==
  /\ \A s \in Senders : held[s] <= trialId
  /\ \A s \in Senders : held[s] # NoTrial => pc[s] \in {"admitted", "out"}
  /\ \A r, s \in Senders : held[r] = held[s] /\ held[r] # NoTrial => r = s
  /\ trial # "none" => offline
  /\ trial = "in_flight" =>
       trialId # NoTrial /\ \E s \in Senders : held[s] = trialId

(* An armed trial, and a claimed one not yet let out, stand on a probe that *)
(* no earlier trial was let out on.                                         *)
ProbeInv ==
  /\ trial = "armed" => probed
  /\ \A s \in Senders :
       trial = "in_flight" /\ held[s] = trialId /\ pc[s] = "admitted" => probed

(* Once the bot has confirmed its own "true" for the current outage, the    *)
(* store holds that value or a viewer's "false".                            *)
StoreInv ==
  /\ persisted <= generation /\ snap.generation <= generation
  /\ step \in {"write", "readback", "confirm"} /\ snap.generation = generation
       => snap.offline = offline
  /\ step = "write" /\ persisted = generation => snap.generation = generation
  /\ step = "confirm" /\ snap.generation = generation
       => db = "true" \/ (db = "false" /\ dbWriter = "viewer")
  /\ step \in {"read", "clear"} => persisted = snap.generation
  /\ step = "clear" => db = "false"
  /\ offline /\ persisted = generation
       => db = "true" \/ (db = "false" /\ dbWriter = "viewer")

IInv == TypeOK /\ BreakerInv /\ LockInv /\ TrialInv /\ ProbeInv /\ StoreInv

LEMMA InitInv == Init => IInv
<1> SUFFICES ASSUME Init PROVE IInv
  OBVIOUS
<1> USE RadioOfflineAssumption DEF RadioOfflineAssumption, Init, Senders, Threads, NoTrial, NoGeneration
<1>1. TypeOK
  <2>1. pc \in [Threads -> SenderStates] /\ held \in [Senders -> Nat]
    BY DEF SenderStates
  <2>2. faults \in Nat /\ db \in {"none", "true", "false"}
    BY SMTT(30)
  <2>3. offline \in BOOLEAN /\ alerted \in BOOLEAN /\ probed \in BOOLEAN
    OBVIOUS
  <2>4. /\ persisted \in Nat \cup {NoGeneration} /\ failures \in 0..Threshold
        /\ snap \in [offline : BOOLEAN, generation : Nat] /\ dbWriter \in {"bot", "viewer"}
    OBVIOUS
  <2>5. /\ trial \in TrialStates /\ step \in PublishSteps
        /\ trialId \in Nat /\ generation \in Nat /\ clears \in Nat
        /\ publisher \in Threads \cup {Nobody}
    BY DEF TrialStates, PublishSteps
  <2>6. QED
    BY <2>1, <2>2, <2>3, <2>4, <2>5 DEF TypeOK
<1>2. BreakerInv /\ LockInv
  BY DEF BreakerInv, LockInv
<1>3. TrialInv /\ ProbeInv
  <2>1. \A s \in Senders : held[s] = NoTrial
    OBVIOUS
  <2>2. trial = "none" /\ trialId = 0
    OBVIOUS
  <2> HIDE DEF Init, Senders
  <2>3. TrialInv
    BY <2>1, <2>2 DEF TrialInv
  <2>4. QED
    BY <2>2, <2>3 DEF ProbeInv
<1>4. StoreInv
  BY DEF StoreInv
<1>5. QED
  BY <1>1, <1>2, <1>3, <1>4 DEF IInv

LEMMA StepInv == IInv /\ [Next]_vars => IInv'
<1> SUFFICES ASSUME IInv, [Next]_vars PROVE IInv'
  OBVIOUS
<1> USE RadioOfflineAssumption DEF RadioOfflineAssumption, IInv, TypeOK, BreakerInv, LockInv, TrialInv, ProbeInv, StoreInv,
      Senders, Threads, NoTrial, NoGeneration, TrialStates, SenderStates, PublishSteps,
      breaker, publication, store
<1>1. ASSUME NEW s \in Senders, MeasuredAdmit(s) PROVE IInv'
  <2>1. TypeOK'
    BY <1>1 DEF MeasuredAdmit, ClaimTrial, Goto
  <2>2. BreakerInv'
    BY <1>1 DEF MeasuredAdmit, ClaimTrial, Goto
  <2>3. LockInv'
    BY <1>1 DEF MeasuredAdmit, ClaimTrial, Goto
  <2>4. TrialInv'
    BY <1>1 DEF MeasuredAdmit, ClaimTrial, Goto
  <2>5. ProbeInv'
    BY <1>1 DEF MeasuredAdmit, ClaimTrial, Goto
  <2>6. StoreInv'
    BY <1>1 DEF MeasuredAdmit, ClaimTrial, Goto
  <2>7. QED
    BY <2>1, <2>2, <2>3, <2>4, <2>5, <2>6
<1>2. ASSUME NEW s \in Senders, InteractiveCheck(s) PROVE IInv'
  <2>1. TypeOK'
    BY <1>2 DEF InteractiveCheck, Goto
  <2>2. BreakerInv'
    BY <1>2 DEF InteractiveCheck, Goto
  <2>3. LockInv'
    BY <1>2 DEF InteractiveCheck, Goto
  <2>4. TrialInv'
    BY <1>2 DEF InteractiveCheck, Goto
  <2>5. ProbeInv'
    BY <1>2 DEF InteractiveCheck, Goto
  <2>6. StoreInv'
    BY <1>2 DEF InteractiveCheck, Goto
  <2>7. QED
    BY <2>1, <2>2, <2>3, <2>4, <2>5, <2>6
<1>3. ASSUME NEW s \in Senders, InteractiveAdmit(s) PROVE IInv'
  <2>1. TypeOK'
    BY <1>3 DEF InteractiveAdmit, ClaimTrial, Goto, Return
  <2>2. BreakerInv'
    BY <1>3 DEF InteractiveAdmit, ClaimTrial, Goto, Return
  <2>3. LockInv'
    BY <1>3 DEF InteractiveAdmit, ClaimTrial, Goto, Return
  <2>4. TrialInv'
    BY <1>3 DEF InteractiveAdmit, ClaimTrial, Goto, Return
  <2>5. ProbeInv'
    BY <1>3 DEF InteractiveAdmit, ClaimTrial, Goto, Return
  <2>6. StoreInv'
    BY <1>3 DEF InteractiveAdmit, ClaimTrial, Goto, Return
  <2>7. QED
    BY <2>1, <2>2, <2>3, <2>4, <2>5, <2>6
<1>4. ASSUME NEW s \in Senders, LetThrough(s) PROVE IInv'
  <2>1. TypeOK'
    <3>1. offline' \in BOOLEAN /\ alerted' \in BOOLEAN /\ probed' \in BOOLEAN
      BY <1>4 DEF LetThrough, Goto, Clears, HoldsOfflineTrial, IsRadioOffline
    <3>2. /\ trial' \in TrialStates /\ trialId' \in Nat
          /\ failures' \in 0..Threshold /\ generation' \in Nat
      BY <1>4 DEF LetThrough, Goto, Clears, HoldsOfflineTrial, IsRadioOffline
    <3>3. pc' \in [Threads -> SenderStates] /\ held' \in [Senders -> Nat]
      BY <1>4 DEF LetThrough, Goto, Clears, HoldsOfflineTrial, IsRadioOffline
    <3>4. /\ persisted' \in Nat \cup {NoGeneration} /\ publisher' \in Threads \cup {Nobody}
          /\ step' \in PublishSteps /\ snap' \in [offline : BOOLEAN, generation : Nat]
          /\ db' \in {"none", "true", "false"} /\ dbWriter' \in {"bot", "viewer"}
          /\ faults' \in Nat /\ clears' \in Nat
      BY <1>4 DEF LetThrough, Goto, Clears, HoldsOfflineTrial, IsRadioOffline
    <3>5. QED
      BY <3>1, <3>2, <3>3, <3>4
  <2>2. BreakerInv'
    BY <1>4 DEF LetThrough, Goto, Clears, HoldsOfflineTrial, IsRadioOffline
  <2>3. LockInv'
    BY <1>4 DEF LetThrough, Goto, Clears, HoldsOfflineTrial, IsRadioOffline
  <2>4. TrialInv'
    BY <1>4 DEF LetThrough, Goto, Clears, HoldsOfflineTrial, IsRadioOffline
  <2>5. ProbeInv'
    BY <1>4 DEF LetThrough, Goto, Clears, HoldsOfflineTrial, IsRadioOffline
  <2>6. StoreInv'
    BY <1>4 DEF LetThrough, Goto, Clears, HoldsOfflineTrial, IsRadioOffline
  <2>7. QED
    BY <2>1, <2>2, <2>3, <2>4, <2>5, <2>6
<1>5. ASSUME NEW s \in Senders, GuardRefuses(s) PROVE IInv'
  <2>1. TypeOK'
    BY <1>5 DEF GuardRefuses, Goto, IsRadioOffline, HoldsOfflineTrial
  <2>2. BreakerInv'
    BY <1>5 DEF GuardRefuses, Goto, IsRadioOffline, HoldsOfflineTrial
  <2>3. LockInv'
    BY <1>5 DEF GuardRefuses, Goto, IsRadioOffline, HoldsOfflineTrial
  <2>4. TrialInv'
    BY <1>5 DEF GuardRefuses, Goto, IsRadioOffline, HoldsOfflineTrial
  <2>5. ProbeInv'
    BY <1>5 DEF GuardRefuses, Goto, IsRadioOffline, HoldsOfflineTrial
  <2>6. StoreInv'
    BY <1>5 DEF GuardRefuses, Goto, IsRadioOffline, HoldsOfflineTrial
  <2>7. QED
    BY <2>1, <2>2, <2>3, <2>4, <2>5, <2>6
<1>6. ASSUME NEW s \in Senders, SendSucceeds(s) PROVE IInv'
  <2>1. TypeOK'
    <3>1. offline' \in BOOLEAN /\ alerted' \in BOOLEAN /\ probed' \in BOOLEAN
      BY <1>6 DEF SendSucceeds, Clears, HoldsOfflineTrial, ResetOfflineState, ForgetFailures, Goto
    <3>2. /\ trial' \in TrialStates /\ trialId' \in Nat
          /\ failures' \in 0..Threshold /\ generation' \in Nat
      BY <1>6 DEF SendSucceeds, Clears, HoldsOfflineTrial, ResetOfflineState, ForgetFailures, Goto
    <3>3. pc' \in [Threads -> SenderStates] /\ held' \in [Senders -> Nat]
      BY <1>6 DEF SendSucceeds, Clears, HoldsOfflineTrial, ResetOfflineState, ForgetFailures, Goto
    <3>4. /\ persisted' \in Nat \cup {NoGeneration} /\ publisher' \in Threads \cup {Nobody}
          /\ step' \in PublishSteps /\ snap' \in [offline : BOOLEAN, generation : Nat]
          /\ db' \in {"none", "true", "false"} /\ dbWriter' \in {"bot", "viewer"}
          /\ faults' \in Nat /\ clears' \in Nat
      BY <1>6 DEF SendSucceeds, Clears, HoldsOfflineTrial, ResetOfflineState, ForgetFailures, Goto
    <3>5. QED
      BY <3>1, <3>2, <3>3, <3>4
  <2>2. BreakerInv'
    BY <1>6 DEF SendSucceeds, Clears, HoldsOfflineTrial, ResetOfflineState, ForgetFailures, Goto
  <2>3. LockInv'
    BY <1>6 DEF SendSucceeds, Clears, HoldsOfflineTrial, ResetOfflineState, ForgetFailures, Goto
  <2>4. TrialInv'
    BY <1>6 DEF SendSucceeds, Clears, HoldsOfflineTrial, ResetOfflineState, ForgetFailures, Goto
  <2>5. ProbeInv'
    BY <1>6 DEF SendSucceeds, Clears, HoldsOfflineTrial, ResetOfflineState, ForgetFailures, Goto
  <2>6. StoreInv'
    BY <1>6 DEF SendSucceeds, Clears, HoldsOfflineTrial, ResetOfflineState, ForgetFailures, Goto
  <2>7. QED
    BY <2>1, <2>2, <2>3, <2>4, <2>5, <2>6
<1>7. ASSUME NEW s \in Senders, SendTimesOut(s) PROVE IInv'
  <2>1. TypeOK'
    <3>1. offline' \in BOOLEAN /\ alerted' \in BOOLEAN /\ probed' \in BOOLEAN
      BY <1>7 DEF SendTimesOut, Trips, StartOutage, CountFailure, HoldsOfflineTrial, Goto
    <3>2. /\ trial' \in TrialStates /\ trialId' \in Nat
          /\ failures' \in 0..Threshold /\ generation' \in Nat
      BY <1>7 DEF SendTimesOut, Trips, StartOutage, CountFailure, HoldsOfflineTrial, Goto
    <3>3. pc' \in [Threads -> SenderStates] /\ held' \in [Senders -> Nat]
      BY <1>7 DEF SendTimesOut, Trips, StartOutage, CountFailure, HoldsOfflineTrial, Goto
    <3>4. /\ persisted' \in Nat \cup {NoGeneration} /\ publisher' \in Threads \cup {Nobody}
          /\ step' \in PublishSteps /\ snap' \in [offline : BOOLEAN, generation : Nat]
          /\ db' \in {"none", "true", "false"} /\ dbWriter' \in {"bot", "viewer"}
          /\ faults' \in Nat /\ clears' \in Nat
      BY <1>7 DEF SendTimesOut, Trips, StartOutage, CountFailure, HoldsOfflineTrial, Goto
    <3>5. QED
      BY <3>1, <3>2, <3>3, <3>4
  <2>2. BreakerInv'
    BY <1>7 DEF SendTimesOut, Trips, StartOutage, CountFailure, HoldsOfflineTrial, Goto
  <2>3. LockInv'
    BY <1>7 DEF SendTimesOut, Trips, StartOutage, CountFailure, HoldsOfflineTrial, Goto
  <2>4. TrialInv'
    BY <1>7 DEF SendTimesOut, Trips, StartOutage, CountFailure, HoldsOfflineTrial, Goto
  <2>5. ProbeInv'
    BY <1>7 DEF SendTimesOut, Trips, StartOutage, CountFailure, HoldsOfflineTrial, Goto
  <2>6. StoreInv'
    BY <1>7 DEF SendTimesOut, Trips, StartOutage, CountFailure, HoldsOfflineTrial, Goto
  <2>7. QED
    BY <2>1, <2>2, <2>3, <2>4, <2>5, <2>6
<1>8. ASSUME NEW s \in Senders, SendReturnsFalse(s) PROVE IInv'
  <2>1. TypeOK'
    BY <1>8 DEF SendReturnsFalse, EndOfflineTrial, HoldsOfflineTrial, Return, Goto
  <2>2. BreakerInv'
    BY <1>8 DEF SendReturnsFalse, EndOfflineTrial, HoldsOfflineTrial, Return, Goto
  <2>3. LockInv'
    BY <1>8 DEF SendReturnsFalse, EndOfflineTrial, HoldsOfflineTrial, Return, Goto
  <2>4. TrialInv'
    BY <1>8 DEF SendReturnsFalse, EndOfflineTrial, HoldsOfflineTrial, Return, Goto
  <2>5. ProbeInv'
    BY <1>8 DEF SendReturnsFalse, EndOfflineTrial, HoldsOfflineTrial, Return, Goto
  <2>6. StoreInv'
    BY <1>8 DEF SendReturnsFalse, EndOfflineTrial, HoldsOfflineTrial, Return, Goto
  <2>7. QED
    BY <2>1, <2>2, <2>3, <2>4, <2>5, <2>6
<1>9. ASSUME NEW s \in Senders, SendAborted(s) PROVE IInv'
  <2>1. TypeOK'
    BY <1>9 DEF SendAborted, RecordSendInconclusive, HoldsOfflineTrial, Return, Goto
  <2>2. BreakerInv'
    BY <1>9 DEF SendAborted, RecordSendInconclusive, HoldsOfflineTrial, Return, Goto
  <2>3. LockInv'
    BY <1>9 DEF SendAborted, RecordSendInconclusive, HoldsOfflineTrial, Return, Goto
  <2>4. TrialInv'
    BY <1>9 DEF SendAborted, RecordSendInconclusive, HoldsOfflineTrial, Return, Goto
  <2>5. ProbeInv'
    BY <1>9 DEF SendAborted, RecordSendInconclusive, HoldsOfflineTrial, Return, Goto
  <2>6. StoreInv'
    BY <1>9 DEF SendAborted, RecordSendInconclusive, HoldsOfflineTrial, Return, Goto
  <2>7. QED
    BY <2>1, <2>2, <2>3, <2>4, <2>5, <2>6
<1>10. ASSUME NEW t \in Threads, PublishAcquire(t) PROVE IInv'
  <2>1. TypeOK'
    BY <1>10 DEF PublishAcquire
  <2>2. BreakerInv'
    BY <1>10 DEF PublishAcquire
  <2>3. LockInv'
    BY <1>10 DEF PublishAcquire
  <2>4. TrialInv'
    BY <1>10 DEF PublishAcquire
  <2>5. ProbeInv'
    BY <1>10 DEF PublishAcquire
  <2>6. StoreInv'
    BY <1>10 DEF PublishAcquire
  <2>7. QED
    BY <2>1, <2>2, <2>3, <2>4, <2>5, <2>6
<1>11. CASE PublishSnapshot
  <2>1. TypeOK'
    BY <1>11 DEF PublishSnapshot
  <2>2. BreakerInv'
    BY <1>11 DEF PublishSnapshot
  <2>3. LockInv'
    BY <1>11 DEF PublishSnapshot
  <2>4. TrialInv'
    BY <1>11 DEF PublishSnapshot
  <2>5. ProbeInv'
    BY <1>11 DEF PublishSnapshot
  <2>6. StoreInv'
    BY <1>11 DEF PublishSnapshot
  <2>7. QED
    BY <2>1, <2>2, <2>3, <2>4, <2>5, <2>6
<1>12. CASE PublishWrite
  <2>1. TypeOK'
    BY <1>12 DEF PublishWrite, Fault, Unlock, Goto
  <2>2. BreakerInv'
    BY <1>12 DEF PublishWrite, Fault, Unlock, Goto
  <2>3. LockInv'
    BY <1>12 DEF PublishWrite, Fault, Unlock, Goto
  <2>4. TrialInv'
    BY <1>12 DEF PublishWrite, Fault, Unlock, Goto
  <2>5. ProbeInv'
    BY <1>12 DEF PublishWrite, Fault, Unlock, Goto
  <2>6. StoreInv'
    BY <1>12 DEF PublishWrite, Fault, Unlock, Goto
  <2>7. QED
    BY <2>1, <2>2, <2>3, <2>4, <2>5, <2>6
<1>13. CASE PublishReadBack
  <2>1. TypeOK'
    BY <1>13 DEF PublishReadBack, Fault, Unlock, Goto
  <2>2. BreakerInv'
    BY <1>13 DEF PublishReadBack, Fault, Unlock, Goto
  <2>3. LockInv'
    BY <1>13 DEF PublishReadBack, Fault, Unlock, Goto
  <2>4. TrialInv'
    BY <1>13 DEF PublishReadBack, Fault, Unlock, Goto
  <2>5. ProbeInv'
    BY <1>13 DEF PublishReadBack, Fault, Unlock, Goto
  <2>6. StoreInv'
    BY <1>13 DEF PublishReadBack, Fault, Unlock, Goto
  <2>7. QED
    BY <2>1, <2>2, <2>3, <2>4, <2>5, <2>6
<1>14. CASE PublishConfirm
  <2>1. TypeOK'
    BY <1>14 DEF PublishConfirm, Unlock, Goto
  <2>2. BreakerInv'
    BY <1>14 DEF PublishConfirm, Unlock, Goto
  <2>3. LockInv'
    BY <1>14 DEF PublishConfirm, Unlock, Goto
  <2>4. TrialInv'
    BY <1>14 DEF PublishConfirm, Unlock, Goto
  <2>5. ProbeInv'
    BY <1>14 DEF PublishConfirm, Unlock, Goto
  <2>6. StoreInv'
    BY <1>14 DEF PublishConfirm, Unlock, Goto
  <2>7. QED
    BY <2>1, <2>2, <2>3, <2>4, <2>5, <2>6
<1>15. CASE SyncRead
  <2>1. TypeOK'
    BY <1>15 DEF SyncRead, Fault, Unlock, Goto
  <2>2. BreakerInv'
    BY <1>15 DEF SyncRead, Fault, Unlock, Goto
  <2>3. LockInv'
    BY <1>15 DEF SyncRead, Fault, Unlock, Goto
  <2>4. TrialInv'
    BY <1>15 DEF SyncRead, Fault, Unlock, Goto
  <2>5. ProbeInv'
    BY <1>15 DEF SyncRead, Fault, Unlock, Goto
  <2>6. StoreInv'
    BY <1>15 DEF SyncRead, Fault, Unlock, Goto
  <2>7. QED
    BY <2>1, <2>2, <2>3, <2>4, <2>5, <2>6
<1>16. CASE SyncClear
  <2>1. TypeOK'
    <3>1. offline' \in BOOLEAN /\ alerted' \in BOOLEAN /\ probed' \in BOOLEAN
      BY <1>16 DEF SyncClear, ResetOfflineState, Unlock, Goto
    <3>2. /\ trial' \in TrialStates /\ trialId' \in Nat
          /\ failures' \in 0..Threshold /\ generation' \in Nat
      BY <1>16 DEF SyncClear, ResetOfflineState, Unlock, Goto
    <3>3. pc' \in [Threads -> SenderStates] /\ held' \in [Senders -> Nat]
      BY <1>16 DEF SyncClear, ResetOfflineState, Unlock, Goto
    <3>4. /\ persisted' \in Nat \cup {NoGeneration} /\ publisher' \in Threads \cup {Nobody}
          /\ step' \in PublishSteps /\ snap' \in [offline : BOOLEAN, generation : Nat]
          /\ db' \in {"none", "true", "false"} /\ dbWriter' \in {"bot", "viewer"}
          /\ faults' \in Nat /\ clears' \in Nat
      BY <1>16 DEF SyncClear, ResetOfflineState, Unlock, Goto
    <3>5. QED
      BY <3>1, <3>2, <3>3, <3>4
  <2>2. BreakerInv'
    BY <1>16 DEF SyncClear, ResetOfflineState, Unlock, Goto
  <2>3. LockInv'
    BY <1>16 DEF SyncClear, ResetOfflineState, Unlock, Goto
  <2>4. TrialInv'
    BY <1>16 DEF SyncClear, ResetOfflineState, Unlock, Goto
  <2>5. ProbeInv'
    BY <1>16 DEF SyncClear, ResetOfflineState, Unlock, Goto
  <2>6. StoreInv'
    BY <1>16 DEF SyncClear, ResetOfflineState, Unlock, Goto
  <2>7. QED
    BY <2>1, <2>2, <2>3, <2>4, <2>5, <2>6
<1>17. CASE SyncDue
  <2>1. TypeOK'
    BY <1>17 DEF SyncDue, Goto
  <2>2. BreakerInv'
    BY <1>17 DEF SyncDue, Goto
  <2>3. LockInv'
    BY <1>17 DEF SyncDue, Goto
  <2>4. TrialInv'
    BY <1>17 DEF SyncDue, Goto
  <2>5. ProbeInv'
    BY <1>17 DEF SyncDue, Goto
  <2>6. StoreInv'
    BY <1>17 DEF SyncDue, Goto
  <2>7. QED
    BY <2>1, <2>2, <2>3, <2>4, <2>5, <2>6
<1>18. CASE SyncAcquire
  <2>1. TypeOK'
    BY <1>18 DEF SyncAcquire, SyncConfirmed, Goto
  <2>2. BreakerInv'
    BY <1>18 DEF SyncAcquire, SyncConfirmed, Goto
  <2>3. LockInv'
    BY <1>18 DEF SyncAcquire, SyncConfirmed, Goto
  <2>4. TrialInv'
    BY <1>18 DEF SyncAcquire, SyncConfirmed, Goto
  <2>5. ProbeInv'
    BY <1>18 DEF SyncAcquire, SyncConfirmed, Goto
  <2>6. StoreInv'
    BY <1>18 DEF SyncAcquire, SyncConfirmed, Goto
  <2>7. QED
    BY <2>1, <2>2, <2>3, <2>4, <2>5, <2>6
<1>19. CASE ProbeAnswered
  <2>1. TypeOK'
    BY <1>19 DEF ProbeAnswered
  <2>2. BreakerInv'
    BY <1>19 DEF ProbeAnswered
  <2>3. LockInv'
    BY <1>19 DEF ProbeAnswered
  <2>4. TrialInv'
    BY <1>19 DEF ProbeAnswered
  <2>5. ProbeInv'
    BY <1>19 DEF ProbeAnswered
  <2>6. StoreInv'
    BY <1>19 DEF ProbeAnswered
  <2>7. QED
    BY <2>1, <2>2, <2>3, <2>4, <2>5, <2>6
<1>20. CASE ViewerClears
  <2>1. TypeOK'
    BY <1>20 DEF ViewerClears
  <2>2. BreakerInv'
    BY <1>20 DEF ViewerClears
  <2>3. LockInv'
    BY <1>20 DEF ViewerClears
  <2>4. TrialInv'
    BY <1>20 DEF ViewerClears
  <2>5. ProbeInv'
    BY <1>20 DEF ViewerClears
  <2>6. StoreInv'
    BY <1>20 DEF ViewerClears
  <2>7. QED
    BY <2>1, <2>2, <2>3, <2>4, <2>5, <2>6
<1>21. CASE UNCHANGED vars
  BY <1>21 DEF vars
<1> QED
  BY <1>1, <1>2, <1>3, <1>4, <1>5, <1>6, <1>7, <1>8, <1>9, <1>10, <1>11, <1>12, <1>13, <1>14, <1>15, <1>16, <1>17, <1>18, <1>19, <1>20, <1>21 DEF Next, Sender, Settle, Publish

(* The inductive invariant holds in every reachable state. *)
LEMMA Invariance == Spec => []IInv
BY InitInv, StepInv, PTL DEF Spec

(* Every variable keeps its type: ids and generations are natural numbers,  *)
(* the failure count never passes the threshold.                            *)
THEOREM TypeCorrect == Spec => []TypeOK
<1>1. IInv => TypeOK
  BY DEF IInv
<1>2. QED
  BY <1>1, Invariance, PTL

(* The trial in flight always belongs to exactly one running send: it is    *)
(* never claimed twice and never left behind (_admit_measured_send,         *)
(* _run_measured_send, _send_as_offline_trial).                             *)
THEOREM OneHolder == Spec => []TrialHasOneHolder
<1>1. IInv => TrialHasOneHolder
  BY DEF IInv, TypeOK, TrialInv, TrialHasOneHolder, Holder, HoldsOfflineTrial, NoTrial
<1>2. QED
  BY <1>1, Invariance, PTL

(* Every outage starts with the alert latch down and ends by lowering it.   *)
THEOREM AlertLatch == Spec => []AlertLatchFollowsOutage
<1>1. IInv => AlertLatchFollowsOutage
  BY DEF IInv, TypeOK, BreakerInv, AlertLatchFollowsOutage
<1>2. QED
  BY <1>1, Invariance, PTL

(* Only LetThrough puts an admitted send on the air, and ProbeInv says the  *)
(* trial it may carry stands on an unused probe.                            *)
THEOREM AttemptPerProbe == Spec => OneAttemptPerProbe
<1>1. IInv /\ [Next]_vars =>
        \A s \in Senders :
          (pc[s] = "admitted" /\ pc'[s] = "out" /\ offline /\ HoldsOfflineTrial(held[s]))
            => probed
  BY DEF IInv, ProbeInv, HoldsOfflineTrial
<1>2. QED
  BY <1>1, Invariance, PTL DEF Spec, OneAttemptPerProbe

(* An outage ends by the success of the trial in flight or by a viewer      *)
(* clear that is in the store: SendSucceeds and SyncClear are the only      *)
(* steps that end one, and StoreInv says whose "false" SyncClear read.      *)
THEOREM ReasonedEnd == Spec => OutageEndsForAReason
<1>1. IInv /\ [Next]_vars =>
        ((offline /\ ~offline') =>
           \/ \E s \in Senders : pc[s] = "out" /\ Holder(s)
           \/ step = "clear" /\ db = "false" /\ dbWriter = "viewer")
  <2> SUFFICES ASSUME IInv, [Next]_vars, offline, ~offline'
               PROVE  \/ \E s \in Senders : pc[s] = "out" /\ Holder(s)
                      \/ step = "clear" /\ db = "false" /\ dbWriter = "viewer"
    OBVIOUS
  <2>1. CASE \E s \in Senders : SendSucceeds(s)
    BY <2>1 DEF SendSucceeds, Clears, ForgetFailures, Holder
  <2>2. CASE SyncClear
    BY <2>2 DEF SyncClear, IInv, StoreInv, breaker
  <2>3. CASE UNCHANGED offline
    BY <2>3
  <2>4. ASSUME NEW s \in Senders, Sender(s), ~SendSucceeds(s) PROVE UNCHANGED offline
    BY <2>4 DEF Sender, Settle, MeasuredAdmit, InteractiveCheck, InteractiveAdmit, LetThrough,
      GuardRefuses, SendTimesOut, SendReturnsFalse, SendAborted, ClaimTrial, Trips, StartOutage,
      CountFailure, EndOfflineTrial, RecordSendInconclusive, breaker
  <2>5. ASSUME NEW t \in Threads, PublishAcquire(t) PROVE UNCHANGED offline
    BY <2>5 DEF PublishAcquire, breaker
  <2>6. ASSUME Publish, ~SyncClear PROVE UNCHANGED offline
    BY <2>6 DEF Publish, PublishSnapshot, PublishWrite, PublishReadBack, PublishConfirm, SyncRead,
      breaker
  <2>7. ASSUME SyncDue \/ SyncAcquire \/ ProbeAnswered \/ ViewerClears PROVE UNCHANGED offline
    BY <2>7 DEF SyncDue, SyncAcquire, ProbeAnswered, ViewerClears, breaker
  <2>8. QED
    BY <2>1, <2>2, <2>3, <2>4, <2>5, <2>6, <2>7 DEF Next, vars, breaker
<1>2. QED
  BY <1>1, Invariance, PTL DEF Spec, OutageEndsForAReason

-----------------------------------------------------------------------------
(* The banner. A thread in "publish" that has not got the lock yet will     *)
(* publish what it finds then; the holder of the lock is the only one that  *)
(* can write an older state, and only while another thread waits.           *)
Waiting == \E t \in Threads : pc[t] = "publish" /\ t # publisher

BannerInv ==
  /\ step = "write" => snap.offline = offline \/ Waiting
  /\ faults = 0 /\ dbWriter = "bot" /\ step \notin {"snapshot", "write"}
       => (db = "true") = offline \/ Waiting

LEMMA BannerFrame ==
  ASSUME BannerInv, UNCHANGED <<offline, publisher, step, snap, db, dbWriter, faults>>, Waiting => Waiting'
  PROVE  BannerInv'
BY DEF BannerInv

(* A sender that is not waiting for the lock leaves those that are alone.   *)
LEMMA OthersWait ==
  ASSUME IInv, NEW s \in Threads, NEW to, pc[s] # "publish", Goto(s, to), UNCHANGED publisher
  PROVE  /\ Waiting => Waiting'
         /\ to = "publish" => Waiting'
<1>1. pc' \in [Threads -> SenderStates] \/ pc' = [pc EXCEPT ![s] = to]
  BY DEF Goto
<1>2. \A t \in Threads : pc'[t] = IF t = s THEN to ELSE pc[t]
  BY DEF Goto, IInv, TypeOK
<1>3. s # publisher
  BY RadioOfflineAssumption DEF IInv, LockInv, RadioOfflineAssumption
<1> QED BY <1>2, <1>3 DEF Waiting

LEMMA BannerStep == ASSUME IInv, BannerInv, [Next]_vars PROVE BannerInv'
<1> USE DEF breaker, publication, store
<1>1. ASSUME NEW s \in Senders, Sender(s) PROVE BannerInv'
  <2>1. s \in Threads /\ UNCHANGED <<publication, store>>
    BY <1>1 DEF Threads, Sender, Settle, MeasuredAdmit, InteractiveCheck, InteractiveAdmit, LetThrough,
      GuardRefuses, SendSucceeds, SendTimesOut, SendReturnsFalse, SendAborted
  <2>2. CASE UNCHANGED offline
    <3>1. pc[s] # "publish" /\ \E to \in SenderStates : Goto(s, to)
      BY <1>1 DEF Sender, Settle, MeasuredAdmit, InteractiveCheck, InteractiveAdmit, LetThrough,
        GuardRefuses, SendSucceeds, SendTimesOut, SendReturnsFalse, SendAborted, Return, SenderStates
    <3> QED BY <2>1, <2>2, <3>1, OthersWait, BannerFrame
  <2>3. CASE ~UNCHANGED offline
    <3>1. pc[s] # "publish" /\ Goto(s, "publish")
      BY <1>1, <2>3 DEF Sender, Settle, MeasuredAdmit, InteractiveCheck, InteractiveAdmit, LetThrough,
        GuardRefuses, SendSucceeds, SendTimesOut, SendReturnsFalse, SendAborted, ClaimTrial, ForgetFailures,
        CountFailure, EndOfflineTrial, RecordSendInconclusive
    <3>2. Waiting'
      BY <2>1, <3>1, OthersWait
    <3> QED BY <3>2 DEF BannerInv
  <2> QED BY <2>2, <2>3
<1>2. ASSUME NEW t \in Threads, PublishAcquire(t) PROVE BannerInv'
  BY <1>2 DEF PublishAcquire, BannerInv
<1>3. CASE PublishSnapshot
  BY <1>3 DEF PublishSnapshot, BannerInv
<1>4. ASSUME Unlock, step # "free" PROVE Waiting => Waiting'
  <2>1. publisher \in Threads /\ publisher' = Nobody /\ Nobody \notin Threads
    BY <1>4, RadioOfflineAssumption DEF Unlock, IInv, TypeOK, LockInv, RadioOfflineAssumption
  <2>2. \A t \in Threads : t # publisher => pc'[t] = pc[t]
    BY <1>4 DEF Unlock, Goto, IInv, TypeOK
  <2> QED BY <2>1, <2>2 DEF Waiting
<1>5. CASE PublishWrite
  <2>1. Waiting => Waiting'
    BY <1>4, <1>5 DEF PublishWrite, Waiting
  <2>2. /\ step = "write" /\ step' \in {"readback", "free"} /\ offline' = offline
        /\ db' = (IF snap.offline THEN "true" ELSE "false") \/ faults' = faults + 1
    BY <1>5 DEF PublishWrite, Unlock, Fault
  <2>3. faults' = faults + 1 => faults' # 0
    BY DEF IInv, TypeOK
  <2>4. snap.offline \in BOOLEAN /\ offline \in BOOLEAN
    BY DEF IInv, TypeOK
  <2>5. db' = (IF snap.offline THEN "true" ELSE "false") => (db' = "true") = snap.offline
    BY <2>4
  <2> QED BY <2>1, <2>2, <2>3, <2>4, <2>5 DEF BannerInv
<1>6. CASE PublishReadBack \/ PublishConfirm \/ SyncRead
  <2>1. Waiting => Waiting'
    BY <1>4, <1>6 DEF PublishReadBack, PublishConfirm, SyncRead, Waiting
  <2>2. /\ step \notin {"snapshot", "write"} /\ step' \notin {"snapshot", "write"}
        /\ UNCHANGED <<offline, db, dbWriter>> /\ (faults' = 0 => faults = 0)
    BY <1>6 DEF PublishReadBack, PublishConfirm, SyncRead, Unlock, Fault, IInv, TypeOK
  <2> QED BY <2>1, <2>2 DEF BannerInv
<1>7. CASE SyncClear
  <2>1. CASE step' = "snapshot"
    BY <2>1 DEF BannerInv
  <2>2. CASE step' # "snapshot"
    <3>1. Unlock /\ step = "clear" /\ UNCHANGED <<offline, db, dbWriter, faults>>
      BY <1>7, <2>2 DEF SyncClear
    <3>2. Waiting => Waiting'
      BY <1>4, <3>1
    <3> QED BY <3>1, <3>2 DEF BannerInv, Unlock
  <2> QED BY <2>1, <2>2
<1>8. CASE SyncAcquire
  <2>1. Health \in Threads /\ publisher = Nobody /\ publisher' = Health /\ pc[Health] # "publish" /\ Nobody \notin Threads
    BY <1>8, RadioOfflineAssumption DEF SyncAcquire, Threads, RadioOfflineAssumption
  <2>2. \A t \in Threads : t # Health => pc'[t] = pc[t]
    BY <1>8, <2>1 DEF SyncAcquire, Goto, IInv, TypeOK
  <2>3. Waiting => Waiting'
    BY <2>1, <2>2 DEF Waiting
  <2>4. step = "free" /\ step' \in {"read", "snapshot"} /\ UNCHANGED <<offline, db, dbWriter, faults>>
    BY <1>8 DEF SyncAcquire, IInv, LockInv
  <2> QED BY <2>3, <2>4 DEF BannerInv
<1>9. CASE SyncDue
  <2>1. Health \in Threads /\ pc[Health] # "publish" /\ Goto(Health, "syncing") /\ UNCHANGED <<breaker, publication, store>>
    BY <1>9 DEF SyncDue, Threads
  <2> QED BY <2>1, OthersWait, BannerFrame
<1>10. CASE ProbeAnswered
  BY <1>10, BannerFrame DEF ProbeAnswered, Waiting
<1>11. CASE ViewerClears
  <2>1. Waiting' <=> Waiting
    BY <1>11 DEF ViewerClears, Waiting
  <2>2. /\ UNCHANGED <<offline, step, snap, faults>> /\ db' = "false"
        /\ dbWriter' = "bot" => db # "true" /\ dbWriter = "bot"
    BY <1>11 DEF ViewerClears
  <2> QED BY <2>1, <2>2 DEF BannerInv
<1>12. CASE UNCHANGED vars
  BY <1>12, BannerFrame DEF vars, Waiting
<1> QED BY <1>1, <1>2, <1>3, <1>5, <1>6, <1>7, <1>8, <1>9, <1>10, <1>11, <1>12 DEF Next, Publish

(* The banner's flag is the breaker's state unless an access failed, a      *)
(* viewer clear stands or a publication is under way: the last transition   *)
(* is the one that is stored (_publish_offline_state).                      *)
THEOREM BannerMatches == Spec => []BannerMatchesBreaker
<1>1. Init => BannerInv
  <2> SUFFICES ASSUME Init PROVE BannerInv
    OBVIOUS
  <2>1. step = "free" /\ offline = FALSE /\ (faults = 0 => db = "false")
    BY DEF Init
  <2> QED BY <2>1 DEF BannerInv
<1>2. IInv /\ BannerInv /\ [Next]_vars => BannerInv'
  BY BannerStep
<1>3. IInv /\ BannerInv => BannerMatchesBreaker
  <2> SUFFICES ASSUME IInv, BannerInv, faults = 0, dbWriter = "bot", \A t \in Threads : pc[t] # "publish"
               PROVE  (db = "true") = offline
    BY DEF BannerMatchesBreaker
  <2>1. ~Waiting
    BY DEF Waiting
  <2>2. publisher = Nobody
    BY DEF IInv, TypeOK, LockInv
  <2>3. step = "free"
    BY <2>2 DEF IInv, LockInv
  <2> QED BY <2>1, <2>3 DEF BannerInv
<1> QED BY <1>1, <1>2, <1>3, Invariance, PTL DEF Spec

-----------------------------------------------------------------------------
(* The refinement.                                                          *)
Request == db = "false" /\ dbWriter = "viewer"

(* What the mapping says of a state and of the one after it.                *)
LEMMA StateIs ==
  ASSUME IInv
  PROVE  /\ ~offline => BreakerState = "closed"
         /\ offline /\ trial = "none" => BreakerState = "open"
         /\ trial = "armed" => BreakerState = "armed"
         /\ trial = "in_flight" => BreakerState = "trial"
         /\ offline => BreakerState # "closed"
BY DEF BreakerState, IInv, TypeOK, TrialStates, TrialInv

LEMMA StateIsNext ==
  ASSUME IInv'
  PROVE  /\ ~offline' => BreakerState' = "closed"
         /\ offline' /\ trial' = "none" => BreakerState' = "open"
         /\ trial' = "armed" => BreakerState' = "armed"
         /\ trial' = "in_flight" => BreakerState' = "trial"
BY DEF BreakerState, IInv, TypeOK, TrialStates, TrialInv

LEMMA HolderIs ==
  ASSUME IInv
  PROVE  /\ TrialHolder \in Senders \cup {Nobody}
         /\ \A s \in Senders : Holder(s) <=> TrialHolder = s
<1>1. \A r, s \in Senders : Holder(r) /\ Holder(s) => r = s
  BY DEF IInv, TrialInv, Holder, HoldsOfflineTrial
<1>2. Nobody \notin Senders
  BY RadioOfflineAssumption DEF RadioOfflineAssumption, Threads
<1>3. CASE \E s \in Senders : Holder(s)
  <2>1. TrialHolder \in Senders /\ Holder(TrialHolder)
    BY <1>3, Zenon DEF TrialHolder
  <2> QED BY <1>1, <2>1
<1>4. CASE ~\E s \in Senders : Holder(s)
  BY <1>2, <1>4 DEF TrialHolder
<1> QED BY <1>3, <1>4

LEMMA HolderIsNext ==
  ASSUME IInv'
  PROVE  /\ TrialHolder' \in Senders \cup {Nobody}
         /\ \A s \in Senders : Holder(s)' <=> TrialHolder' = s
<1>1. \A r, s \in Senders : Holder(r)' /\ Holder(s)' => r = s
  BY DEF IInv, TrialInv, Holder, HoldsOfflineTrial
<1>2. Nobody \notin Senders
  BY RadioOfflineAssumption DEF RadioOfflineAssumption, Threads
<1>3. CASE \E s \in Senders : Holder(s)'
  <2>1. TrialHolder' \in Senders /\ \E s \in Senders : s = TrialHolder' /\ Holder(s)'
    BY <1>3 DEF TrialHolder, Holder, HoldsOfflineTrial
  <2> QED BY <1>1, <2>1
<1>4. CASE ~\E s \in Senders : Holder(s)'
  BY <1>2, <1>4 DEF TrialHolder
<1> QED BY <1>3, <1>4

(* A step that moves neither the outage nor the holder is a stutter, or     *)
(* tells the breaker about the operator.                                    *)
LEMMA Quiet ==
  ASSUME IInv, IInv', UNCHANGED <<offline, trial>>, \A s \in Senders : Holder(s)' <=> Holder(s)
  PROVE  UNCHANGED <<BreakerState, TrialHolder>>
<1>1. BreakerState' = BreakerState
  BY DEF BreakerState
<1>2. TrialHolder' = TrialHolder
  BY HolderIs, HolderIsNext, RadioOfflineAssumption DEF RadioOfflineAssumption, Threads
<1> QED BY <1>1, <1>2

(* A sender that does not hold the trial moves nothing of it.               *)
LEMMA OthersHold ==
  ASSUME IInv, NEW s \in Senders, NEW to, Goto(s, to), UNCHANGED trialId,
         \A r \in Senders \ {s} : held'[r] = held[r]
  PROVE  \A r \in Senders \ {s} : trial' = trial => (Holder(r)' <=> Holder(r))
<1>1. \A r \in Senders \ {s} : pc'[r] = pc[r]
  BY DEF Goto, IInv, TypeOK, Threads
<1> QED BY <1>1 DEF Holder, HoldsOfflineTrial

LEMMA SenderRefines ==
  ASSUME IInv, IInv', NEW s \in Senders, Sender(s)
  PROVE  [Abstract!Next]_(Abstract!vars)
<1> USE DEF breaker, store
<1>1. UNCHANGED Request
  BY DEF Request, Sender, Settle, MeasuredAdmit, InteractiveCheck, InteractiveAdmit, LetThrough, GuardRefuses,
    SendSucceeds, SendTimesOut, SendReturnsFalse, SendAborted
<1>2. PICK to \in SenderStates : Goto(s, to)
  BY DEF Sender, Settle, MeasuredAdmit, InteractiveCheck, InteractiveAdmit, LetThrough, GuardRefuses,
    SendSucceeds, SendTimesOut, SendReturnsFalse, SendAborted, Return, SenderStates
<1>3. pc'[s] = to /\ \A r \in Senders \ {s} : held'[r] = held[r]
  BY <1>2 DEF Goto, Sender, Settle, MeasuredAdmit, InteractiveCheck, InteractiveAdmit, LetThrough, GuardRefuses,
    SendSucceeds, SendTimesOut, SendReturnsFalse, SendAborted, Return, IInv, TypeOK, Threads
<1>4. ASSUME UNCHANGED <<offline, trial, trialId>>, Holder(s)' <=> Holder(s)
      PROVE  [Abstract!Next]_(Abstract!vars)
  <2>1. UNCHANGED <<BreakerState, TrialHolder>>
    BY <1>2, <1>3, <1>4, OthersHold, Quiet
  <2> QED BY <1>1, <2>1 DEF Abstract!vars, Request
<1>5. ASSUME ClaimTrial, held' = [held EXCEPT ![s] = trialId + 1], pc'[s] = "admitted"
      PROVE  [Abstract!Next]_(Abstract!vars)
  <2>1. trial = "armed" /\ trial' = "in_flight" /\ trialId' = trialId + 1 /\ trialId \in Nat
    BY <1>5 DEF ClaimTrial, IInv, TypeOK
  <2>2. Holder(s)'
    BY <1>5, <2>1 DEF Holder, HoldsOfflineTrial, NoTrial, IInv, TypeOK
  <2>3. BreakerState = "armed" /\ BreakerState' = "trial" /\ TrialHolder' = s
    BY <2>1, <2>2, StateIs, StateIsNext, HolderIsNext
  <2>4. Abstract!Claim(s)
    BY <1>1, <2>3 DEF Abstract!Claim, Request
  <2> QED BY <2>4 DEF Abstract!Next
<1>6. ASSUME Holder(s), ~(\E r \in Senders : Holder(r)'), BreakerState' \in {"closed", "open", "armed"}
      PROVE  [Abstract!Next]_(Abstract!vars)
  <2>1. TrialHolder = s /\ TrialHolder' = Nobody /\ BreakerState = "trial"
    BY <1>6, HolderIs, HolderIsNext, StateIs DEF Holder, HoldsOfflineTrial
  <2>2. Abstract!Settle(s)
    BY <1>1, <1>6, <2>1 DEF Abstract!Settle, Request
  <2> QED BY <2>2 DEF Abstract!Next
<1>7. ASSUME trial' # "in_flight" PROVE ~\E r \in Senders : Holder(r)'
  BY <1>7 DEF Holder, HoldsOfflineTrial
<1>8. CASE MeasuredAdmit(s) \/ InteractiveAdmit(s)
  <2>1. CASE ClaimTrial /\ held' = [held EXCEPT ![s] = trialId + 1] /\ Goto(s, "admitted")
    <3>1. pc'[s] = "admitted"
      BY <2>1 DEF Goto, IInv, TypeOK, Threads
    <3> QED BY <1>5, <2>1, <3>1
  <2>2. CASE UNCHANGED breaker /\ pc[s] \in {"idle", "checked"} /\ held'[s] \in {held[s], NoTrial}
    <3>1. held[s] = NoTrial
      BY <2>2 DEF IInv, TrialInv
    <3>2. ~Holder(s) /\ ~Holder(s)'
      BY <2>2, <3>1 DEF Holder, HoldsOfflineTrial
    <3> QED BY <1>4, <2>2, <3>2
  <2>3. pc[s] \in {"idle", "checked"}
    BY <1>8 DEF MeasuredAdmit, InteractiveAdmit
  <2>4. \/ ClaimTrial /\ held' = [held EXCEPT ![s] = trialId + 1] /\ Goto(s, "admitted")
        \/ UNCHANGED breaker /\ held'[s] \in {held[s], NoTrial}
    BY <1>8 DEF MeasuredAdmit, InteractiveAdmit, Return, IInv, TypeOK
  <2> QED BY <2>1, <2>2, <2>3, <2>4
<1>9. CASE InteractiveCheck(s)
  <2>1. ~Holder(s) /\ ~Holder(s)'
    BY <1>9 DEF InteractiveCheck, Holder, HoldsOfflineTrial, IInv, TrialInv, TypeOK, Goto, Threads
  <2> QED BY <1>4, <1>9, <2>1 DEF InteractiveCheck
<1>10. CASE LetThrough(s)
  <2>1. UNCHANGED <<breaker, held>> /\ pc[s] = "admitted" /\ pc'[s] = "out"
    BY <1>10 DEF LetThrough, Goto, IInv, TypeOK, Threads
  <2>2. Holder(s)' <=> Holder(s)
    BY <2>1 DEF Holder, HoldsOfflineTrial
  <2> QED BY <1>4, <2>1, <2>2
<1>11. CASE GuardRefuses(s)
  <2>1. UNCHANGED breaker /\ held'[s] = NoTrial /\ offline /\ ~HoldsOfflineTrial(held[s])
    BY <1>11 DEF GuardRefuses, IsRadioOffline, IInv, TypeOK
  <2>2. ~Holder(s) /\ ~Holder(s)'
    BY <2>1 DEF Holder, HoldsOfflineTrial
  <2> QED BY <1>4, <2>1, <2>2
<1>12. CASE Settle(s)
  <2>1. pc[s] \in {"admitted", "out"} /\ held'[s] = NoTrial
    BY <1>12 DEF Settle, SendSucceeds, SendTimesOut, SendReturnsFalse, SendAborted, Return, IInv, TypeOK
  <2>2. ~Holder(s)'
    BY <2>1 DEF Holder, HoldsOfflineTrial
  <2>3. Holder(s) <=> HoldsOfflineTrial(held[s])
    BY <2>1 DEF Holder
  <2>4. HoldsOfflineTrial(held[s]) => offline /\ trial = "in_flight"
    BY DEF HoldsOfflineTrial, IInv, TrialInv
  <2>5. CASE HoldsOfflineTrial(held[s])
    <3>1. trial' # "in_flight"
      BY <1>12, <2>4, <2>5 DEF Settle, SendSucceeds, SendTimesOut, SendReturnsFalse, SendAborted, Clears, Trips,
        ResetOfflineState, CountFailure, EndOfflineTrial, RecordSendInconclusive
    <3>2. BreakerState' \in {"closed", "open", "armed"}
      BY <3>1, StateIsNext DEF IInv, TypeOK, TrialStates
    <3> QED BY <1>6, <1>7, <2>3, <2>5, <3>1, <3>2
  <2>6. CASE ~HoldsOfflineTrial(held[s]) /\ UNCHANGED <<offline, trial, trialId>>
    BY <1>4, <2>2, <2>3, <2>6
  <2>7. CASE ~HoldsOfflineTrial(held[s]) /\ Trips /\ StartOutage
    <3>1. ~offline /\ trial = "none" /\ offline' /\ trial' = "none"
      BY <2>7 DEF Trips, StartOutage, IInv, TypeOK, TrialStates, TrialInv
    <3>2. BreakerState = "closed" /\ BreakerState' = "open"
      BY <3>1, StateIs, StateIsNext
    <3>3. TrialHolder' = TrialHolder
      BY <1>7, <3>1, HolderIs, HolderIsNext DEF Holder, HoldsOfflineTrial
    <3>4. Abstract!Trip
      BY <1>1, <3>2, <3>3 DEF Abstract!Trip, Request
    <3> QED BY <3>4 DEF Abstract!Next
  <2>8. ~HoldsOfflineTrial(held[s]) =>
          UNCHANGED <<offline, trial, trialId>> \/ (Trips /\ StartOutage)
    BY <1>12 DEF Settle, SendSucceeds, SendTimesOut, SendReturnsFalse, SendAborted, Clears, ForgetFailures,
      CountFailure, EndOfflineTrial, RecordSendInconclusive
  <2> QED BY <2>5, <2>6, <2>7, <2>8
<1> QED BY <1>8, <1>9, <1>10, <1>11, <1>12 DEF Sender

LEMMA StepRefines == ASSUME IInv, IInv', [Next]_vars PROVE [Abstract!Next]_(Abstract!vars)
<1> USE DEF breaker, publication, store
<1>1. CASE \E s \in Senders : Sender(s)
  BY <1>1, SenderRefines
<1>2. ASSUME UNCHANGED <<breaker, held>>,
             \A s \in Senders : pc'[s] = pc[s] \/ {pc[s], pc'[s]} \cap {"admitted", "out"} = {}
      PROVE  UNCHANGED <<BreakerState, TrialHolder>>
  <2>1. \A s \in Senders : Holder(s)' <=> Holder(s)
    BY <1>2 DEF Holder, HoldsOfflineTrial
  <2> QED BY <1>2, <2>1, Quiet
<1>3. ASSUME Unlock, step # "free"
      PROVE  \A s \in Senders : pc'[s] = pc[s] \/ {pc[s], pc'[s]} \cap {"admitted", "out"} = {}
  <2>1. pc[publisher] = "publish" /\ pc' = [pc EXCEPT ![publisher] = "idle"]
    BY <1>3 DEF Unlock, Goto, IInv, LockInv
  <2> QED BY <2>1 DEF IInv, TypeOK, Threads
<1>4. CASE (\E t \in Threads : PublishAcquire(t)) \/ PublishSnapshot \/ PublishReadBack \/ PublishConfirm \/ SyncRead
  <2>1. UNCHANGED <<breaker, held, db, dbWriter>>
    BY <1>4 DEF PublishAcquire, PublishSnapshot, PublishReadBack, PublishConfirm, SyncRead
  <2>2. UNCHANGED <<BreakerState, TrialHolder>>
    BY <1>2, <1>3, <1>4, <2>1 DEF PublishAcquire, PublishSnapshot, PublishReadBack, PublishConfirm, SyncRead
  <2> QED BY <2>1, <2>2 DEF Abstract!vars
<1>5. CASE PublishWrite
  <2>1. UNCHANGED <<breaker, held>>
    BY <1>5 DEF PublishWrite
  <2>2. UNCHANGED <<BreakerState, TrialHolder>>
    BY <1>2, <1>3, <1>5, <2>1 DEF PublishWrite
  <2>3. dbWriter' = "bot" \/ UNCHANGED <<db, dbWriter>>
    BY <1>5 DEF PublishWrite
  <2> QED BY <2>2, <2>3 DEF Abstract!Next, Abstract!Override, Abstract!vars
<1>6. CASE SyncClear
  <2>1. CASE UNCHANGED breaker
    <3>1. UNCHANGED <<held, db, dbWriter>> /\ step # "free"
      BY <1>6 DEF SyncClear
    <3>2. UNCHANGED pc \/ Unlock
      BY <1>6 DEF SyncClear
    <3>3. UNCHANGED <<BreakerState, TrialHolder>>
      BY <1>2, <1>3, <2>1, <3>1, <3>2
    <3> QED BY <3>1, <3>3 DEF Abstract!vars
  <2>2. CASE offline /\ generation = snap.generation /\ ResetOfflineState
    <3>1. UNCHANGED <<db, dbWriter>> /\ Request
      BY <1>6, <2>2 DEF SyncClear, IInv, StoreInv, Request
    <3>2. BreakerState # "closed" /\ BreakerState' = "closed"
      BY <2>2, StateIs, StateIsNext DEF ResetOfflineState
    <3>3. TrialHolder' = Nobody
      BY <2>2, HolderIsNext DEF ResetOfflineState, Holder, HoldsOfflineTrial
    <3>4. Abstract!CloseOnRequest
      BY <3>1, <3>2, <3>3 DEF Abstract!CloseOnRequest, Request
    <3> QED BY <3>4 DEF Abstract!Next
  <2> QED BY <1>6, <2>1, <2>2 DEF SyncClear
<1>7. CASE SyncDue \/ SyncAcquire
  <2>1. UNCHANGED <<breaker, held, db, dbWriter>> /\ \E to \in SenderStates : Goto(Health, to)
    BY <1>7 DEF SyncDue, SyncAcquire, SenderStates
  <2>2. \A s \in Senders : pc'[s] = pc[s]
    BY <2>1, RadioOfflineAssumption DEF Goto, IInv, TypeOK, Threads, RadioOfflineAssumption
  <2>3. UNCHANGED <<BreakerState, TrialHolder>>
    BY <1>2, <2>1, <2>2
  <2> QED BY <2>1, <2>3 DEF Abstract!vars
<1>8. CASE ProbeAnswered
  <2>1. BreakerState = "open" /\ BreakerState' = "armed"
    BY <1>8, StateIs, StateIsNext DEF ProbeAnswered
  <2>2. TrialHolder' = TrialHolder
    BY <1>8, HolderIs, HolderIsNext DEF ProbeAnswered, Holder, HoldsOfflineTrial
  <2>3. Abstract!Arm
    BY <1>8, <2>1, <2>2 DEF ProbeAnswered, Abstract!Arm
  <2> QED BY <2>3 DEF Abstract!Next
<1>9. CASE ViewerClears
  <2>1. UNCHANGED <<BreakerState, TrialHolder>>
    BY <1>2, <1>9 DEF ViewerClears
  <2>2. Request' \/ UNCHANGED Request
    BY <1>9 DEF ViewerClears, Request
  <2> QED BY <2>1, <2>2 DEF Abstract!Next, Abstract!Request, Abstract!vars, Request
<1>10. CASE UNCHANGED vars
  <2>1. UNCHANGED <<BreakerState, TrialHolder>>
    BY <1>2, <1>10 DEF vars
  <2> QED BY <1>10, <2>1 DEF vars, Abstract!vars
<1> QED BY <1>1, <1>4, <1>5, <1>6, <1>7, <1>8, <1>9, <1>10 DEF Next, Publish

(* With its ids, its counters, its locks and the database between it and    *)
(* the viewer, the breaker (radio_offline.py) does what the abstract one    *)
(* allows and nothing else, for any number of senders.                      *)
THEOREM Implementation == Spec => ImplementsCircuitBreaker
<1>1. Init => Abstract!Init
  <2> SUFFICES ASSUME Init PROVE Abstract!Init
    OBVIOUS
  <2>1. ~offline /\ trial = "none" /\ dbWriter = "bot"
    BY DEF Init
  <2>2. IInv
    BY InitInv
  <2>3. BreakerState = "closed" /\ TrialHolder = Nobody
    BY <2>1, <2>2, StateIs, HolderIs DEF Holder, HoldsOfflineTrial
  <2> QED BY <2>1, <2>3 DEF Abstract!Init
<1>2. IInv /\ IInv' /\ [Next]_vars => [Abstract!Next]_(Abstract!vars)
  BY StepRefines
<1> QED BY <1>1, <1>2, Invariance, PTL DEF Spec, ImplementsCircuitBreaker, Abstract!Spec
=============================================================================
