-------------------------- MODULE MessageSendProofs --------------------------
(* Proofs about MessageSend for any messages, scopes, limits and failures.  *)
EXTENDS MessageSend, SequenceTheorems, TLAPS

TypeTask ==
  /\ pc \in [Sends -> Places] /\ step \in [Sends -> Frames]
  /\ attempt \in [Sends -> 0..MaxRetries] /\ accepted \in [Sends -> BOOLEAN]
  /\ reply \in [Sends -> Replies] /\ result \in [Sends -> Results]
TypeLock == holder \in Sends \cup {NoSend} /\ waiting \in Seq(Sends)
TypeTimes ==
  /\ since \in [Limits -> Nat] /\ claimed \in Nat
  /\ \A l \in Limits : since[l] <= Seconds[l]
  /\ claimed <= Seconds[Tx]
TypeRadio ==
  /\ device \in Scopes /\ pinned \in Scopes
  /\ air \in [scope : Scopes, own : Scopes, pinned : Scopes, accepted : BOOLEAN]
TypeCounts == faults \in 0..MaxFaults /\ cancels \in 0..MaxCancels

(* The task that holds the lock is the one that exchanges frames, and only  *)
(* a regional message has frames for its scope.                             *)
LockInv ==
  \A s \in Sends :
    /\ pc[s] \in {"pace", "frame"} <=> holder = s
    /\ pc[s] \in {"wait", "pace", "frame"} /\ step[s] # "send" => Scoped(s)

(* Whose scope the radio is on: at the moment the radio is released it is   *)
(* global or pinned.                                                        *)
ScopeInv ==
  device # Global =>
    \/ device = pinned
    \/ /\ holder # NoSend /\ Scoped(holder) /\ device = Scope[holder]
       /\ step[holder] = "set" => pc[holder] = "frame"
       /\ step[holder] = "restore" => pc[holder] = "pace"

(* A scope the radio has accepted stays until the message is out.           *)
AcceptInv ==
  \A s \in Sends :
    /\ pc[s] = "wait" \/ (pc[s] \in {"pace", "frame"} /\ step[s] = "set") => ~accepted[s]
    /\ pc[s] = "frame" /\ step[s] = "set" /\ reply[s] = "ok" => device = Scope[s]
    /\ pc[s] \in {"pace", "frame"} /\ step[s] = "send" /\ accepted[s] => device = Scope[s]

AirInv == OwnScope /\ AcceptedScope

(* The transmitter is charged at least as late as its slots are claimed.    *)
SlotInv == since[Tx] <= claimed

IInv ==
  /\ TypeTask /\ TypeLock /\ TypeTimes /\ TypeRadio /\ TypeCounts
  /\ LockInv /\ ScopeInv /\ AcceptInv /\ AirInv /\ SlotInv

LEMMA Appended == ASSUME NEW s \in Sends, waiting \in Seq(Sends) PROVE Append(waiting, s) \in Seq(Sends)
BY AppendProperties

LEMMA Taken == ASSUME waiting \in Seq(Sends), waiting # <<>> PROVE Tail(waiting) \in Seq(Sends)
BY HeadTailProperties

LEMMA Removed ==
  ASSUME waiting \in Seq(Sends), NEW i \in DOMAIN waiting
  PROVE  SubSeq(waiting, 1, i - 1) \o SubSeq(waiting, i + 1, Len(waiting)) \in Seq(Sends)
<1>1. i \in 1..Len(waiting) /\ Len(waiting) \in Nat
  BY LenProperties
<1>2. SubSeq(waiting, 1, i - 1) \in Seq(Sends)
  BY <1>1, SubSeqProperties
<1>3. SubSeq(waiting, i + 1, Len(waiting)) \in Seq(Sends)
  BY <1>1, SubSeqProperties
<1>4. QED
  BY <1>2, <1>3, ConcatProperties

(* A charge leaves the times in their bounds, and the slots behind it.      *)
LEMMA ChargeInv ==
  ASSUME TypeTimes, SlotInv, NEW ls, Charge(ls), UNCHANGED claimed
  PROVE  TypeTimes' /\ SlotInv'
<1> USE MessageSendAssumption DEF MessageSendAssumption, TypeTimes
<1>1. since' \in [Limits -> Nat] /\ \A l \in Limits : since'[l] <= since[l] /\ since'[l] <= Seconds[l]
  BY DEF Charge
<1>2. TypeTimes'
  BY <1>1
<1>3. SlotInv'
  BY <1>1 DEF SlotInv
<1>4. QED
  BY <1>2, <1>3

(* What the end of an exchange changes. *)
LEMMA Concluded ==
  ASSUME TypeTask, NEW s \in Sends, NEW r \in Results, Conclude(s, r)
  PROVE  /\ result' \in [Sends -> Results] /\ attempt' \in [Sends -> 0..MaxRetries]
         /\ pc' \in [Sends -> Places] /\ pc'[s] \in {"end", "ack", "sleep"}
         /\ \A t \in Sends \ {s} : pc'[t] = pc[t]
         /\ UNCHANGED since \/ Charge(Charged[s])
<1> USE DEF TypeTask, Places
<1>1. result' = [result EXCEPT ![s] = r]
  BY DEF Conclude
<1>2. PICK p \in {"end", "ack", "sleep"} : pc' = [pc EXCEPT ![s] = p]
  BY DEF Conclude
<1>3. attempt' \in [Sends -> 0..MaxRetries]
  <2>1. UNCHANGED attempt \/ (attempt[s] < MaxRetries /\ attempt' = [attempt EXCEPT ![s] = @ + 1])
    BY DEF Conclude
  <2>2. CASE UNCHANGED attempt
    BY <2>2
  <2>3. CASE attempt[s] < MaxRetries /\ attempt' = [attempt EXCEPT ![s] = @ + 1]
    BY <2>3, MessageSendAssumption DEF MessageSendAssumption
  <2>4. QED
    BY <2>1, <2>2, <2>3
<1>4. UNCHANGED since \/ Charge(Charged[s])
  BY DEF Conclude, RecordSuccessfulSend
<1>5. QED
  BY <1>1, <1>2, <1>3, <1>4

LEMMA InitInv == Init => IInv
<1> SUFFICES ASSUME Init PROVE IInv
  OBVIOUS
<1> USE MessageSendAssumption DEF MessageSendAssumption, Init
<1>1. TypeTask
  BY DEF TypeTask, Places, Frames, Replies, Results
<1>2. TypeLock
  BY DEF TypeLock
<1>3. TypeTimes
  BY DEF TypeTimes
<1>4. TypeRadio
  BY DEF TypeRadio, Scopes
<1>5. TypeCounts
  BY DEF TypeCounts
<1>6. LockInv
  BY DEF LockInv
<1>7. ScopeInv
  BY DEF ScopeInv
<1>8. AcceptInv
  BY DEF AcceptInv
<1>9. AirInv
  BY DEF AirInv, OwnScope, AcceptedScope
<1>10. SlotInv
  BY DEF SlotInv
<1>11. QED
  BY <1>1, <1>2, <1>3, <1>4, <1>5, <1>6, <1>7, <1>8, <1>9, <1>10 DEF IInv

LEMMA StepInv == IInv /\ [Next]_vars => IInv'
<1> SUFFICES ASSUME IInv, [Next]_vars PROVE IInv'
  OBVIOUS
<1> USE MessageSendAssumption DEF MessageSendAssumption, IInv, TypeTask, TypeLock, TypeCounts,
      Places, Frames, Replies, Results, task, lock, radio, times
<1>1. ASSUME NEW s \in Sends, Refuse(s) PROVE IInv'
  <2>1. TypeTask'
    BY <1>1 DEF Refuse
  <2>2. TypeLock'
    BY <1>1 DEF Refuse
  <2>3. TypeTimes'
    BY <1>1 DEF Refuse, TypeTimes, Passed
  <2>4. TypeRadio'
    BY <1>1 DEF Refuse, TypeRadio, Scopes
  <2>5. TypeCounts'
    BY <1>1 DEF Refuse
  <2>6. LockInv'
    BY <1>1 DEF Refuse, LockInv
  <2>7. ScopeInv'
    BY <1>1 DEF Refuse, ScopeInv, LockInv, Scoped
  <2>8. AcceptInv'
    BY <1>1 DEF Refuse, AcceptInv, LockInv, Scoped
  <2>9. AirInv'
    BY <1>1 DEF Refuse, AirInv, OwnScope, AcceptedScope
  <2>10. SlotInv'
    BY <1>1 DEF Refuse, SlotInv, TypeTimes, Passed
  <2>11. QED
    BY <2>1, <2>2, <2>3, <2>4, <2>5, <2>6, <2>7, <2>8, <2>9, <2>10
<1>2. ASSUME NEW s \in Sends, Admit(s) PROVE IInv'
  <2>1. TypeTask'
    BY <1>2 DEF Admit, ClaimSlot, Charge
  <2>2. TypeLock'
    BY <1>2 DEF Admit, ClaimSlot, Charge
  <2>3. TypeTimes'
    <3>1. UNCHANGED times \/ (Charge({Tx}) /\ claimed' = 0)
      BY <1>2 DEF Admit, ClaimSlot
    <3>2. CASE Charge({Tx}) /\ claimed' = 0
      BY <3>2 DEF TypeTimes, Charge
    <3>3. QED
      BY <3>1, <3>2 DEF TypeTimes
  <2>4. TypeRadio'
    BY <1>2 DEF Admit, ClaimSlot, Charge, TypeRadio, Scopes
  <2>5. TypeCounts'
    BY <1>2 DEF Admit, ClaimSlot, Charge
  <2>6. LockInv'
    BY <1>2 DEF Admit, ClaimSlot, Charge, LockInv
  <2>7. ScopeInv'
    BY <1>2 DEF Admit, ClaimSlot, Charge, ScopeInv, LockInv, Scoped
  <2>8. AcceptInv'
    BY <1>2 DEF Admit, ClaimSlot, Charge, AcceptInv, LockInv, Scoped
  <2>9. AirInv'
    BY <1>2 DEF Admit, ClaimSlot, Charge, AirInv, OwnScope, AcceptedScope
  <2>10. SlotInv'
    BY <1>2 DEF Admit, ClaimSlot, Charge, SlotInv, TypeTimes, Passed
  <2>11. QED
    BY <2>1, <2>2, <2>3, <2>4, <2>5, <2>6, <2>7, <2>8, <2>9, <2>10
<1>3. ASSUME NEW s \in Sends, WaitForTx(s) PROVE IInv'
  <2>1. TypeTask'
    BY <1>3 DEF WaitForTx, ClaimSlot, Charge
  <2>2. TypeLock'
    BY <1>3 DEF WaitForTx, ClaimSlot, Charge
  <2>3. TypeTimes'
    BY <1>3 DEF WaitForTx, ClaimSlot, Charge, TypeTimes, Passed
  <2>4. TypeRadio'
    BY <1>3 DEF WaitForTx, ClaimSlot, Charge, TypeRadio, Scopes
  <2>5. TypeCounts'
    BY <1>3 DEF WaitForTx, ClaimSlot, Charge
  <2>6. LockInv'
    BY <1>3 DEF WaitForTx, ClaimSlot, Charge, LockInv
  <2>7. ScopeInv'
    BY <1>3 DEF WaitForTx, ClaimSlot, Charge, ScopeInv, LockInv, Scoped
  <2>8. AcceptInv'
    BY <1>3 DEF WaitForTx, ClaimSlot, Charge, AcceptInv, LockInv, Scoped
  <2>9. AirInv'
    BY <1>3 DEF WaitForTx, ClaimSlot, Charge, AirInv, OwnScope, AcceptedScope
  <2>10. SlotInv'
    BY <1>3 DEF WaitForTx, ClaimSlot, Charge, SlotInv, TypeTimes, Passed
  <2>11. QED
    BY <2>1, <2>2, <2>3, <2>4, <2>5, <2>6, <2>7, <2>8, <2>9, <2>10
<1>4. ASSUME NEW s \in Sends, AskForRadio(s) PROVE IInv'
  <2>1. TypeTask'
    BY <1>4 DEF AskForRadio, Queue
  <2>2. TypeLock'
    BY <1>4, Appended DEF AskForRadio, Queue
  <2>3. TypeTimes'
    BY <1>4 DEF AskForRadio, Queue, TypeTimes, Passed
  <2>4. TypeRadio'
    BY <1>4 DEF AskForRadio, Queue, TypeRadio, Scopes
  <2>5. TypeCounts'
    BY <1>4 DEF AskForRadio, Queue
  <2>6. LockInv'
    BY <1>4 DEF AskForRadio, Queue, LockInv
  <2>7. ScopeInv'
    BY <1>4 DEF AskForRadio, Queue, ScopeInv, LockInv, Scoped
  <2>8. AcceptInv'
    BY <1>4 DEF AskForRadio, Queue, AcceptInv, LockInv, Scoped
  <2>9. AirInv'
    BY <1>4 DEF AskForRadio, Queue, AirInv, OwnScope, AcceptedScope
  <2>10. SlotInv'
    BY <1>4 DEF AskForRadio, Queue, SlotInv, TypeTimes, Passed
  <2>11. QED
    BY <2>1, <2>2, <2>3, <2>4, <2>5, <2>6, <2>7, <2>8, <2>9, <2>10
<1>5. ASSUME NEW s \in Sends, Acquire(s) PROVE IInv'
  <2>1. TypeTask'
    BY <1>5 DEF Acquire
  <2>2. TypeLock'
    BY <1>5, Taken DEF Acquire
  <2>3. TypeTimes'
    BY <1>5 DEF Acquire, TypeTimes, Passed
  <2>4. TypeRadio'
    BY <1>5 DEF Acquire, TypeRadio, Scopes
  <2>5. TypeCounts'
    BY <1>5 DEF Acquire
  <2>6. LockInv'
    BY <1>5 DEF Acquire, LockInv
  <2>7. ScopeInv'
    BY <1>5 DEF Acquire, ScopeInv, LockInv, Scoped
  <2>8. AcceptInv'
    BY <1>5 DEF Acquire, AcceptInv, LockInv, Scoped
  <2>9. AirInv'
    BY <1>5 DEF Acquire, AirInv, OwnScope, AcceptedScope
  <2>10. SlotInv'
    BY <1>5 DEF Acquire, SlotInv, TypeTimes, Passed
  <2>11. QED
    BY <2>1, <2>2, <2>3, <2>4, <2>5, <2>6, <2>7, <2>8, <2>9, <2>10
<1>6. ASSUME NEW s \in Sends, WriteFrame(s) PROVE IInv'
  <2>1. TypeTask'
    BY <1>6 DEF WriteFrame, Act, Ignore, Transmit, SetScope, Charge
  <2>2. TypeLock'
    BY <1>6 DEF WriteFrame, Act, Ignore, Transmit, SetScope, Charge
  <2>3. TypeTimes'
    BY <1>6 DEF WriteFrame, Act, Ignore, Transmit, SetScope, Charge, TypeTimes, Passed
  <2>4. TypeRadio'
    BY <1>6 DEF WriteFrame, Act, Ignore, Transmit, SetScope, Charge, TypeRadio, Scopes
  <2>5. TypeCounts'
    BY <1>6 DEF WriteFrame, Act, Ignore, Transmit, SetScope, Charge
  <2>6. LockInv'
    BY <1>6 DEF WriteFrame, Act, Ignore, Transmit, SetScope, Charge, LockInv
  <2>7. ScopeInv'
    BY <1>6 DEF WriteFrame, Act, Ignore, Transmit, SetScope, Charge, ScopeInv, LockInv, Scoped
  <2>8. AcceptInv'
    BY <1>6 DEF WriteFrame, Act, Ignore, Transmit, SetScope, Charge, AcceptInv, LockInv, Scoped
  <2>9. AirInv'
    <3>1. pc[s] = "pace" /\ holder = s
      BY <1>6 DEF WriteFrame, LockInv
    <3>2. UNCHANGED air \/ (step[s] = "send" /\ Transmit(s))
      BY <1>6 DEF WriteFrame, Act, Ignore, SetScope
    <3>3. CASE UNCHANGED air
      BY <3>3 DEF AirInv, OwnScope, AcceptedScope
    <3>4. CASE step[s] = "send" /\ Transmit(s)
      <4>1. device \in {Global, Scope[s], pinned}
        BY <3>1 DEF ScopeInv
      <4>2. accepted[s] => device = Scope[s]
        BY <3>1, <3>4 DEF AcceptInv
      <4>3. QED
        BY <3>4, <4>1, <4>2 DEF Transmit, AirInv, OwnScope, AcceptedScope
    <3>5. QED
      BY <3>2, <3>3, <3>4
  <2>10. SlotInv'
    BY <1>6 DEF WriteFrame, Act, Ignore, Transmit, SetScope, Charge, SlotInv, TypeTimes, Passed
  <2>11. QED
    BY <2>1, <2>2, <2>3, <2>4, <2>5, <2>6, <2>7, <2>8, <2>9, <2>10
<1>7. ASSUME NEW s \in Sends, ScopeAnswered(s) PROVE IInv'
  <2>1. TypeTask'
    BY <1>7 DEF ScopeAnswered
  <2>2. TypeLock'
    BY <1>7 DEF ScopeAnswered
  <2>3. TypeTimes'
    BY <1>7 DEF ScopeAnswered, TypeTimes, Passed
  <2>4. TypeRadio'
    BY <1>7 DEF ScopeAnswered, TypeRadio, Scopes
  <2>5. TypeCounts'
    BY <1>7 DEF ScopeAnswered
  <2>6. LockInv'
    BY <1>7 DEF ScopeAnswered, LockInv
  <2>7. ScopeInv'
    BY <1>7 DEF ScopeAnswered, ScopeInv, LockInv, Scoped
  <2>8. AcceptInv'
    BY <1>7 DEF ScopeAnswered, AcceptInv, LockInv, Scoped
  <2>9. AirInv'
    BY <1>7 DEF ScopeAnswered, AirInv, OwnScope, AcceptedScope
  <2>10. SlotInv'
    BY <1>7 DEF ScopeAnswered, SlotInv, TypeTimes, Passed
  <2>11. QED
    BY <2>1, <2>2, <2>3, <2>4, <2>5, <2>6, <2>7, <2>8, <2>9, <2>10
<1>8. ASSUME NEW s \in Sends, SendAnswered(s) PROVE IInv'
  <2>1. TypeTask'
    <3>1. CASE Scoped(s)
      BY <1>8, <3>1 DEF SendAnswered
    <3>2. CASE ~Scoped(s)
      <4>1. reply[s] \in Results /\ Conclude(s, reply[s]) /\ Release /\ UNCHANGED <<step, accepted, reply, device, pinned, claimed>>
        BY <1>8, <3>2 DEF SendAnswered, radio
      <4>2. QED
        BY <4>1, Concluded
    <3>3. QED
      BY <3>1, <3>2
  <2>2. TypeLock'
    BY <1>8 DEF SendAnswered, Release, Conclude, RecordSuccessfulSend, Charge
  <2>3. TypeTimes'
    <3>1. UNCHANGED claimed /\ (since' = since \/ Conclude(s, reply[s]))
      BY <1>8 DEF SendAnswered
    <3>2. CASE since' = since
      BY <3>1, <3>2 DEF TypeTimes, SlotInv
    <3>3. CASE Conclude(s, reply[s])
      <4>1. UNCHANGED since \/ Charge(Charged[s])
        BY <3>3, Concluded
      <4>2. CASE Charge(Charged[s])
        BY <3>1, <4>2, ChargeInv
      <4>3. QED
        BY <3>1, <4>1, <4>2 DEF TypeTimes, SlotInv
    <3>4. QED
      BY <3>1, <3>2, <3>3
  <2>4. TypeRadio'
    BY <1>8 DEF SendAnswered, Release, Conclude, RecordSuccessfulSend, Charge, TypeRadio, Scopes
  <2>5. TypeCounts'
    BY <1>8 DEF SendAnswered, Release, Conclude, RecordSuccessfulSend, Charge
  <2>6. LockInv'
    BY <1>8 DEF SendAnswered, Release, Conclude, RecordSuccessfulSend, Charge, LockInv
  <2>7. ScopeInv'
    <3>1. UNCHANGED <<device, pinned>> /\ holder = s /\ step[s] = "send" /\ pc[s] = "frame"
      BY <1>8 DEF SendAnswered, LockInv
    <3>2. CASE Scoped(s)
      <4>1. pc' = [pc EXCEPT ![s] = "pace"] /\ step' = [step EXCEPT ![s] = "restore"] /\ UNCHANGED holder
        BY <1>8, <3>2, Zenon DEF SendAnswered, lock
      <4>2. device \in {Global, pinned, Scope[s]}
        BY <3>1 DEF ScopeInv
      <4>3. QED
        BY <3>1, <3>2, <4>1, <4>2 DEF ScopeInv, Scoped
    <3>3. CASE ~Scoped(s)
      BY <3>1, <3>3 DEF ScopeInv
    <3>4. QED
      BY <3>2, <3>3
  <2>8. AcceptInv'
    <3>1. CASE Scoped(s)
      <4>1. pc' = [pc EXCEPT ![s] = "pace"] /\ step' = [step EXCEPT ![s] = "restore"]
        BY <1>8, <3>1, Zenon DEF SendAnswered
      <4>2. UNCHANGED <<accepted, reply, device>>
        BY <1>8 DEF SendAnswered
      <4>3. QED
        BY <4>1, <4>2 DEF AcceptInv
    <3>2. CASE ~Scoped(s)
      <4>1. reply[s] \in Results /\ Conclude(s, reply[s]) /\ UNCHANGED <<step, accepted, reply, device>>
        BY <1>8, <3>2 DEF SendAnswered, radio
      <4>2. pc'[s] \in {"end", "ack", "sleep"} /\ \A t \in Sends \ {s} : pc'[t] = pc[t]
        BY <4>1, Concluded
      <4>3. QED
        BY <4>1, <4>2 DEF AcceptInv
    <3>3. QED
      BY <3>1, <3>2
  <2>9. AirInv'
    BY <1>8 DEF SendAnswered, Release, Conclude, RecordSuccessfulSend, Charge, AirInv, OwnScope, AcceptedScope
  <2>10. SlotInv'
    <3>1. UNCHANGED claimed /\ (since' = since \/ Conclude(s, reply[s]))
      BY <1>8 DEF SendAnswered
    <3>2. CASE since' = since
      BY <3>1, <3>2 DEF TypeTimes, SlotInv
    <3>3. CASE Conclude(s, reply[s])
      <4>1. UNCHANGED since \/ Charge(Charged[s])
        BY <3>3, Concluded
      <4>2. CASE Charge(Charged[s])
        BY <3>1, <4>2, ChargeInv
      <4>3. QED
        BY <3>1, <4>1, <4>2 DEF TypeTimes, SlotInv
    <3>4. QED
      BY <3>1, <3>2, <3>3
  <2>11. QED
    BY <2>1, <2>2, <2>3, <2>4, <2>5, <2>6, <2>7, <2>8, <2>9, <2>10
<1>9. ASSUME NEW s \in Sends, RestoreAnswered(s) PROVE IInv'
  <2>1. TypeTask'
    <3>1. PICK r \in Results : Conclude(s, r)
      BY <1>9 DEF RestoreAnswered
    <3>2. QED
      BY <1>9, <3>1, Concluded DEF RestoreAnswered
  <2>2. TypeLock'
    BY <1>9 DEF RestoreAnswered, Release, Conclude, RecordSuccessfulSend, Charge
  <2>3. TypeTimes'
    <3>1. PICK r \in Results : Conclude(s, r)
      BY <1>9 DEF RestoreAnswered
    <3>2. UNCHANGED since \/ Charge(Charged[s])
      BY <3>1, Concluded
    <3>3. UNCHANGED claimed
      BY <1>9 DEF RestoreAnswered
    <3>4. CASE Charge(Charged[s])
      BY <3>3, <3>4, ChargeInv
    <3>5. QED
      BY <3>2, <3>3, <3>4 DEF TypeTimes, SlotInv
  <2>4. TypeRadio'
    BY <1>9 DEF RestoreAnswered, Release, Conclude, RecordSuccessfulSend, Charge, TypeRadio, Scopes
  <2>5. TypeCounts'
    BY <1>9 DEF RestoreAnswered, Release, Conclude, RecordSuccessfulSend, Charge
  <2>6. LockInv'
    BY <1>9 DEF RestoreAnswered, Release, Conclude, RecordSuccessfulSend, Charge, LockInv
  <2>7. ScopeInv'
    BY <1>9 DEF RestoreAnswered, Release, Conclude, RecordSuccessfulSend, Charge, ScopeInv, LockInv, Scoped
  <2>8. AcceptInv'
    BY <1>9 DEF RestoreAnswered, Release, Conclude, RecordSuccessfulSend, Charge, AcceptInv, LockInv, Scoped
  <2>9. AirInv'
    BY <1>9 DEF RestoreAnswered, Release, Conclude, RecordSuccessfulSend, Charge, AirInv, OwnScope, AcceptedScope
  <2>10. SlotInv'
    <3>1. PICK r \in Results : Conclude(s, r)
      BY <1>9 DEF RestoreAnswered
    <3>2. UNCHANGED since \/ Charge(Charged[s])
      BY <3>1, Concluded
    <3>3. UNCHANGED claimed
      BY <1>9 DEF RestoreAnswered
    <3>4. CASE Charge(Charged[s])
      BY <3>3, <3>4, ChargeInv
    <3>5. QED
      BY <3>2, <3>3, <3>4 DEF TypeTimes, SlotInv
  <2>11. QED
    BY <2>1, <2>2, <2>3, <2>4, <2>5, <2>6, <2>7, <2>8, <2>9, <2>10
<1>10. ASSUME NEW s \in Sends, Acknowledged(s) PROVE IInv'
  <2>1. TypeTask'
    BY <1>10 DEF Acknowledged, RecordSuccessfulSend, Charge
  <2>2. TypeLock'
    BY <1>10 DEF Acknowledged, RecordSuccessfulSend, Charge
  <2>3. TypeTimes'
    <3>1. Charge(Charged[s]) /\ UNCHANGED claimed
      BY <1>10 DEF Acknowledged, RecordSuccessfulSend
    <3>2. QED
      BY <3>1, ChargeInv
  <2>4. TypeRadio'
    BY <1>10 DEF Acknowledged, RecordSuccessfulSend, Charge, TypeRadio, Scopes
  <2>5. TypeCounts'
    BY <1>10 DEF Acknowledged, RecordSuccessfulSend, Charge
  <2>6. LockInv'
    BY <1>10 DEF Acknowledged, RecordSuccessfulSend, Charge, LockInv
  <2>7. ScopeInv'
    BY <1>10 DEF Acknowledged, RecordSuccessfulSend, Charge, ScopeInv, LockInv, Scoped
  <2>8. AcceptInv'
    BY <1>10 DEF Acknowledged, RecordSuccessfulSend, Charge, AcceptInv, LockInv, Scoped
  <2>9. AirInv'
    BY <1>10 DEF Acknowledged, RecordSuccessfulSend, Charge, AirInv, OwnScope, AcceptedScope
  <2>10. SlotInv'
    BY <1>10 DEF Acknowledged, RecordSuccessfulSend, Charge, SlotInv, TypeTimes, Passed
  <2>11. QED
    BY <2>1, <2>2, <2>3, <2>4, <2>5, <2>6, <2>7, <2>8, <2>9, <2>10
<1>11. ASSUME NEW s \in Sends, AckMissing(s) PROVE IInv'
  <2>1. TypeTask'
    <3>1. UNCHANGED <<step, accepted, reply>> /\ result' = [result EXCEPT ![s] = "silent"]
      BY <1>11, Zenon DEF AckMissing, task
    <3>2. \/ pc' = [pc EXCEPT ![s] = "end"] /\ UNCHANGED attempt
          \/ /\ attempt[s] < MaxRetries /\ attempt' = [attempt EXCEPT ![s] = attempt[s] + 1]
             /\ pc' = [pc EXCEPT ![s] = "sleep"]
      BY <1>11, Zenon DEF AckMissing
    <3>3. pc' \in [Sends -> Places] /\ attempt' \in [Sends -> 0..MaxRetries]
      <4>1. CASE attempt[s] < MaxRetries
        <5>1. attempt[s] + 1 \in 0..MaxRetries
          BY <4>1
        <5>2. QED
          BY <3>2, <5>1
      <4>2. CASE ~(attempt[s] < MaxRetries)
        BY <3>2, <4>2
      <4>3. QED
        BY <4>1, <4>2
    <3>4. QED
      BY <3>1, <3>3
  <2>2. TypeLock'
    BY <1>11 DEF AckMissing
  <2>3. TypeTimes'
    BY <1>11 DEF AckMissing, TypeTimes, Passed
  <2>4. TypeRadio'
    BY <1>11 DEF AckMissing, TypeRadio, Scopes
  <2>5. TypeCounts'
    BY <1>11 DEF AckMissing
  <2>6. LockInv'
    BY <1>11 DEF AckMissing, LockInv
  <2>7. ScopeInv'
    BY <1>11 DEF AckMissing, ScopeInv, LockInv, Scoped
  <2>8. AcceptInv'
    BY <1>11 DEF AckMissing, AcceptInv, LockInv, Scoped
  <2>9. AirInv'
    BY <1>11 DEF AckMissing, AirInv, OwnScope, AcceptedScope
  <2>10. SlotInv'
    BY <1>11 DEF AckMissing, SlotInv, TypeTimes, Passed
  <2>11. QED
    BY <2>1, <2>2, <2>3, <2>4, <2>5, <2>6, <2>7, <2>8, <2>9, <2>10
<1>12. ASSUME NEW s \in Sends, CancelOutside(s) PROVE IInv'
  <2>1. TypeTask'
    BY <1>12 DEF CancelOutside, GiveUp
  <2>2. TypeLock'
    BY <1>12 DEF CancelOutside, GiveUp
  <2>3. TypeTimes'
    BY <1>12 DEF CancelOutside, GiveUp, TypeTimes, Passed
  <2>4. TypeRadio'
    BY <1>12 DEF CancelOutside, GiveUp, TypeRadio, Scopes
  <2>5. TypeCounts'
    BY <1>12 DEF CancelOutside, GiveUp
  <2>6. LockInv'
    BY <1>12 DEF CancelOutside, GiveUp, LockInv
  <2>7. ScopeInv'
    BY <1>12 DEF CancelOutside, GiveUp, ScopeInv, LockInv, Scoped
  <2>8. AcceptInv'
    BY <1>12 DEF CancelOutside, GiveUp, AcceptInv, LockInv, Scoped
  <2>9. AirInv'
    BY <1>12 DEF CancelOutside, GiveUp, AirInv, OwnScope, AcceptedScope
  <2>10. SlotInv'
    BY <1>12 DEF CancelOutside, GiveUp, SlotInv, TypeTimes, Passed
  <2>11. QED
    BY <2>1, <2>2, <2>3, <2>4, <2>5, <2>6, <2>7, <2>8, <2>9, <2>10
<1>13. ASSUME NEW s \in Sends, CancelWaiting(s) PROVE IInv'
  <2>1. TypeTask'
    BY <1>13 DEF CancelWaiting, GiveUp
  <2>2. TypeLock'
    BY <1>13, Removed DEF CancelWaiting
  <2>3. TypeTimes'
    BY <1>13 DEF CancelWaiting, GiveUp, TypeTimes, Passed
  <2>4. TypeRadio'
    BY <1>13 DEF CancelWaiting, GiveUp, TypeRadio, Scopes
  <2>5. TypeCounts'
    <3>1. GiveUp(s) /\ UNCHANGED faults
      BY <1>13 DEF CancelWaiting
    <3>2. QED
      BY <3>1 DEF GiveUp
  <2>6. LockInv'
    BY <1>13 DEF CancelWaiting, GiveUp, LockInv
  <2>7. ScopeInv'
    BY <1>13 DEF CancelWaiting, GiveUp, ScopeInv, LockInv, Scoped
  <2>8. AcceptInv'
    BY <1>13 DEF CancelWaiting, GiveUp, AcceptInv, LockInv, Scoped
  <2>9. AirInv'
    BY <1>13 DEF CancelWaiting, GiveUp, AirInv, OwnScope, AcceptedScope
  <2>10. SlotInv'
    BY <1>13 DEF CancelWaiting, GiveUp, SlotInv, TypeTimes, Passed
  <2>11. QED
    BY <2>1, <2>2, <2>3, <2>4, <2>5, <2>6, <2>7, <2>8, <2>9, <2>10
<1>14. ASSUME NEW s \in Sends, CancelFrame(s) PROVE IInv'
  <2>1. TypeTask'
    BY <1>14 DEF CancelFrame, GiveUp, Release
  <2>2. TypeLock'
    BY <1>14 DEF CancelFrame, GiveUp, Release
  <2>3. TypeTimes'
    BY <1>14 DEF CancelFrame, GiveUp, Release, TypeTimes, Passed
  <2>4. TypeRadio'
    BY <1>14 DEF CancelFrame, GiveUp, Release, TypeRadio, Scopes
  <2>5. TypeCounts'
    BY <1>14 DEF CancelFrame, GiveUp, Release
  <2>6. LockInv'
    BY <1>14 DEF CancelFrame, GiveUp, Release, LockInv
  <2>7. ScopeInv'
    BY <1>14 DEF CancelFrame, GiveUp, Release, ScopeInv, LockInv, Scoped
  <2>8. AcceptInv'
    <3>1. pc[s] \in {"pace", "frame"} /\ UNCHANGED <<accepted, reply, device>>
      BY <1>14 DEF CancelFrame
    <3>2. \/ pc' = [pc EXCEPT ![s] = "pace"] /\ step' = [step EXCEPT ![s] = "restore"]
          \/ pc' = [pc EXCEPT ![s] = "end"] /\ UNCHANGED step
      BY <1>14, Zenon DEF CancelFrame
    <3>3. QED
      <4>1. pc'[s] \in {"end", "pace"} /\ (pc'[s] = "pace" => step'[s] = "restore")
        BY <3>2
      <4>2. \A t \in Sends \ {s} : pc'[t] = pc[t] /\ step'[t] = step[t]
        BY <3>2
      <4>3. QED
        BY <3>1, <4>1, <4>2 DEF AcceptInv
  <2>9. AirInv'
    BY <1>14 DEF CancelFrame, GiveUp, Release, AirInv, OwnScope, AcceptedScope
  <2>10. SlotInv'
    BY <1>14 DEF CancelFrame, GiveUp, Release, SlotInv, TypeTimes, Passed
  <2>11. QED
    BY <2>1, <2>2, <2>3, <2>4, <2>5, <2>6, <2>7, <2>8, <2>9, <2>10
<1>15. ASSUME Tick PROVE IInv'
  <2>1. TypeTask'
    BY <1>15 DEF Tick, Passed
  <2>2. TypeLock'
    BY <1>15 DEF Tick, Passed
  <2>3. TypeTimes'
    BY <1>15 DEF Tick, Passed, TypeTimes, Passed
  <2>4. TypeRadio'
    BY <1>15 DEF Tick, Passed, TypeRadio, Scopes
  <2>5. TypeCounts'
    BY <1>15 DEF Tick, Passed
  <2>6. LockInv'
    BY <1>15 DEF Tick, Passed, LockInv
  <2>7. ScopeInv'
    BY <1>15 DEF Tick, Passed, ScopeInv, LockInv, Scoped
  <2>8. AcceptInv'
    BY <1>15 DEF Tick, Passed, AcceptInv, LockInv, Scoped
  <2>9. AirInv'
    BY <1>15 DEF Tick, Passed, AirInv, OwnScope, AcceptedScope
  <2>10. SlotInv'
    BY <1>15 DEF Tick, Passed, SlotInv, TypeTimes, Passed
  <2>11. QED
    BY <2>1, <2>2, <2>3, <2>4, <2>5, <2>6, <2>7, <2>8, <2>9, <2>10
<1>16. ASSUME UNCHANGED vars PROVE IInv'
  BY <1>16 DEF vars, TypeTimes, TypeRadio, LockInv, ScopeInv, AcceptInv, AirInv, OwnScope, AcceptedScope, SlotInv
<1>17. QED
  BY <1>1, <1>2, <1>3, <1>4, <1>5, <1>6, <1>7, <1>8, <1>9, <1>10, <1>11, <1>12, <1>13, <1>14, <1>15, <1>16 DEF Next, Work

LEMMA Invariance == Spec => []IInv
BY InitInv, StepInv, PTL DEF Spec

(* Every message, lock and limit has its type, whatever is configured.      *)
THEOREM TypeCorrect == Spec => []TypeOK
<1>1. IInv => TypeOK
  BY DEF IInv, TypeOK, TypeTask, TypeLock, TypeTimes, TypeRadio, TypeCounts
<1>2. QED
  BY <1>1, Invariance, PTL

(* A message goes out under its own scope or global flood, or under what a  *)
(* lost restore has left behind: the radio is held from set to restore.     *)
THEOREM MessageScope == Spec => []OwnScope
<1>1. IInv => OwnScope
  BY DEF IInv, AirInv
<1>2. QED
  BY <1>1, Invariance, PTL

(* An accepted scope is the one the message goes out under.                 *)
THEOREM ScopeObeyed == Spec => []AcceptedScope
<1>1. IInv => AcceptedScope
  BY DEF IInv, AirInv
<1>2. QED
  BY <1>1, Invariance, PTL

(* The radio does not stay on a region that nobody holds, however a send    *)
(* ends, unless its restore was lost.                                       *)
THEOREM ScopeReleased == Spec => []ScopeIsHeld
<1>1. IInv => ScopeIsHeld
  BY DEF IInv, ScopeInv, ScopeIsHeld
<1>2. QED
  BY <1>1, Invariance, PTL

(* No two tasks exchange a frame with the radio at the same time.           *)
THEOREM Serialized == Spec => []OneExchange
<1>1. IInv => OneExchange
  BY DEF IInv, LockInv, OneExchange
<1>2. QED
  BY <1>1, Invariance, PTL

(* Slots of the transmitter are claimed at least its interval apart.        *)
THEOREM SlotInterval == Spec => SlotsSpaced
<1>1. IInv /\ [Next]_vars =>
        [\A s \in Sends : pc[s] \in {"idle", "slot"} /\ pc'[s] = "delay" => claimed >= Seconds[Tx]]_vars
  <2> SUFFICES ASSUME IInv, Next, NEW s \in Sends, pc[s] \in {"idle", "slot"}, pc'[s] = "delay"
               PROVE  claimed >= Seconds[Tx]
    BY DEF vars
  <2>1. Passed(Tx)
    <3>1. PICK t \in Sends :
            \/ Refuse(t) \/ Admit(t) \/ Work(t)
            \/ CancelOutside(t) \/ CancelWaiting(t) \/ CancelFrame(t)
      BY DEF Next, Tick, task
    <3>2. t = s
      BY <3>1 DEF IInv, TypeTask, Work, Refuse, Admit, WaitForTx, ClaimSlot, AskForRadio, Queue, Acquire, WriteFrame,
         ScopeAnswered, SendAnswered, RestoreAnswered, Conclude, Acknowledged, AckMissing, CancelOutside,
         CancelWaiting, CancelFrame
    <3>3. Admit(s) \/ WaitForTx(s)
      BY <3>1, <3>2 DEF IInv, TypeTask, Work, Refuse, AskForRadio, Queue, Acquire, WriteFrame, ScopeAnswered,
         SendAnswered, RestoreAnswered, Acknowledged, AckMissing, CancelOutside, CancelWaiting, CancelFrame
    <3>4. QED
      BY <3>3 DEF IInv, TypeTask, Admit, WaitForTx, ClaimSlot
  <2>2. QED
    BY <2>1, MessageSendAssumption DEF MessageSendAssumption, Passed, IInv, SlotInv, TypeTimes
<1>2. QED
  BY <1>1, Invariance, PTL DEF Spec, SlotsSpaced
=============================================================================
