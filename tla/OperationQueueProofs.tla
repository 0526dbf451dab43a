------------------------- MODULE OperationQueueProofs -------------------------
(* Proofs about OperationQueue for every set of rows, groups, boots,        *)
(* machines and process ids, reused or not, and any number of failures.     *)
EXTENDS OperationQueue, TLAPS

(* A row that a running process works on is its claim in the table; until   *)
(* the action has run nothing has reached the radio.                        *)
TaskInv ==
  \A b \in Boots, o \in Ops :
    /\ task[b][o] # "none" => boot[b] = "up" /\ status[o] = "processing" /\ owner[o] = b
    /\ task[b][o] = "claimed" => effects[o] = 0
    /\ task[b][o] = "ok" => effects[o] > 0

(* Nothing is done for a row before it is claimed, and no row is done twice.*)
EffectInv ==
  \A o \in Ops :
    /\ effects[o] <= 1
    /\ status[o] \in {"absent", "pending"} => effects[o] = 0
    /\ status[o] = "completed" => effects[o] > 0

(* Rows are inserted in order; a row that has been claimed found every      *)
(* earlier row of its group over.                                           *)
OrderInv ==
  \A o, p \in Ops :
    /\ o < p /\ status[o] = "absent" => status[p] = "absent"
    /\ o < p /\ GroupOf[o] = GroupOf[p] /\ status[p] \notin {"absent", "pending"}
         => status[o] \in Terminal

IInv == TypeOK /\ TaskInv /\ EffectInv /\ OrderInv

LEMMA InitInv == Init => IInv
<1> SUFFICES ASSUME Init PROVE IInv
  OBVIOUS
<1> USE OperationQueueAssumption DEF OperationQueueAssumption, Init, NoBoot
<1>1. TypeOK
  BY DEF TypeOK, Statuses, Tasks
<1>2. TaskInv
  BY DEF TaskInv
<1>3. EffectInv
  BY DEF EffectInv
<1>4. OrderInv
  BY DEF OrderInv
<1>5. QED
  BY <1>1, <1>2, <1>3, <1>4 DEF IInv

LEMMA StepInv == IInv /\ [Next]_vars => IInv'
<1> SUFFICES ASSUME IInv, [Next]_vars PROVE IInv'
  OBVIOUS
<1> USE OperationQueueAssumption DEF OperationQueueAssumption, IInv, TypeOK, TaskInv, EffectInv, OrderInv,
      Statuses, Tasks, Terminal, NoBoot, rows, machines
<1>1. ASSUME NEW o \in Ops, Submit(o) PROVE IInv'
  <2>1. TypeOK'
    BY <1>1 DEF Submit
  <2>2. TaskInv'
    BY <1>1 DEF Submit
  <2>3. EffectInv'
    BY <1>1 DEF Submit
  <2>4. OrderInv'
    BY <1>1 DEF Submit
  <2>5. QED
    BY <2>1, <2>2, <2>3, <2>4
<1>2. ASSUME NEW b \in Boots, Start(b) PROVE IInv'
  <2>1. TypeOK'
    BY <1>2 DEF Start, RecoverInterruptedOperations, Recoverable, IsLocalPidAlive, Fault
  <2>2. TaskInv'
    BY <1>2 DEF Start, RecoverInterruptedOperations, Recoverable, IsLocalPidAlive, Fault
  <2>3. EffectInv'
    BY <1>2 DEF Start, RecoverInterruptedOperations, Recoverable, IsLocalPidAlive, Fault
  <2>4. OrderInv'
    BY <1>2 DEF Start, RecoverInterruptedOperations, Recoverable, IsLocalPidAlive, Fault
  <2>5. QED
    BY <2>1, <2>2, <2>3, <2>4
<1>3. ASSUME NEW b \in Boots, Crash(b) PROVE IInv'
  <2>1. TypeOK'
    BY <1>3 DEF Crash
  <2>2. TaskInv'
    BY <1>3 DEF Crash
  <2>3. EffectInv'
    BY <1>3 DEF Crash
  <2>4. OrderInv'
    BY <1>3 DEF Crash
  <2>5. QED
    BY <2>1, <2>2, <2>3, <2>4
<1>4. ASSUME NEW b \in Boots, NEW o \in Ops, Claim(b, o) PROVE IInv'
  <2>1. TypeOK'
    BY <1>4 DEF Claim, Oldest, GroupIsIdle
  <2>2. TaskInv'
    BY <1>4 DEF Claim, Oldest, GroupIsIdle
  <2>3. EffectInv'
    BY <1>4 DEF Claim, Oldest, GroupIsIdle
  <2>4. OrderInv'
    BY <1>4 DEF Claim, Oldest, GroupIsIdle
  <2>5. QED
    BY <2>1, <2>2, <2>3, <2>4
<1>5. ASSUME NEW b \in Boots, NEW o \in Ops, Execute(b, o) PROVE IInv'
  <2>1. TypeOK'
    BY <1>5 DEF Execute
  <2>2. TaskInv'
    BY <1>5 DEF Execute
  <2>3. EffectInv'
    BY <1>5 DEF Execute
  <2>4. OrderInv'
    BY <1>5 DEF Execute
  <2>5. QED
    BY <2>1, <2>2, <2>3, <2>4
<1>6. ASSUME NEW b \in Boots, NEW o \in Ops, Finish(b, o) PROVE IInv'
  <2>1. TypeOK'
    BY <1>6 DEF Finish, FinishClaimedOperation
  <2>2. TaskInv'
    BY <1>6 DEF Finish, FinishClaimedOperation
  <2>3. EffectInv'
    BY <1>6 DEF Finish, FinishClaimedOperation
  <2>4. OrderInv'
    BY <1>6 DEF Finish, FinishClaimedOperation
  <2>5. QED
    BY <2>1, <2>2, <2>3, <2>4
<1>7. ASSUME NEW b \in Boots, NEW o \in Ops, FinishRaises(b, o) PROVE IInv'
  <2>1. TypeOK'
    BY <1>7 DEF FinishRaises, Fault
  <2>2. TaskInv'
    BY <1>7 DEF FinishRaises, Fault
  <2>3. EffectInv'
    BY <1>7 DEF FinishRaises, Fault
  <2>4. OrderInv'
    BY <1>7 DEF FinishRaises, Fault
  <2>5. QED
    BY <2>1, <2>2, <2>3, <2>4
<1>8. CASE UNCHANGED vars
  BY <1>8 DEF vars
<1>9. QED
  BY <1>1, <1>2, <1>3, <1>4, <1>5, <1>6, <1>7, <1>8 DEF Next

LEMMA Invariance == Spec => []IInv
  BY InitInv, StepInv, PTL DEF Spec

(* Type correctness of the queue's rows and of the processes working on it. *)
THEOREM TypeCorrect == Spec => []TypeOK
<1>1. IInv => TypeOK
  BY DEF IInv
<1>2. QED
  BY <1>1, Invariance, PTL

(* However many processes share the queue, crash, restart and fail to reach *)
(* the database, no operation reaches the radio twice.                      *)
THEOREM NeverTwice == Spec => []AtMostOnce
<1>1. IInv => AtMostOnce
  BY DEF IInv, EffectInv, AtMostOnce
<1>2. QED
  BY <1>1, Invariance, PTL

(* One process at a time works on one row of a group, the one the table     *)
(* shows as processing.                                                     *)
THEOREM OneAtATime == Spec => []SerialExecution
<1>1. IInv => SerialExecution
  <2> SUFFICES ASSUME IInv, NEW b \in Boots, NEW c \in Boots, NEW o \in Ops, NEW p \in Ops,
                      task[b][o] # "none", task[c][p] # "none", GroupOf[o] = GroupOf[p]
               PROVE  b = c /\ o = p /\ status[o] = "processing" /\ owner[o] = b
    BY DEF SerialExecution
  <2>1. /\ status[o] = "processing" /\ owner[o] = b
        /\ status[p] = "processing" /\ owner[p] = c
    BY DEF IInv, TaskInv
  <2>2. ~(o < p) /\ ~(p < o)
    BY <2>1 DEF IInv, OrderInv, Terminal
  <2>3. o = p
    BY <2>2, OperationQueueAssumption DEF OperationQueueAssumption
  <2>4. QED
    BY <2>1, <2>3
<1>2. QED
  BY <1>1, Invariance, PTL

(* Within a group the radio is reached in the order of the rows.            *)
THEOREM InOrder == Spec => []EffectsInOrder
<1>1. IInv => EffectsInOrder
  BY DEF IInv, TypeOK, EffectInv, OrderInv, EffectsInOrder
<1>2. QED
  BY <1>1, Invariance, PTL

(* A row shown as completed has reached the radio.                          *)
THEOREM CompletedDone == Spec => []CompletedWasDone
<1>1. IInv => CompletedWasDone
  BY DEF IInv, EffectInv, CompletedWasDone
<1>2. QED
  BY <1>1, Invariance, PTL

(* An outcome never changes and a claim never becomes claimable again.      *)
THEOREM FinalOutcomes == Spec => OutcomesAreFinal
<1>1. IInv /\ [Next]_vars =>
        [\A o \in Ops :
           /\ status[o] \in Terminal => status'[o] = status[o]
           /\ status[o] = "processing" => status'[o] \in {"processing"} \cup Terminal]_vars
  <2> SUFFICES ASSUME IInv, Next, NEW o \in Ops
               PROVE  /\ status[o] \in Terminal => status'[o] = status[o]
                      /\ status[o] = "processing" => status'[o] \in {"processing"} \cup Terminal
    OBVIOUS
  <2> USE DEF IInv, TypeOK, TaskInv, Terminal, rows
  <2>1. ASSUME NEW p \in Ops, Submit(p) PROVE status'[o] = status[o] \/ status[o] = "absent"
    BY <2>1 DEF Submit
  <2>2. ASSUME NEW b \in Boots, Start(b) PROVE status'[o] = status[o] \/ (status[o] = "processing" /\ status'[o] = "interrupted")
    BY <2>2 DEF Start, RecoverInterruptedOperations
  <2>3. ASSUME NEW b \in Boots, Crash(b) PROVE status'[o] = status[o]
    BY <2>3 DEF Crash
  <2>4. ASSUME NEW b \in Boots, NEW p \in Ops, Claim(b, p) PROVE status'[o] = status[o] \/ status[o] = "pending"
    BY <2>4 DEF Claim
  <2>5. ASSUME NEW b \in Boots, NEW p \in Ops, Finish(b, p)
        PROVE  status'[o] = status[o] \/ (status[o] = "processing" /\ status'[o] \in Terminal)
    BY <2>5 DEF Finish, FinishClaimedOperation
  <2>6. ASSUME NEW b \in Boots, NEW p \in Ops, Execute(b, p) \/ FinishRaises(b, p) PROVE status'[o] = status[o]
    BY <2>6 DEF Execute, FinishRaises
  <2>7. QED
    BY <2>1, <2>2, <2>3, <2>4, <2>5, <2>6 DEF Next
<1>2. QED
  BY <1>1, Invariance, PTL DEF Spec, OutcomesAreFinal

(* No two processes of a machine have had the same id.                      *)
UniquePids == \A b, c \in Boots : host[b] = host[c] /\ pid[b] = pid[c] => b = c

(* Where no process id is handed out twice, a start whose recovery works    *)
(* leaves no claim of a dead process of its host: the sentence that fails   *)
(* in a container is right about a machine (scheduler.py:                   *)
(* _recover_interrupted_operations()).                                      *)
THEOREM StartsInterruptWithoutReuse == ASSUME ~ReusePids PROVE Spec => StartInterruptsDeadClaims
<1>1. Init => UniquePids
  BY DEF Init, UniquePids
<1>2. UniquePids /\ [Next]_vars => UniquePids'
  <2> SUFFICES ASSUME UniquePids, [Next]_vars PROVE UniquePids'
    OBVIOUS
  <2>1. UNCHANGED <<host, pid>>
    BY DEF Next, Submit, Start, Crash, Claim, Execute, Finish, FinishRaises, vars, machines
  <2> QED BY <2>1 DEF UniquePids
<1>3. ASSUME IInv, UniquePids, [Next]_vars, NEW b \in Boots, boot[b] = "unborn", boot'[b] = "up", faults' = faults,
             NEW o \in Ops, status'[o] = "processing", owner'[o] # NoBoot, boot'[owner'[o]] = "dead"
      PROVE  host[owner'[o]] # host[b]
  <2>1. Start(b)
    BY <1>3 DEF IInv, TypeOK, Next, Submit, Start, Crash, Claim, Execute, Finish, FinishRaises, vars, machines
  <2>2. RecoverInterruptedOperations(b)
    BY <1>3, <2>1 DEF IInv, TypeOK, Start, Fault
  <2>3. status[o] = "processing" /\ ~Recoverable(o, b)
    BY <1>3, <2>2 DEF IInv, TypeOK, RecoverInterruptedOperations
  <2>4. owner' = owner /\ owner[o] \in Boots
    BY <1>3, <2>1 DEF IInv, TypeOK, Start
  <2>5. owner[o] # b /\ boot[owner[o]] = "dead"
    BY <1>3, <2>1, <2>4 DEF IInv, TypeOK, Start
  <2>6. CASE host[owner[o]] = host[b]
    <3>1. pid[owner[o]] # pid[b]
      BY <1>3, <2>4, <2>5, <2>6 DEF UniquePids
    <3>2. PICK c \in Boots : boot[c] = "up" /\ host[c] = host[b] /\ pid[c] = pid[owner[o]]
      BY <2>3, <2>6, <3>1 DEF Recoverable, IsLocalPidAlive
    <3>3. c = owner[o]
      BY <1>3, <2>4, <2>6, <3>2 DEF UniquePids
    <3> QED BY <2>5, <3>2, <3>3
  <2> QED BY <2>4, <2>6
<1>4. IInv /\ UniquePids /\ [Next]_vars =>
        [\A b \in Boots :
           (boot[b] = "unborn" /\ boot'[b] = "up" /\ faults' = faults) =>
             \A o \in Ops :
               (status'[o] = "processing" /\ owner'[o] # NoBoot /\ boot'[owner'[o]] = "dead")
                 => host[owner'[o]] # host[b]]_vars
  BY <1>3
<1> QED BY <1>1, <1>2, <1>4, Invariance, PTL DEF Spec, StartInterruptsDeadClaims

-----------------------------------------------------------------------------
(* The queue implements SerialOperations: a step of a process is a step of  *)
(* the abstract queue on the row that it writes, or none.                   *)

LEMMA InitRefines == Init => Abstract!Init
<1> SUFFICES ASSUME Init PROVE Abstract!Init
  OBVIOUS
<1>1. \E under \in SUBSET Ops :
        /\ \A o \in under, p \in Ops : o <= p
        /\ status = [o \in Ops |-> IF o \in under THEN "processing" ELSE "absent"]
  <2>1. CASE status = [o \in Ops |-> "absent"]
    <3> WITNESS {} \in SUBSET Ops
    <3> QED BY <2>1
  <2>2. ASSUME NEW l \in Ops, \A o \in Ops : l <= o,
               status = [o \in Ops |-> IF o = l THEN "processing" ELSE "absent"]
        PROVE  \E under \in SUBSET Ops :
                 /\ \A o \in under, p \in Ops : o <= p
                 /\ status = [o \in Ops |-> IF o \in under THEN "processing" ELSE "absent"]
    <3> WITNESS {l} \in SUBSET Ops
    <3> QED BY <2>2
  <2> QED BY <2>1, <2>2 DEF Init
<1> QED BY <1>1 DEF Init, Abstract!Init

LEMMA StepRefines == ASSUME IInv, [Next]_vars PROVE [Abstract!Next]_Abstract!vars
<1> USE DEF IInv, TypeOK, rows, machines
<1>1. ASSUME NEW o \in Ops, Submit(o) PROVE Abstract!Request(o)
  BY <1>1 DEF Submit, Abstract!Request
<1>2. ASSUME NEW b \in Boots, Start(b) PROVE Abstract!Interrupt \/ UNCHANGED <<status, effects>>
  <2>1. CASE RecoverInterruptedOperations(b)
    <3> DEFINE lost == {o \in Ops : status[o] = "processing" /\ Recoverable(o, b)}
    <3>1. lost \in SUBSET {o \in Ops : status[o] = "processing"}
      OBVIOUS
    <3>2. status' = [o \in Ops |-> IF o \in lost THEN "interrupted" ELSE status[o]]
      BY <2>1 DEF RecoverInterruptedOperations
    <3> QED BY <1>2, <3>1, <3>2 DEF Start, Abstract!Interrupt
  <2> QED BY <1>2, <2>1 DEF Start
<1>3. ASSUME NEW b \in Boots, NEW o \in Ops, Claim(b, o) PROVE Abstract!Take(o)
  <2>1. \A p \in Ops : p < o /\ GroupOf[p] = GroupOf[o] => status[p] \in Terminal
    BY <1>3, OperationQueueAssumption
       DEF Claim, Oldest, GroupIsIdle, OrderInv, Statuses, Terminal, OperationQueueAssumption
  <2> QED BY <1>3, <2>1 DEF Claim, Abstract!Take, Abstract!Over, Terminal
<1>4. ASSUME NEW b \in Boots, NEW o \in Ops, Execute(b, o)
      PROVE  Abstract!Reach(o) \/ UNCHANGED <<status, effects>>
  <2>1. status[o] = "processing" /\ effects[o] = 0
    BY <1>4 DEF Execute, TaskInv
  <2> QED BY <1>4, <2>1 DEF Execute, Abstract!Reach
<1>5. ASSUME NEW b \in Boots, NEW o \in Ops, Finish(b, o) PROVE Abstract!Finish(o)
  <2>1. status[o] = "processing" /\ owner[o] = b /\ (task[b][o] = "ok" => effects[o] = 1)
    BY <1>5 DEF Finish, TaskInv, EffectInv
  <2>2. status' = [status EXCEPT ![o] = IF task[b][o] = "ok" THEN "completed" ELSE "failed"]
    BY <1>5, <2>1 DEF Finish, FinishClaimedOperation
  <2> QED BY <1>5, <2>1, <2>2 DEF Finish, Abstract!Finish
<1>6. ASSUME NEW b \in Boots, NEW o \in Ops, FinishRaises(b, o) PROVE UNCHANGED <<status, effects>>
  BY <1>6 DEF FinishRaises
<1>7. ASSUME NEW b \in Boots, Crash(b) PROVE UNCHANGED <<status, effects>>
  BY <1>7 DEF Crash
<1>8. CASE UNCHANGED vars
  BY <1>8 DEF vars, Abstract!vars
<1> QED BY <1>1, <1>2, <1>3, <1>4, <1>5, <1>6, <1>7, <1>8 DEF Next, Abstract!Next, Abstract!vars

(* For any rows, processes, machines and process ids, however often they    *)
(* crash and their transactions fail, the table and the radio show what     *)
(* SerialOperations allows.                                                 *)
THEOREM Implementation == Spec => ImplementsSerialOperations
<1>1. Init => Abstract!Init
  BY InitRefines
<1>2. IInv /\ [Next]_vars => [Abstract!Next]_Abstract!vars
  BY StepRefines
<1> QED BY <1>1, <1>2, Invariance, PTL DEF Spec, ImplementsSerialOperations, Abstract!Spec
=============================================================================
