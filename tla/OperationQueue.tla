---------------------------- MODULE OperationQueue ----------------------------
(***************************************************************************)
(* The durable queue of device operations: the web viewer inserts pending  *)
(* rows into channel_operations, and the schedulers of one or more bot     *)
(* processes claim, execute and finalize them (modules/scheduler.py).      *)
(*                                                                         *)
(* A boot is one start of a scheduler; its host, process id and boot id    *)
(* are what a claim records. Each database transaction is one step, so     *)
(* that polling ticks of several processes, slow operations, crashes and   *)
(* restarts interleave everywhere else. What an operation does to the      *)
(* radio is abstracted to the fact that it may have reached it.            *)
(***************************************************************************)
EXTENDS Integers, FiniteSets

CONSTANTS
  Ops,        (* row ids of channel_operations, in insertion order          *)
  Groups,     (* serialized groups: channel, radio, config                  *)
  GroupOf,    (* the group of each row's operation_type                     *)
  Boots,      (* scheduler starts explored: 1..n, in order                  *)
  Hosts,      (* host names of the machines that run a bot                  *)
  Pids,       (* process ids a machine hands out                            *)
  ReusePids,  (* whether a machine hands out the id of a dead process again *)
  MaxFaults   (* bound: database transactions that fail                     *)

NoBoot == 0  (* a claim that predates the ownership columns *)

ASSUME OperationQueueAssumption ==
  /\ Ops \subseteq Nat /\ Boots \subseteq Nat \ {NoBoot}
  /\ GroupOf \in [Ops -> Groups]
  /\ ReusePids \in BOOLEAN /\ MaxFaults \in Nat

VARIABLES
  status,   (* status column of each row, "absent" before the insert        *)
  owner,    (* the boot whose identity the row's claim records              *)
  boot,     (* life of each boot: "unborn", "up" or "dead"                  *)
  host,     (* host of each boot                                            *)
  pid,      (* process id of each boot                                      *)
  task,     (* what the claiming coroutine of a boot is doing with a row    *)
  effects,  (* history: how often a row's action may have reached the radio *)
  faults    (* failed transactions so far                                   *)

rows == <<status, owner>>
machines == <<boot, host, pid>>
vars == <<rows, machines, task, effects, faults>>

Statuses == {"absent", "pending", "processing", "completed", "failed", "interrupted"}
Terminal == {"completed", "failed", "interrupted"}
(* A task has claimed its row, has run its action with or without success,  *)
(* or is in the handler of an exception that the action or the first        *)
(* attempt to finalize raised.                                              *)
Tasks == {"none", "claimed", "ok", "error", "raised"}

TypeOK ==
  /\ status \in [Ops -> Statuses]
  /\ owner \in [Ops -> Boots \cup {NoBoot}]
  /\ boot \in [Boots -> {"unborn", "up", "dead"}]
  /\ host \in [Boots -> Hosts] /\ pid \in [Boots -> Pids]
  /\ task \in [Boots -> [Ops -> Tasks]]
  /\ effects \in [Ops -> Nat]
  /\ faults \in Nat

(* Before the first bot starts the table is empty, or holds one claim left  *)
(* by a version that recorded no owner. The machine and process id each     *)
(* boot will have are chosen here; TLC then explores every choice.          *)
Init ==
  /\ \/ status = [o \in Ops |-> "absent"]
     \/ \E l \in Ops :
          /\ \A o \in Ops : l <= o
          /\ status = [o \in Ops |-> IF o = l THEN "processing" ELSE "absent"]
  /\ owner = [o \in Ops |-> NoBoot]
  /\ boot = [b \in Boots |-> "unborn"]
  /\ host \in [Boots -> Hosts] /\ pid \in [Boots -> Pids]
  /\ ReusePids \/ \A b, c \in Boots : host[b] = host[c] /\ pid[b] = pid[c] => b = c
  /\ task = [b \in Boots |-> [o \in Ops |-> "none"]]
  /\ effects = [o \in Ops |-> 0]
  /\ faults = 0

Fault == faults < MaxFaults /\ faults' = faults + 1

-----------------------------------------------------------------------------
(* The viewer queues an operation and returns its id at once.               *)
Submit(o) ==
  /\ status[o] = "absent"
  /\ \A p \in Ops : p < o => status[p] # "absent"
  /\ status' = [status EXCEPT ![o] = "pending"]
  /\ UNCHANGED <<owner, machines, task, effects, faults>>

(* os.kill(pid, 0) on this machine: some process with that id is running.   *)
IsLocalPidAlive(h, p) == \E b \in Boots : boot[b] = "up" /\ host[b] = h /\ pid[b] = p

(* The claims startup may interrupt: ownerless ones, and those of a process *)
(* of this host that is provably dead. The new process runs by now.         *)
Recoverable(o, b) ==
  \/ owner[o] = NoBoot
  \/ /\ host[owner[o]] = host[b]
     /\ pid[owner[o]] # pid[b]
     /\ ~IsLocalPidAlive(host[b], pid[owner[o]])

(* Claims without an owner, or of a dead one, are queued again. *)
RecoverInterruptedOperations_Requeues(b) ==
  status' = [o \in Ops |->
    IF status[o] = "processing" /\ Recoverable(o, b) THEN "pending" ELSE status[o]]

(* Only claims without an owner are resolved. *)
RecoverInterruptedOperations_LegacyOnly(b) ==
  status' = [o \in Ops |->
    IF status[o] = "processing" /\ owner[o] = NoBoot THEN "interrupted" ELSE status[o]]

RecoverInterruptedOperations(b) ==
  status' = [o \in Ops |->
    IF status[o] = "processing" /\ Recoverable(o, b) THEN "interrupted" ELSE status[o]]

(* A bot process starts: the scheduler's constructor resolves abandoned     *)
(* claims in one transaction, or logs that it could not.                    *)
Start(b) ==
  /\ boot[b] = "unborn"
  /\ \A c \in Boots : c < b => boot[c] # "unborn"
  /\ ~IsLocalPidAlive(host[b], pid[b])
  /\ boot' = [boot EXCEPT ![b] = "up"]
  /\ \/ RecoverInterruptedOperations(b) /\ UNCHANGED faults
     \/ Fault /\ UNCHANGED status
  /\ UNCHANGED <<owner, host, pid, task, effects>>

(* The process dies, or shuts down with operations still running. Bound: a  *)
(* boot is left to start after it.                                          *)
Crash(b) ==
  /\ boot[b] = "up"
  /\ \E c \in Boots : boot[c] = "unborn"
  /\ boot' = [boot EXCEPT ![b] = "dead"]
  /\ task' = [task EXCEPT ![b] = [o \in Ops |-> "none"]]
  /\ UNCHANGED <<rows, host, pid, effects, faults>>

Oldest(o) ==
  \A p \in Ops : GroupOf[p] = GroupOf[o] /\ status[p] = "pending" => o <= p

GroupIsIdle(g) == \A p \in Ops : GroupOf[p] = g => status[p] # "processing"

(* _claim_operation under BEGIN IMMEDIATE: nothing else in the group is     *)
(* processing, and the oldest pending row becomes this scheduler's.         *)
Claim(b, o) ==
  /\ boot[b] = "up" /\ status[o] = "pending"
  /\ GroupIsIdle(GroupOf[o])
  /\ Oldest(o)
  /\ status' = [status EXCEPT ![o] = "processing"]
  /\ owner' = [owner EXCEPT ![o] = b]
  /\ task' = [task EXCEPT ![b][o] = "claimed"]
  /\ UNCHANGED <<machines, effects, faults>>

(* The operation runs to its end: it may or may not have reached the radio  *)
(* when it fails, and has when it succeeds.                                 *)
Execute(b, o) ==
  /\ task[b][o] = "claimed"
  /\ \/ /\ task' = [task EXCEPT ![b][o] = "ok"]
        /\ effects' = [effects EXCEPT ![o] = @ + 1]
     \/ /\ \/ task' = [task EXCEPT ![b][o] = "error"]
           \/ GroupOf[o] # "config" /\ task' = [task EXCEPT ![b][o] = "raised"]
        /\ \/ effects' = [effects EXCEPT ![o] = @ + 1]
           \/ UNCHANGED effects
  /\ UNCHANGED <<rows, machines, faults>>

(* The outcome is recorded only on a row that is still this claim's.        *)
FinishClaimedOperation(b, o) ==
  IF status[o] = "processing" /\ owner[o] = b
    THEN status' = [status EXCEPT ![o] = IF task[b][o] = "ok" THEN "completed" ELSE "failed"]
    ELSE UNCHANGED status

Finish(b, o) ==
  /\ task[b][o] \in {"ok", "error", "raised"}
  /\ FinishClaimedOperation(b, o)
  /\ task' = [task EXCEPT ![b][o] = "none"]
  /\ UNCHANGED <<owner, machines, effects, faults>>

(* The transaction raised. The handler of channel and radio operations then *)
(* tries once more, recording a failure; a config reload, and an error in   *)
(* the handler, give up and leave the row processing.                       *)
FinishRaises(b, o) ==
  /\ task[b][o] \in {"ok", "error", "raised"}
  /\ Fault
  /\ task' = [task EXCEPT ![b][o] =
       IF @ = "raised" \/ GroupOf[o] = "config" THEN "none" ELSE "raised"]
  /\ UNCHANGED <<rows, machines, effects>>

Next ==
  \/ \E o \in Ops : Submit(o)
  \/ \E b \in Boots : Start(b) \/ Crash(b)
  \/ \E b \in Boots, o \in Ops :
       Claim(b, o) \/ Execute(b, o) \/ Finish(b, o) \/ FinishRaises(b, o)

Spec == Init /\ [][Next]_vars

(* The service manager starts the bot again after a crash, the scheduler    *)
(* polls every five seconds and an operation it started comes to an end.    *)
Fairness ==
  /\ \A b \in Boots : WF_vars(Start(b))
  /\ \A b \in Boots, o \in Ops :
       WF_vars(Claim(b, o)) /\ WF_vars(Execute(b, o)) /\ WF_vars(Finish(b, o))

FairSpec == Spec /\ Fairness

-----------------------------------------------------------------------------
(* No operation reaches the radio twice, whatever crashes, restarts and     *)
(* concurrent schedulers do: an ambiguous action is never replayed.         *)
AtMostOnce == \A o \in Ops : effects[o] <= 1

(* In one group only one running process is working on an operation, and    *)
(* it works on the row the table shows as processing.                       *)
SerialExecution ==
  \A b, c \in Boots, o, p \in Ops :
    (task[b][o] # "none" /\ task[c][p] # "none" /\ GroupOf[o] = GroupOf[p])
      => b = c /\ o = p /\ status[o] = "processing" /\ owner[o] = b

(* Actions of a group reach the radio in the order they were queued: when   *)
(* one has, every earlier one of the group is over.                         *)
EffectsInOrder ==
  \A o, p \in Ops :
    (o < p /\ GroupOf[o] = GroupOf[p] /\ effects[p] > 0) => status[o] \in Terminal

(* A row the viewer sees as completed did reach the radio.                  *)
CompletedWasDone == \A o \in Ops : status[o] = "completed" => effects[o] > 0

(* What the viewer polled as an outcome never changes, and a claimed row    *)
(* never becomes claimable again.                                           *)
OutcomesAreFinal ==
  [][\A o \in Ops :
       /\ status[o] \in Terminal => status'[o] = status[o]
       /\ status[o] = "processing" => status'[o] \in {"processing"} \cup Terminal]_vars

(* One machine runs the bot and does not reuse its process ids.             *)
FreshProcesses == \A b, c \in Boots : host[b] = host[c] /\ (pid[b] = pid[c] => b = c)

(* On one machine whose process ids are not reused, with a database that    *)
(* answers, every queued operation comes to an end, however often the bot   *)
(* crashes and is started again.                                            *)
OperationsEnd ==
  \A o \in Ops :
    (FreshProcesses /\ status[o] # "absent") ~> (status[o] \in Terminal \/ faults > 0)

(* "If a previous same-host owner is provably dead at startup, its claim    *)
(* becomes interrupted so later work can proceed" (modules/scheduler.py,    *)
(* _claim_operation): a start whose recovery worked leaves no claim of a    *)
(* dead process of its host.                                                *)
StartInterruptsDeadClaims ==
  [][\A b \in Boots :
       (boot[b] = "unborn" /\ boot'[b] = "up" /\ faults' = faults) =>
         \A o \in Ops :
           (status'[o] = "processing" /\ owner'[o] # NoBoot /\ boot'[owner'[o]] = "dead")
             => host[owner'[o]] # host[b]]_vars

-----------------------------------------------------------------------------
Abstract == INSTANCE SerialOperations WITH outcome <- status, actions <- effects

(* Whatever processes poll, crash and are started again, and whichever      *)
(* transaction fails, what the table shows and what the radio gets is what  *)
(* SerialOperations promises: each operation at most once, in the order of  *)
(* its group, under a claim, and with a final outcome.                      *)
ImplementsSerialOperations == Abstract!Spec
=============================================================================
