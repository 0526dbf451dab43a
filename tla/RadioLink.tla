------------------------------- MODULE RadioLink -------------------------------
(***************************************************************************)
(* The bot's link to its radio (modules/radio_link.py, the main loop and    *)
(* event handlers of modules/core.py).                                      *)
(*                                                                         *)
(* Everything runs on one event loop: a step goes from one await of a       *)
(* coroutine to its next, and the transport changes between them. Two       *)
(* tasks can bring up a connection: "repair", the transport reconnect, and  *)
(* "op", a radio operation of the web viewer; the queue runs one operation  *)
(* at a time. A connection is a MeshCore object of the library: what it     *)
(* does is external, modelled from how the code uses it.                    *)
(***************************************************************************)
EXTENDS Integers, FiniteSets

CONSTANTS
  Conns,         (* MeshCore objects; a closed one stands for a new object  *)
  Sites,         (* the installations considered, see Installation           *)
  Threshold,     (* radio_probe_fail_threshold                              *)
  MaxRetries,    (* reconnect_max_retries, 0 = unlimited                    *)
  MaxIncidents   (* bound: drops, failures, operator requests, signals      *)

NoConn == 0

(* Whether connection_type is tcp rather than serial or ble, which radio    *)
(* operations the operator uses, whether disconnect() may time out with the *)
(* link still up, and whether the database may refuse a write.              *)
Operations == {"disconnect", "reboot", "reconnect"}
Installation == [tcp : BOOLEAN, uses : SUBSET Operations, hangs : BOOLEAN, locked : BOOLEAN]

ASSUME RadioLinkAssumption ==
  /\ Conns \subseteq Nat \ {NoConn} /\ Conns # {}
  /\ Sites \subseteq Installation /\ Threshold \in Nat \ {0}
  /\ MaxRetries \in Nat /\ MaxIncidents \in Nat

VARIABLES
  connected,   (* bot.connected                                            *)
  current,     (* bot.meshcore, NoConn = None                              *)
  banner,      (* the radio_connected row the web viewer shows             *)
  missed,      (* history: the last write of that row failed               *)
  link,        (* transport of each object: "up", "down" or "closed"       *)
  notices,     (* objects whose DISCONNECTED event is not yet handled      *)
  repairing,   (* _transport_reconnect_in_progress                         *)
  relinks,     (* _radio_relinks_in_progress                               *)
  shutdown,    (* _shutdown_event                                          *)
  zombie,      (* _radio_zombie_detected                                   *)
  fails,       (* consecutive probe failures                               *)
  attempts,    (* reconnect attempts made, counted if they are limited     *)
  pc, own,     (* per task: where it is, and the object it opens or closes *)
  op,          (* the radio operation that runs                            *)
  probe,       (* "idle" or "waiting"                                      *)
  main,        (* main loop: "running" or "ended"                          *)
  site,        (* the installation, which never changes                    *)
  outcomes,    (* history: outcomes that may end the bot                   *)
  incidents    (* incidents so far                                         *)

row == <<banner, missed>>
radio == <<connected, current, row>>
transport == <<link, notices>>
health == <<zombie, fails>>
tasks == <<pc, own>>
flags == <<repairing, relinks>>
vars == <<radio, transport, repairing, relinks, shutdown, health, attempts, tasks, op, probe,
          main, site, outcomes, incidents>>

Tasks == {"repair", "op"}
Steps == {"idle", "begin", "stopping", "rebooting", "closing", "creating", "setup", "finishing", "cleanup", "backoff"}

TypeOK ==
  /\ connected \in BOOLEAN /\ banner \in BOOLEAN /\ missed \in BOOLEAN
  /\ current \in Conns \cup {NoConn}
  /\ link \in [Conns -> {"up", "down", "closed"}] /\ notices \subseteq Conns
  /\ repairing \in BOOLEAN /\ relinks \in Nat /\ shutdown \in BOOLEAN
  /\ zombie \in BOOLEAN /\ fails \in 0..Threshold - 1
  /\ attempts \in 0..MaxRetries
  /\ pc \in [Tasks -> Steps] /\ own \in [Tasks -> Conns \cup {NoConn}]
  /\ op \in Operations \cup {"none"}
  /\ probe \in {"idle", "waiting"} /\ main \in {"running", "ended"} /\ site \in Sites
  /\ outcomes \subseteq {"stopped", "gave_up", "relink_failed"}
  /\ incidents \in Nat

(* start() has connected, its write of the row has succeeded or not, and    *)
(* the main loop begins.                                                    *)
Init ==
  /\ site \in Sites
  /\ connected = TRUE
  /\ banner \in BOOLEAN /\ missed \in BOOLEAN /\ (missed \/ banner) /\ (missed => site.locked)
  /\ \E c \in Conns :
       current = c /\ link = [d \in Conns |-> IF d = c THEN "up" ELSE "closed"]
  /\ notices = {}
  /\ repairing = FALSE /\ relinks = 0 /\ shutdown = FALSE
  /\ zombie = FALSE /\ fails = 0 /\ attempts = 0
  /\ pc = [t \in Tasks |-> "idle"] /\ own = [t \in Tasks |-> NoConn]
  /\ op = "none" /\ probe = "idle" /\ main = "running"
  /\ outcomes = {} /\ incidents = 0

Incident == incidents < MaxIncidents /\ incidents' = incidents + 1
Quiet == UNCHANGED incidents

At(t, step) == main = "running" /\ pc[t] = step
Goto(t, step, c) ==
  /\ pc' = [pc EXCEPT ![t] = step]
  /\ own' = [own EXCEPT ![t] = c]

KeepRunning == ~shutdown /\ (connected \/ repairing \/ relinks > 0)

-----------------------------------------------------------------------------
(* The transport.                                                           *)

Live(c) == c # NoConn /\ link[c] = "up"

(* An object that nothing refers to any more: the next one created.         *)
Fresh(c) ==
  /\ link[c] = "closed" /\ current # c
  /\ \A t \in Tasks : own[t] # c

(* The transport of an object breaks, and its subscribers will be told if   *)
(* the handlers are in place.                                               *)
Drop(c) ==
  /\ main = "running" /\ link[c] = "up" /\ Incident
  /\ link' = [link EXCEPT ![c] = "down"]
  /\ \/ notices' = notices \cup {c}
     \/ \E t \in Tasks : own[t] = c /\ UNCHANGED notices
  /\ UNCHANGED <<radio, flags, shutdown, health, attempts, tasks, op, probe, main, site, outcomes>>

(* disconnect() of an object closes it and flushes its events, or times out *)
(* and is abandoned with the transport as it was.                           *)
Disconnect(c) ==
  \/ link' = [link EXCEPT ![c] = "closed"] /\ notices' = notices \ {c} /\ Quiet
  \/ UNCHANGED transport /\ Incident /\ (site.hangs \/ link[c] # "up")

-----------------------------------------------------------------------------
(* The transport reconnect.                                                 *)

(* set_metadata() logs an error of the database and returns: the row keeps  *)
(* what it says, and nothing writes it again before the next change.        *)
UpdateRadioConnectedMetadata(up) ==
  \/ banner' = up /\ missed' = FALSE
  \/ site.locked /\ UNCHANGED banner /\ missed' = TRUE

ScheduleTransportReconnect ==
  IF shutdown \/ repairing \/ ~connected
    THEN UNCHANGED <<repairing, row, tasks>>
    ELSE /\ repairing' = TRUE
         /\ UpdateRadioConnectedMetadata(FALSE)
         /\ Goto("repair", "begin", NoConn)

(* A DISCONNECTED event reaches its handler. *)
OnDisconnected(c) ==
  /\ main = "running" /\ c \in notices
  /\ notices' = notices \ {c}
  /\ ScheduleTransportReconnect
  /\ UNCHANGED <<connected, current, link, relinks, shutdown, health, attempts, op, probe,
                 main, site, outcomes, incidents>>

(* A radio declared dead is not polled either. *)
PollTransport_NotZombie ==
  /\ main = "running" /\ KeepRunning /\ ~zombie
  /\ current # NoConn /\ ~Live(current)
  /\ ScheduleTransportReconnect
  /\ UNCHANGED <<connected, current, transport, relinks, shutdown, health, attempts, op, probe,
                 main, site, outcomes, incidents>>

(* The main loop's own check, every five seconds. *)
PollTransport ==
  /\ main = "running" /\ KeepRunning
  /\ current # NoConn /\ ~Live(current)
  /\ ScheduleTransportReconnect
  /\ UNCHANGED <<connected, current, transport, relinks, shutdown, health, attempts, op, probe,
                 main, site, outcomes, incidents>>

(* The task ends without a link: its attempts are spent, the bot shuts      *)
(* down, or connect() let an exception through.                             *)
RepairOver ==
  /\ repairing' = FALSE
  /\ attempts' = 0
  /\ outcomes' = outcomes \cup {"gave_up"}
  /\ Goto("repair", "idle", NoConn)

(* The current object is left as it is. *)
Attempt_NoClose ==
  /\ attempts' = IF MaxRetries = 0 THEN 0 ELSE attempts + 1
  /\ current' = NoConn
  /\ connected' = FALSE
  /\ Goto("repair", "creating", NoConn)
  /\ UNCHANGED <<repairing, outcomes>>

(* One round of _attempt_reconnect: forget the current object and close it, *)
(* then connect anew.                                                       *)
Attempt ==
  /\ attempts' = IF MaxRetries = 0 THEN 0 ELSE attempts + 1
  /\ current' = NoConn
  /\ connected' = FALSE
  /\ Goto("repair", IF current = NoConn THEN "creating" ELSE "closing", current)
  /\ UNCHANGED <<repairing, outcomes>>

AttemptsSpent == MaxRetries > 0 /\ attempts >= MaxRetries

(* The reconnect task starts, or ends a wait between attempts.              *)
RepairRound ==
  /\ At("repair", "begin") \/ At("repair", "backoff")
  /\ IF shutdown \/ AttemptsSpent
       THEN RepairOver /\ connected' = FALSE /\ UNCHANGED current
       ELSE Attempt
  /\ UNCHANGED <<row, transport, relinks, shutdown, health, op, probe, main, site, incidents>>

RepairCloses ==
  /\ At("repair", "closing")
  /\ Disconnect(own["repair"])
  /\ Goto("repair", "creating", NoConn)
  /\ UNCHANGED <<radio, flags, shutdown, health, attempts, op, probe, main, site, outcomes>>

-----------------------------------------------------------------------------
(* connect(), run by either task.                                           *)

(* A connect() returns to its caller: a reconnect that worked is over, one  *)
(* that failed waits for its next attempt; a radio operation ends.          *)
ConnectReturns(t, success) ==
  IF t = "repair"
    THEN /\ repairing' = (repairing /\ ~success)
         /\ attempts' = IF success THEN 0 ELSE attempts
         /\ Goto("repair", IF success THEN "idle" ELSE "backoff", NoConn)
         /\ UNCHANGED <<relinks, op, outcomes>>
    ELSE /\ relinks' = relinks - 1
         /\ op' = "none"
         /\ outcomes' = IF success THEN outcomes ELSE outcomes \cup {"relink_failed"}
         /\ Goto("op", "idle", NoConn)
         /\ UNCHANGED <<repairing, attempts>>

(* The viewer is not told. *)
Abandon_KeepsBanner ==
  /\ connected' = FALSE
  /\ UNCHANGED row

(* The exit of every connect() that did not get ready. *)
Abandon ==
  /\ connected' = FALSE
  /\ UpdateRadioConnectedMetadata(FALSE)

(* The library raised, or returned no object at all. *)
CreateFails(t) ==
  /\ At(t, "creating") /\ Incident
  /\ Abandon
  /\ current' \in {current, NoConn}
  /\ ConnectReturns(t, FALSE)
  /\ UNCHANGED <<transport, shutdown, health, probe, main, site>>

(* An exception that connect() does not catch ends the reconnect task. A    *)
(* radio operation catches it.                                              *)
RepairRaises ==
  /\ At("repair", "creating") /\ Incident
  /\ Abandon
  /\ RepairOver
  /\ UNCHANGED <<current, transport, relinks, op, shutdown, health, probe, main, site>>

(* The new object is the bot's, but its transport is not connected. *)
CreateUnconnected(t) ==
  /\ At(t, "creating") /\ Incident
  /\ \E c \in Conns :
       /\ Fresh(c)
       /\ current' = c
       /\ link' = [link EXCEPT ![c] = "down"]
       /\ Goto(t, "cleanup", c)
  /\ Abandon
  /\ UNCHANGED <<notices, flags, shutdown, health, attempts, op, probe, main, site, outcomes>>

ClearHealth == zombie' = FALSE /\ fails' = 0

CreateConnected(t) ==
  /\ At(t, "creating")
  /\ \E c \in Conns :
       /\ Fresh(c)
       /\ current' = c
       /\ link' = [link EXCEPT ![c] = "up"]
       /\ Goto(t, "setup", c)
  /\ connected' = TRUE
  /\ UpdateRadioConnectedMetadata(TRUE)
  /\ ClearHealth
  /\ UNCHANGED <<notices, flags, shutdown, attempts, op, probe, main, site, outcomes, incidents>>

(* Contacts and channels are loaded; then the handlers are subscribed on    *)
(* the bot's object, which another task may have replaced or removed.       *)
SetupHandlers(t) ==
  /\ At(t, "setup") /\ current # NoConn
  /\ Goto(t, "finishing", own[t])
  /\ UNCHANGED <<radio, transport, flags, shutdown, health, attempts,
                 op, probe, main, site, outcomes, incidents>>

SetupFails(t) ==
  /\ At(t, "setup") \/ At(t, "finishing")
  /\ IF At(t, "setup") /\ current = NoConn THEN Quiet ELSE Incident
  /\ Abandon
  /\ Goto(t, "cleanup", own[t])
  /\ UNCHANGED <<current, transport, flags, shutdown, health, attempts, op, probe, main, site, outcomes>>

(* Clock, flood scope and name are set, and services told: the link stands. *)
SetupDone(t) ==
  /\ At(t, "finishing")
  /\ ConnectReturns(t, TRUE)
  /\ UNCHANGED <<radio, transport, shutdown, health, probe, main, site, incidents>>

(* The incomplete object is closed, and dropped if it still is the bot's.   *)
Cleanup(t) ==
  /\ At(t, "cleanup")
  /\ Disconnect(own[t])
  /\ current' = IF current = own[t] THEN NoConn ELSE current
  /\ \/ ConnectReturns(t, FALSE)
     \/ t = "repair" /\ RepairOver /\ UNCHANGED <<relinks, op>>
  /\ UNCHANGED <<connected, row, shutdown, health, probe, main, site>>

-----------------------------------------------------------------------------
(* Radio operations of the web viewer.                                      *)

OpBegins ==
  /\ main = "running" /\ KeepRunning /\ op = "none" /\ Incident
  /\ UNCHANGED <<link, notices, repairing, shutdown, health, attempts, probe, main, site>>

(* disconnect_radio, labelled Stop Bot, once the library has closed the     *)
(* object: the flag that ends the main loop.                                *)
Stopped ==
  /\ connected' = FALSE
  /\ UpdateRadioConnectedMetadata(FALSE)
  /\ outcomes' = outcomes \cup {"stopped"}
  /\ op' = "none"

BeginDisconnect ==
  /\ OpBegins
  /\ IF current = NoConn
       THEN Stopped /\ UNCHANGED tasks
       ELSE /\ op' = "disconnect"
            /\ Goto("op", "stopping", current)
            /\ UNCHANGED <<connected, row, outcomes>>
  /\ UNCHANGED <<current, relinks>>

EndDisconnect ==
  /\ At("op", "stopping")
  /\ Disconnect(own["op"])
  /\ Stopped
  /\ Goto("op", "idle", NoConn)
  /\ UNCHANGED <<current, flags, shutdown, health, attempts, probe, main, site>>

(* With no object to close the operation goes on to connect() at once.      *)
Close ==
  IF current = NoConn
    THEN /\ connected' = FALSE
         /\ UpdateRadioConnectedMetadata(FALSE)
         /\ Goto("op", "creating", NoConn)
    ELSE /\ Goto("op", "closing", current)
         /\ UNCHANGED <<connected, row>>

(* reboot_radio and reconnect_radio hold the loops open.                    *)
BeginRelink(kind) ==
  /\ OpBegins
  /\ op' = kind
  /\ relinks' = relinks + 1
  /\ IF kind = "reboot" /\ Live(current)
       THEN Goto("op", "rebooting", NoConn) /\ UNCHANGED <<connected, row>>
       ELSE Close
  /\ UNCHANGED <<current, outcomes>>

(* The reboot command was answered, failed or timed out. *)
RebootSent ==
  /\ At("op", "rebooting")
  /\ Close
  /\ UNCHANGED <<current, transport, flags, shutdown, health, attempts,
                 op, probe, main, site, outcomes, incidents>>

(* The link is closed; the reboot also waits eight seconds. *)
RelinkCloses ==
  /\ At("op", "closing")
  /\ Disconnect(own["op"])
  /\ connected' = FALSE
  /\ UpdateRadioConnectedMetadata(FALSE)
  /\ Goto("op", "creating", NoConn)
  /\ UNCHANGED <<current, flags, shutdown, health, attempts, op, probe, main, site, outcomes>>

(* Any other error of disconnect() ends the operation where it is; a reboot *)
(* ignores it.                                                              *)
OpRaises ==
  /\ At("op", "stopping") \/ (At("op", "closing") /\ op = "reconnect")
  /\ Incident
  /\ relinks' = IF op = "reconnect" THEN relinks - 1 ELSE relinks
  /\ outcomes' = IF op = "reconnect" THEN outcomes \cup {"relink_failed"} ELSE outcomes
  /\ op' = "none"
  /\ Goto("op", "idle", NoConn)
  /\ UNCHANGED <<radio, transport, repairing, shutdown, health, attempts, probe, main, site>>

-----------------------------------------------------------------------------
(* The health probe and the main loop.                                      *)

ProbeBegins ==
  /\ main = "running" /\ KeepRunning /\ probe = "idle" /\ ~zombie
  /\ IF Live(current)
       THEN probe' = "waiting" /\ UNCHANGED <<repairing, row, tasks>>
       ELSE ScheduleTransportReconnect /\ UNCHANGED probe
  /\ UNCHANGED <<connected, current, transport, relinks, shutdown, health, attempts, op,
                 main, site, outcomes, incidents>>

ProbeAnswered ==
  /\ main = "running" /\ probe = "waiting"
  /\ probe' = "idle"
  /\ fails' = 0
  /\ UNCHANGED <<radio, transport, flags, shutdown, zombie, attempts, tasks,
                 op, main, site, outcomes, incidents>>

(* Serial and BLE: an error counts towards a zombie, which only a new link  *)
(* clears; TCP: it counts towards a reconnect. A serial timeout, or another *)
(* exception, leaves the count alone.                                       *)
ProbeFails ==
  /\ main = "running" /\ probe = "waiting"
  /\ probe' = "idle"
  /\ \/ /\ fails + 1 < Threshold
        /\ fails' = fails + 1
        /\ UNCHANGED <<zombie, repairing, row, tasks>>
     \/ /\ fails + 1 = Threshold /\ ~site.tcp
        /\ fails' = 0 /\ zombie' = TRUE
        /\ UNCHANGED <<repairing, row, tasks>>
     \/ /\ fails + 1 = Threshold /\ site.tcp
        /\ fails' = 0 /\ UNCHANGED zombie
        /\ ScheduleTransportReconnect
     \/ UNCHANGED <<health, repairing, row, tasks>>
  /\ Incident
  /\ UNCHANGED <<connected, current, transport, relinks, shutdown, attempts, op, main, site, outcomes>>

(* SIGTERM or SIGINT. *)
Signal ==
  /\ main = "running" /\ ~shutdown /\ Incident
  /\ shutdown' = TRUE
  /\ connected' = FALSE
  /\ UNCHANGED <<current, row, transport, flags, health, attempts, tasks,
                 op, probe, main, site, outcomes>>

(* The main loop sees that it need not go on: start() returns, stop() runs  *)
(* and the process ends with whatever tasks it has.                         *)
MainEnds ==
  /\ main = "running" /\ ~KeepRunning
  /\ main' = "ended"
  /\ UNCHANGED <<site, radio, transport, flags, shutdown, health, attempts, tasks,
                 op, probe, outcomes, incidents>>

ConnectStep(t) ==
  \/ CreateFails(t) \/ CreateUnconnected(t) \/ CreateConnected(t)
  \/ SetupHandlers(t) \/ SetupFails(t) \/ SetupDone(t) \/ Cleanup(t)

OpStep ==
  \/ "disconnect" \in site.uses /\ BeginDisconnect
  \/ \E kind \in site.uses \cap {"reboot", "reconnect"} : BeginRelink(kind)
  \/ EndDisconnect \/ RebootSent \/ RelinkCloses \/ OpRaises

Next ==
  \/ \E c \in Conns : Drop(c) \/ OnDisconnected(c)
  \/ PollTransport \/ RepairRound \/ RepairCloses \/ RepairRaises
  \/ \E t \in Tasks : ConnectStep(t)
  \/ OpStep
  \/ ProbeBegins \/ ProbeAnswered \/ ProbeFails
  \/ Signal \/ MainEnds

Spec == Init /\ [][Next]_vars

(* The event loop runs every task that is ready, the main loop polls every  *)
(* five seconds, and the library comes to an end of what it was asked.      *)
Fairness ==
  /\ WF_vars(PollTransport) /\ WF_vars(MainEnds)
  /\ WF_vars(RepairRound) /\ WF_vars(RepairCloses)
  /\ WF_vars(EndDisconnect) /\ WF_vars(RebootSent) /\ WF_vars(RelinkCloses)
  /\ \A t \in Tasks : WF_vars(ConnectStep(t))

FairSpec == Spec /\ Fairness

-----------------------------------------------------------------------------
(* A bot that counts as connected has an object to send with, whichever     *)
(* tasks replace, abandon and clean up objects meanwhile.                   *)
ConnectedHasObject == connected => current # NoConn

(* The in-progress flags stand for a task that will clear them: every exit  *)
(* path does, or the bot could never reconnect, or never end, again.        *)
FlagsHaveTasks ==
  /\ repairing <=> pc["repair"] # "idle"
  /\ relinks = IF op \in {"reboot", "reconnect"} THEN 1 ELSE 0
  /\ op = "none" <=> pc["op"] = "idle"

(* Losing the link does not end the bot: the main loop ends only on a       *)
(* signal, a Stop Bot, a reconnect that ran out of attempts or an operation *)
(* that could not bring the link back (keep_running).                       *)
LoopEndsForAReason == main = "ended" => shutdown \/ outcomes # {}

(* No radio operation and no abandoned disconnect interferes with the       *)
(* reconnects of such an installation.                                      *)
Alone == site.uses = {} /\ ~site.hangs

(* The viewer's radio state: shown as connected only when the bot is, and   *)
(* whenever it is and repairs nothing, while no operation interferes with a *)
(* reconnect. A write of the row that failed is not tried again; the next   *)
(* one, at the latest that of the next outage or reconnect, puts the row    *)
(* right whatever it said before.                                           *)
BannerIsHonest ==
  (Alone /\ ~missed) =>
    /\ banner => connected \/ shutdown
    /\ connected /\ ~repairing => banner

(* A reconnect that works alone never leaves a second transport open, and   *)
(* the one that is open is the bot's or about to be closed.                 *)
OneLiveLink ==
  Alone => \A c \in Conns : link[c] = "up" => c = current \/ \E t \in Tasks : own[t] = c

(* A lost transport is repaired, or the bot ends so that its service        *)
(* manager starts it again.                                                 *)
LostLinkIsRepaired ==
  (connected /\ ~Live(current)) ~> (connected /\ Live(current)) \/ main = "ended"

(* disconnect_radio: "This operation clears connected without setting a     *)
(* reconnect/relink flag, so it ends the main loop and the process exits."  *)
StopEndsTheBot == ("stopped" \in outcomes) ~> (main = "ended")
=============================================================================
