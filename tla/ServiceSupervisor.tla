--------------------------- MODULE ServiceSupervisor ---------------------------
(***************************************************************************)
(* Supervision of the service plugins (modules/service_supervisor.py, the   *)
(* main loop and stop() of modules/core.py).                                *)
(*                                                                         *)
(* The main loop looks at the services every 30 seconds and creates a task  *)
(* for each unhealthy one, which stops it and starts it again; a failure    *)
(* keeps the next attempt off for a backoff. stop() stops the services one  *)
(* after the other and waits for none of these tasks. What a service does   *)
(* in its start() and stop() is external.                                   *)
(***************************************************************************)
EXTENDS Integers, FiniteSets

CONSTANTS
  Services,           (* numbered in the order in which they were loaded     *)
  MaxServiceFaults    (* bound on failures of services                       *)

ASSUME ServiceSupervisorAssumption ==
  /\ IsFiniteSet(Services) /\ Services \subseteq Nat \ {0}
  /\ MaxServiceFaults \in Nat

VARIABLES
  service,      (* "up", "sick" = running but unhealthy, or "down"           *)
  restart,      (* restart task: "none", "created", "stopping" or "starting" *)
  restarting,   (* _service_restarting                                      *)
  backingOff,   (* services whose last failure is less than the backoff ago  *)
  supervising,  (* the main loop runs                                       *)
  halting,      (* services that stop() has yet to stop                     *)
  late,         (* history: restart tasks alive when stop() stopped theirs   *)
  serviceFaults

restarts == <<restart, restarting>>
serviceVars == <<service, restarts, backingOff, supervising, halting, late, serviceFaults>>

ServiceTypeOK ==
  /\ service \in [Services -> {"up", "sick", "down"}]
  /\ restart \in [Services -> {"none", "created", "stopping", "starting"}]
  /\ restarting \subseteq Services /\ backingOff \subseteq Services
  /\ supervising \in BOOLEAN /\ halting \subseteq Services /\ late \subseteq Services
  /\ serviceFaults \in 0..MaxServiceFaults

ServiceFault == serviceFaults < MaxServiceFaults /\ serviceFaults' = serviceFaults + 1

Healthy(s) == service[s] = "up"

(* _start_service_at_boot() of each: it runs, or waits out the backoff.     *)
ServiceInit ==
  /\ service \in [Services -> {"up", "down"}]
  /\ backingOff = {s \in Services : service[s] = "down"}
  /\ restart = [s \in Services |-> "none"] /\ restarting = {}
  /\ supervising = TRUE /\ halting = {} /\ late = {} /\ serviceFaults = 0

(* A service falls ill or ends by itself.                                   *)
ServiceFails(s) ==
  /\ service[s] = "up" /\ ServiceFault
  /\ \E state \in {"sick", "down"} : service' = [service EXCEPT ![s] = state]
  /\ UNCHANGED <<restarts, backingOff, supervising, halting, late>>

(* _restart_unhealthy_services(): a task for every service that is due.     *)
RestartDue(s) == ~Healthy(s) /\ s \notin restarting /\ s \notin backingOff

HealthStep_Always ==
  /\ \E s \in Services : RestartDue(s) /\ restart[s] = "none"
  /\ \A s \in Services : restart[s] # "created"
  /\ restart' = [s \in Services |-> IF RestartDue(s) THEN "created" ELSE restart[s]]
  /\ UNCHANGED <<service, restarting, backingOff, supervising, halting, late, serviceFaults>>

HealthStep ==
  /\ supervising /\ \E s \in Services : RestartDue(s) /\ restart[s] = "none"
  /\ \A s \in Services : restart[s] # "created"
  /\ restart' = [s \in Services |-> IF RestartDue(s) THEN "created" ELSE restart[s]]
  /\ UNCHANGED <<service, restarting, backingOff, supervising, halting, late, serviceFaults>>

(* _restart_service().                                                      *)
RestartBegins(s) ==
  /\ restart[s] = "created"
  /\ restart' = [restart EXCEPT ![s] = "stopping"]
  /\ restarting' = restarting \cup {s}
  /\ UNCHANGED <<service, backingOff, supervising, halting, late, serviceFaults>>

RestartEnds_KeepsMark(s) ==
  /\ restart' = [restart EXCEPT ![s] = "none"]
  /\ UNCHANGED restarting

RestartEnds(s) ==
  /\ restart' = [restart EXCEPT ![s] = "none"]
  /\ restarting' = restarting \ {s}

RestartStops(s) ==
  /\ restart[s] = "stopping"
  /\ \/ /\ service' = [service EXCEPT ![s] = "down"]
        /\ restart' = [restart EXCEPT ![s] = "starting"]
        /\ UNCHANGED <<restarting, backingOff, serviceFaults>>
     \/ /\ ServiceFault /\ RestartEnds(s)
        /\ backingOff' = backingOff \cup {s} /\ UNCHANGED service
  /\ UNCHANGED <<supervising, halting, late>>

(* start() makes it run, declines or raises, or leaves it unhealthy.        *)
RestartStarts(s) ==
  /\ restart[s] = "starting" /\ RestartEnds(s)
  /\ \/ /\ service' = [service EXCEPT ![s] = "up"]
        /\ backingOff' = backingOff \ {s} /\ UNCHANGED serviceFaults
     \/ /\ ServiceFault
        /\ \E state \in {"sick", "down"} : service' = [service EXCEPT ![s] = state]
        /\ backingOff' = backingOff \cup {s}
  /\ UNCHANGED <<supervising, halting, late>>

BackoffEnds(s) ==
  /\ s \in backingOff /\ backingOff' = backingOff \ {s}
  /\ UNCHANGED <<service, restarts, supervising, halting, late, serviceFaults>>

-----------------------------------------------------------------------------
(* The bot stops.                                                           *)

MainLoopEnds ==
  /\ supervising /\ supervising' = FALSE /\ halting' = Services
  /\ UNCHANGED <<service, restarts, backingOff, late, serviceFaults>>

(* stop() awaits the stop() of one service after the other; one that raises *)
(* is only logged.                                                          *)
HaltService(s) ==
  /\ s \in halting /\ \A t \in halting : s <= t
  /\ halting' = halting \ {s}
  /\ late' = IF restart[s] # "none" THEN late \cup {s} ELSE late
  /\ \/ service' = [service EXCEPT ![s] = "down"] /\ UNCHANGED serviceFaults
     \/ ServiceFault /\ UNCHANGED service
  /\ UNCHANGED <<restarts, backingOff, supervising>>

(* asyncio.run() cancels the tasks that are left.                           *)
RestartsCancelled ==
  /\ restart' = [s \in Services |-> "none"] /\ restarting' = {}
  /\ UNCHANGED <<service, backingOff, supervising, halting, late, serviceFaults>>

ServiceTasks ==
  \/ HealthStep
  \/ \E s \in Services : RestartBegins(s) \/ RestartStops(s) \/ RestartStarts(s)

ServiceGoesOn == \E s \in Services : ServiceFails(s) \/ BackoffEnds(s)

ServiceNext ==
  \/ ServiceTasks \/ ServiceGoesOn
  \/ MainLoopEnds \/ RestartsCancelled \/ \E s \in Services : HaltService(s)

-----------------------------------------------------------------------------
(* A service that has been stopped by stop() runs again only if its restart *)
(* task was under way (core.py: stop() "Stop all loaded services" does not  *)
(* wait for the tasks of _restart_unhealthy_services()).                    *)
RunsAgainForRestart ==
  [][\A s \in Services :
       ~supervising /\ s \notin halting /\ service[s] = "down" /\ service'[s] # "down" => s \in late]_serviceVars

(* An unhealthy service is restarted again, however often that fails, as    *)
(* long as the bot runs (service_supervisor.py: the backoff "recovers the   *)
(* transient case").                                                        *)
UnhealthyIsRetried ==
  \A s \in Services : ~Healthy(s) ~> (Healthy(s) \/ restart[s] # "none" \/ ~supervising)
=============================================================================
