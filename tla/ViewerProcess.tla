----------------------------- MODULE ViewerProcess -----------------------------
(***************************************************************************)
(* The process of the web viewer (WebViewerIntegration of                   *)
(* modules/web_viewer/integration.py, the main loop and stop() of           *)
(* modules/core.py).                                                        *)
(*                                                                         *)
(* start_viewer() creates a thread that spawns the process, watches it and  *)
(* restarts it when it exits; the main loop restarts it too when it finds   *)
(* it dead. The flags and the handle of the process are shared by all the   *)
(* threads and protected by no lock. The thread and the process of a start  *)
(* have its number, which is free again when both have ended.               *)
(***************************************************************************)
EXTENDS Integers, FiniteSets

CONSTANTS
  Starts,            (* numbers of starts: bound on threads and processes   *)
  MaxRestarts,       (* max_restarts                                        *)
  MaxViewerFaults    (* bound on exits of the process and failed preflights  *)

NoProcess == 0   (* viewer_process = None  *)
Main == 0        (* the event loop's thread *)

ASSUME ViewerProcessAssumption ==
  /\ IsFiniteSet(Starts) /\ Starts \subseteq Nat \ {Main} /\ 1 \in Starts
  /\ MaxRestarts \in Nat /\ MaxViewerFaults \in Nat

Threads == Starts \cup {Main}
ThreadSteps == {"none", "spawning", "settling", "watching", "checked", "stopping", "pausing", "ending",
                "idle", "halting"}

VARIABLES
  alive,          (* starts whose process runs                              *)
  handle,         (* viewer_process                                         *)
  running,        (* self.running                                           *)
  tearingDown,    (* shutting_down                                          *)
  viewerEnabled,  (* self.enabled                                           *)
  tooSoon,        (* less than 30 s since last_restart                      *)
  restartCount,   (* restart_count                                          *)
  thread,         (* what each thread does                                  *)
  botStopping,    (* the bot's _shutdown_event                              *)
  underWay,       (* history: threads in a restart when it was set          *)
  viewerFaults

viewerFlags == <<running, tearingDown, viewerEnabled>>
rateLimit == <<tooSoon, restartCount>>
viewerVars == <<alive, handle, viewerFlags, rateLimit, thread, botStopping, underWay, viewerFaults>>

ViewerTypeOK ==
  /\ alive \subseteq Starts /\ handle \in Starts \cup {NoProcess}
  /\ running \in BOOLEAN /\ tearingDown \in BOOLEAN /\ viewerEnabled \in BOOLEAN
  /\ tooSoon \in BOOLEAN /\ restartCount \in Nat
  /\ thread \in [Threads -> ThreadSteps]
  /\ botStopping \in BOOLEAN /\ underWay \subseteq Threads /\ viewerFaults \in 0..MaxViewerFaults

(* start() has called start_viewer() before it connected.                   *)
ViewerInit ==
  /\ alive = {} /\ handle = NoProcess
  /\ running = TRUE /\ tearingDown = FALSE /\ viewerEnabled = TRUE
  /\ tooSoon = FALSE /\ restartCount = 0
  /\ thread = [t \in Threads |-> IF t = Main THEN "idle" ELSE IF t = 1 THEN "spawning" ELSE "none"]
  /\ botStopping = FALSE /\ underWay = {} /\ viewerFaults = 0

ViewerFault == viewerFaults < MaxViewerFaults /\ viewerFaults' = viewerFaults + 1

Exited == handle # NoProcess /\ handle \notin alive

Becomes(t, step) == thread' = [thread EXCEPT ![t] = step]

ProcessEnds(v) ==
  /\ v \in alive /\ alive' = alive \ {v}
  /\ UNCHANGED <<handle, viewerFlags, rateLimit, thread, botStopping, underWay>>

ProcessExits(v) == ViewerFault /\ ProcessEnds(v)

(* One of two processes finds the port taken.                               *)
PortTaken(v) == alive # {v} /\ ProcessEnds(v) /\ UNCHANGED viewerFaults

-----------------------------------------------------------------------------
(* restart_viewer(), called by the main loop or by a watching thread.       *)

(* A thread that returns from it goes on with what it did.                  *)
AfterRestart(t) == IF t = Main THEN "idle" ELSE "ending"

CheckRestart_AnyTime(t) ==
  /\ IF tearingDown \/ tooSoon
       THEN Becomes(t, AfterRestart(t)) /\ UNCHANGED viewerEnabled
       ELSE IF restartCount >= MaxRestarts
              THEN Becomes(t, AfterRestart(t)) /\ viewerEnabled' = FALSE
              ELSE Becomes(t, "checked") /\ UNCHANGED viewerEnabled
  /\ UNCHANGED <<alive, handle, running, tearingDown, rateLimit, botStopping, underWay, viewerFaults>>

(* The conditions, the rate limit and the limit on restarts.                *)
CheckRestart(t) ==
  /\ IF tearingDown \/ botStopping \/ tooSoon
       THEN Becomes(t, AfterRestart(t)) /\ UNCHANGED viewerEnabled
       ELSE IF restartCount >= MaxRestarts
              THEN Becomes(t, AfterRestart(t)) /\ viewerEnabled' = FALSE
              ELSE Becomes(t, "checked") /\ UNCHANGED viewerEnabled
  /\ UNCHANGED <<alive, handle, running, tearingDown, rateLimit, botStopping, underWay, viewerFaults>>

(* stop_viewer() does nothing if nothing seems to run.                      *)
BeginStop(t, done) ==
  IF ~running /\ handle = NoProcess
    THEN Becomes(t, done) /\ UNCHANGED <<running, tearingDown>>
    ELSE Becomes(t, IF t = Main /\ done = "idle" THEN "halting" ELSE "stopping") /\ running' = FALSE /\ tearingDown' = TRUE

RestartViewer(t) ==
  /\ thread[t] = "checked"
  /\ restartCount' = restartCount + 1 /\ tooSoon' = TRUE
  /\ BeginStop(t, "pausing")
  /\ UNCHANGED <<alive, handle, viewerEnabled, botStopping, underWay, viewerFaults>>

(* The process of the handle is terminated; one that has exited keeps its   *)
(* handle. Then whatever still listens on the port is killed, if lsof is    *)
(* installed.                                                               *)
Terminate(t) ==
  /\ thread[t] \in {"stopping", "halting"}
  /\ handle' = IF handle \in alive THEN NoProcess ELSE handle
  /\ \E killed \in {{}, Starts} : alive' = alive \ ({handle} \cup killed)
  /\ Becomes(t, IF thread[t] = "halting" THEN "idle" ELSE "pausing")
  /\ UNCHANGED <<viewerFlags, rateLimit, botStopping, underWay, viewerFaults>>

Free(v) == thread[v] = "none" /\ v \notin alive /\ handle # v

(* After three seconds start_viewer(), which a failed preflight of the      *)
(* database path ends early.                                                *)
StartViewer(t) ==
  /\ thread[t] = "pausing"
  /\ \/ running /\ Becomes(t, AfterRestart(t)) /\ UNCHANGED <<running, tearingDown, viewerFaults>>
     \/ /\ ~running /\ ViewerFault
        /\ Becomes(t, AfterRestart(t)) /\ UNCHANGED <<running, tearingDown>>
     \/ /\ ~running
        /\ \E v \in Starts :
             /\ Free(v) /\ \A u \in Starts : u < v => ~Free(u)
             /\ thread' = [thread EXCEPT ![t] = AfterRestart(t), ![v] = "spawning"]
        /\ running' = TRUE /\ tearingDown' = FALSE /\ UNCHANGED viewerFaults
  /\ UNCHANGED <<alive, handle, viewerEnabled, rateLimit, botStopping, underWay>>

RateLimitEnds ==
  /\ tooSoon /\ tooSoon' = FALSE
  /\ UNCHANGED <<alive, handle, viewerFlags, restartCount, thread, botStopping, underWay, viewerFaults>>

-----------------------------------------------------------------------------
(* The thread of a start: _run_viewer(). It looks at the handle, which may  *)
(* be that of another start by now.                                         *)

Spawn(v) ==
  /\ v # Main /\ thread[v] = "spawning" /\ Becomes(v, "settling")
  /\ alive' = alive \cup {v} /\ handle' = v
  /\ UNCHANGED <<viewerFlags, rateLimit, botStopping, underWay, viewerFaults>>

Settle(v) ==
  /\ thread[v] = "settling"
  /\ IF Exited
       THEN handle' = NoProcess /\ Becomes(v, "ending")
       ELSE UNCHANGED handle /\ Becomes(v, "watching")
  /\ UNCHANGED <<alive, viewerFlags, rateLimit, botStopping, underWay, viewerFaults>>

(* It restarts a process that has exited, unless the bot is stopping.       *)
WatchEnds(v) ==
  /\ thread[v] = "watching" /\ ~(running /\ handle \in alive)
  /\ IF running /\ Exited
       THEN CheckRestart(v)
       ELSE /\ Becomes(v, "ending")
            /\ UNCHANGED <<alive, handle, viewerFlags, rateLimit, botStopping, underWay, viewerFaults>>

ThreadEnds(v) ==
  /\ thread[v] = "ending" /\ Becomes(v, "none") /\ running' = FALSE
  /\ UNCHANGED <<alive, handle, tearingDown, viewerEnabled, rateLimit, botStopping, underWay, viewerFaults>>

-----------------------------------------------------------------------------
(* The event loop's thread.                                                 *)

Unhealthy == handle \notin alive

(* Only a process that has died is noticed.                                 *)
MainChecks_Died ==
  /\ thread[Main] = "idle" /\ viewerEnabled /\ ~botStopping /\ Exited
  /\ CheckRestart(Main)

(* The health check of the main loop, which blocks it during a restart.     *)
MainChecks ==
  /\ thread[Main] = "idle" /\ viewerEnabled /\ ~botStopping /\ Unhealthy
  /\ CheckRestart(Main)

InRestart(t) == thread[t] \in {"checked", "stopping", "pausing"}

(* The main loop ends, and later stop() calls stop_viewer().                *)
BotStops ==
  /\ thread[Main] = "idle" /\ ~botStopping /\ botStopping' = TRUE
  /\ underWay' = {t \in Threads : InRestart(t)}
  /\ UNCHANGED <<alive, handle, viewerFlags, rateLimit, thread, viewerFaults>>

HaltViewer ==
  /\ thread[Main] = "idle" /\ botStopping
  /\ BeginStop(Main, "idle")
  /\ UNCHANGED <<alive, handle, viewerEnabled, rateLimit, botStopping, underWay, viewerFaults>>

(* The threads are daemons: the end of the bot ends them.                   *)
ViewerExit ==
  /\ thread[Main] = "idle"
  /\ thread' = [t \in Threads |-> IF t = Main THEN "idle" ELSE "none"]
  /\ UNCHANGED <<alive, handle, viewerFlags, rateLimit, botStopping, underWay, viewerFaults>>

ThreadStep(t) ==
  \/ RestartViewer(t) \/ Terminate(t) \/ StartViewer(t)
  \/ t \in Starts /\ (Spawn(t) \/ Settle(t) \/ WatchEnds(t) \/ ThreadEnds(t))

ViewerGoesOn ==
  \/ \E t \in Threads : ThreadStep(t)
  \/ \E v \in Starts : ProcessExits(v) \/ PortTaken(v)
  \/ RateLimitEnds

ViewerNext == MainChecks \/ ViewerGoesOn \/ BotStops \/ HaltViewer \/ ViewerExit

-----------------------------------------------------------------------------
(* A viewer is started while the bot stops only at the end of a restart     *)
(* that a watching thread was in already (integration.py:937               *)
(* "shutting_down ... blocks accidental restart during bot shutdown").      *)
StartsWhileStoppingAreLate ==
  [][\A v \in Starts : botStopping /\ thread[v] = "none" /\ thread'[v] = "spawning" =>
       \E t \in underWay \ {Main} : thread[t] = "pausing" /\ thread'[t] # "pausing"]_viewerVars
=============================================================================
