---------------------------------- MODULE Bot ----------------------------------
(***************************************************************************)
(* The life of the bot (main loop, stop() and exit handlers of              *)
(* modules/core.py, meshcore_bot.py) with the parts that live by it: the    *)
(* command queue, the mesh graph, the records for the web viewer, the       *)
(* supervised services, the process of the web viewer, and the handling of  *)
(* channel messages with the warnings to their senders.                     *)
(*                                                                         *)
(* They share the thread of the event loop, which a flush of the graph, a   *)
(* full write queue or a restart of the viewer block, and stop() takes them *)
(* down one after the other while the tasks of the loop and the threads     *)
(* still run. features are the parts that a configuration uses. Messages    *)
(* and warnings are followed into the next process instead of through       *)
(* stop(), which takes nothing from them but time: their limits are to hold *)
(* over a restart.                                                          *)
(***************************************************************************)
EXTENDS CommandQueue, MeshGraph, CommandRecords, ServiceSupervisor, ViewerProcess, ChannelMessages, RegionWarnings

CONSTANT Configurations   (* sets of features *)

Features == {"commands", "graph", "records", "services", "viewer", "messages", "warnings"}

Restarted == {"messages", "warnings"}

ASSUME BotAssumption ==
  Configurations \subseteq SUBSET Features /\ \A p \in Texts : Author[p] \in Senders

(* What stop() is about to do, then the exit handlers ("saving", "parting")  *)
(* and the end of the process.                                              *)
Order == <<"running", "graph", "services", "viewer", "disconnecting", "closing",
           "saving", "parting", "exiting", "exited">>
Phases == {Order[i] : i \in 1..Len(Order)}
Ended == {"saving", "parting", "exiting", "exited"}

VARIABLES
  features,   (* parts in use, which never change                            *)
  phase,      (* how far stop() is                                          *)
  hears       (* packets and messages arrive from the radio                  *)

lifecycle == <<features, phase, hears>>
botVars == <<lifecycle, commandQueueVars, meshGraphVars, commandRecordsVars, serviceVars, viewerVars,
             channelMessagesVars, regionWarningsVars>>

BotTypeOK ==
  /\ features \in Configurations /\ phase \in Phases /\ hears \in BOOLEAN
  /\ CommandQueueTypeOK /\ MeshGraphTypeOK /\ CommandRecordsTypeOK
  /\ ServiceTypeOK /\ ViewerTypeOK
  /\ ChannelMessagesTypeOK /\ RegionWarningsTypeOK

(* A part that is not in use has one initial state.                         *)
BotInit ==
  /\ features \in Configurations /\ phase = "running" /\ hears = TRUE
  /\ CommandQueueInit /\ MeshGraphInit /\ CommandRecordsInit /\ ServiceInit /\ ViewerInit
  /\ ChannelMessagesInit /\ RegionWarningsInit
  /\ "commands" \notin features => \A c \in Commands : style[c] = "own"
  /\ "graph" \notin features => strategy = "immediate" /\ row = Nothing
  /\ "services" \notin features => \A s \in Services : Healthy(s)

(* The thread of the event loop, or of the exit handlers, is free.          *)
LoopFree == GraphLoopFree /\ LoopIdle /\ thread[Main] = "idle"

Others(f) ==
  /\ f # "commands" => UNCHANGED commandQueueVars
  /\ f # "graph" => UNCHANGED meshGraphVars
  /\ f # "records" => UNCHANGED commandRecordsVars
  /\ f # "services" => UNCHANGED serviceVars
  /\ f # "viewer" => UNCHANGED viewerVars
  /\ f # "messages" => UNCHANGED channelMessagesVars
  /\ f \notin {"warnings", "messages"} => UNCHANGED regionWarningsVars

(* A step of a thread or of the outside world, and one of a task of the     *)
(* event loop, which asyncio.run() has cancelled once stop() returned.      *)
StepOf(f) == f \in features /\ phase # "exited" /\ UNCHANGED lifecycle /\ Others(f)
TaskOf(f) == StepOf(f) /\ phase \notin Ended /\ LoopFree

-----------------------------------------------------------------------------
(* The parts at work.                                                       *)

CommandStep == TaskOf("commands") /\ (CommandQueueTasks \/ (hears /\ MessageArrives))
TimeStep == StepOf("commands") /\ phase \notin Ended /\ CommandQueueTick

GraphObserves == TaskOf("graph") /\ hears /\ LinkObserved
GraphGoesOn == StepOf("graph") /\ MeshGraphGoesOn

ReplyStep == TaskOf("records") /\ (CommandRecordsTasks \/ (hears /\ PacketArrives))
RecordStep == StepOf("records") /\ CommandRecordsGoOn

SuperviseStep == TaskOf("services") /\ ServiceTasks
ServiceStep == StepOf("services") /\ ServiceGoesOn

ViewerChecked == TaskOf("viewer") /\ MainChecks
ViewerStep == StepOf("viewer") /\ ViewerGoesOn

(* What the search of a message has found is told to the warnings, and its  *)
(* handler waits for the warning that this starts.                          *)
MessageJudged(p) ==
  IF "warnings" \in features /\ p \notin cached
    THEN Observe(Author[p], Verdict(p)) /\ Judge(p, IF StartsSend THEN Len(attempts') ELSE 0)
    ELSE Judge(p, 0) /\ UNCHANGED regionWarningsVars

MessageHandled(p) ==
  /\ TaskOf("messages") /\ (handling[p] = "queued" => hears)
  /\ \/ MessageJudged(p)
     \/ Deferred(p) /\ UNCHANGED regionWarningsVars
     \/ awaits[p] # 0 /\ ~Sending(awaits[p]) /\ Resume(p) /\ UNCHANGED regionWarningsVars

MessageStep ==
  \/ \E p \in Texts : MessageHandled(p)
  \/ TaskOf("messages") /\ ((hears /\ RowArrives) \/ KeysLoad) /\ UNCHANGED regionWarningsVars

AirStep ==
  /\ StepOf("messages") /\ phase \notin Ended
  /\ (\E p \in Texts : FirstHeard(p)) \/ RowAges
  /\ UNCHANGED regionWarningsVars

(* Without the messages any verdict may be told.                            *)
WarningStep ==
  \/ TaskOf("warnings") /\ \E i \in 1..Len(attempts) : WarningEnds(i)
  \/ StepOf("warnings") /\ phase \notin Ended /\ CooldownEnds
  \/ /\ TaskOf("warnings") /\ "messages" \notin features
     /\ \E s \in Senders, v \in {"scoped", "global", "unknown"} : Observe(s, v)

(* The process ends, stopped or not, and is started again.                  *)
Restart ==
  /\ features \subseteq Restarted
  /\ UNCHANGED lifecycle /\ Others("messages")
  /\ ChannelRestart /\ WarningsRestart

-----------------------------------------------------------------------------
(* stop(): a phase of a part that is not in use is skipped.                 *)

Skipped ==
  ({"graph", "services", "viewer"} \ features)
    \cup (IF "graph" \in features THEN {} ELSE {"saving"})
    \cup (IF "viewer" \in features THEN {} ELSE {"parting"})

NextPhase == \E i, j \in 1..Len(Order) :
  /\ phase = Order[i] /\ i < j /\ Order[j] \notin Skipped
  /\ \A k \in i + 1..j - 1 : Order[k] \in Skipped
  /\ phase' = Order[j]

(* _shutdown_event is set, and the main loop has ended.                     *)
StopBegins ==
  /\ phase = "running" /\ features \cap Restarted = {}
  /\ LoopFree /\ NextPhase /\ UNCHANGED <<features, hears>>
  /\ BotStops /\ MainLoopEnds
  /\ UNCHANGED <<commandQueueVars, meshGraphVars, commandRecordsVars, channelMessagesVars, regionWarningsVars>>

StopGraph ==
  /\ phase = "graph" /\ LoopFree /\ NextPhase /\ UNCHANGED <<features, hears>>
  /\ GraphShutdown /\ Others("graph")

StopService ==
  /\ phase = "services" /\ LoopFree /\ UNCHANGED <<features, hears>>
  /\ \E s \in Services : HaltService(s)
  /\ IF halting' = {} THEN NextPhase ELSE UNCHANGED phase
  /\ Others("services")

StopViewer ==
  /\ phase = "viewer" /\ LoopFree /\ NextPhase /\ UNCHANGED <<features, hears>>
  /\ HaltViewer /\ Others("viewer")

(* No more packets arrive, unless the disconnect timed out or failed, which *)
(* makes no difference to services and viewer.                              *)
Disconnect ==
  /\ phase = "disconnecting" /\ LoopFree /\ NextPhase
  /\ hears' \in {FALSE, features \ {"services", "viewer"} # {}} /\ UNCHANGED features
  /\ Others("none")

(* Awaited, on a thread of its own: the other tasks go on until the worker  *)
(* is done, and an update may be about to be submitted.                     *)
StopTracker ==
  /\ phase = "closing" /\ ~closing
  /\ CloseTracker /\ Others("records") /\ UNCHANGED lifecycle

(* stop() returns, and asyncio.run() cancels what is left.                  *)
LoopEnds ==
  /\ phase = "closing" /\ LoopFree /\ NextPhase /\ UNCHANGED <<features, hears>>
  /\ "records" \in features => TrackerClosed
  /\ RestartsCancelled /\ Others("services")

(* _cleanup_mesh_graph(), then _cleanup_web_viewer(): the last registered   *)
(* is the first to be called.                                               *)
ExitGraph ==
  /\ phase = "saving" /\ LoopFree /\ NextPhase /\ UNCHANGED <<features, hears>>
  /\ GraphShutdown /\ Others("graph")

ExitViewer ==
  /\ phase = "parting" /\ LoopFree /\ NextPhase /\ UNCHANGED <<features, hears>>
  /\ HaltViewer /\ Others("viewer")

(* The interpreter waits for its executors; the other threads end with it.  *)
Exit ==
  /\ phase = "exiting" /\ LoopFree /\ worker = <<>>
  /\ NextPhase /\ UNCHANGED <<features, hears>>
  /\ ViewerExit /\ Others("viewer")

Stop == StopBegins \/ StopGraph \/ StopService \/ StopViewer \/ Disconnect \/ StopTracker \/ LoopEnds
          \/ ExitGraph \/ ExitViewer \/ Exit

BotNext ==
  \/ CommandStep \/ TimeStep \/ GraphObserves \/ GraphGoesOn \/ ReplyStep \/ RecordStep
  \/ SuperviseStep \/ ServiceStep \/ ViewerChecked \/ ViewerStep
  \/ MessageStep \/ AirStep \/ WarningStep \/ Restart
  \/ Stop

(* Tasks and threads are scheduled, and what they wait for ends: requests   *)
(* and the disconnect have timeouts, database calls and stop() of services  *)
(* return, a terminated process ends and a second one finds no port, as a   *)
(* send of a warning ends and the radio delivers what it has queued. The    *)
(* bot may run for ever, but a stop that has begun goes on.                 *)
BotFairness ==
  /\ WF_botVars(TimeStep)
  /\ WF_botVars(TaskOf("commands") /\ (FindReady \/ \E m \in Messages : ServeQueued(m) \/ Served(m)))
  /\ WF_botVars(StepOf("graph") /\ (WriterWakes \/ BuildParams("writer") \/ CommitFlush("writer") \/ WriterPrunes))
  /\ WF_botVars(StepOf("graph") /\
       (BuildParams("loop") \/ CommitFlush("loop") \/ \E l \in Links : PromoteDelete(Coarse(l)) \/ PromoteAdd(l)))
  /\ WF_botVars(StepOf("records") /\ (DrainFlushes \/ FlushCommits \/ PutHeld \/ LoopFlushes \/ GiveUp))
  /\ WF_botVars(StepOf("records") /\ (Submit \/ Work))
  /\ \A s \in Services : WF_botVars(
       \/ TaskOf("services") /\ (HealthStep \/ RestartBegins(s) \/ RestartStops(s) \/ RestartStarts(s))
       \/ StepOf("services") /\ BackoffEnds(s))
  /\ WF_botVars(ViewerChecked)
  /\ WF_botVars(StepOf("viewer") /\
       (RateLimitEnds \/ (\E v \in Starts : PortTaken(v)) \/ \E t \in Threads : ThreadStep(t)))
  /\ \A p \in Texts : WF_botVars(MessageHandled(p))
  /\ WF_botVars(TaskOf("warnings") /\ \E i \in 1..Len(attempts) : WarningEnds(i))
  /\ WF_botVars(phase # "running" /\ Stop)

BotSpec == BotInit /\ [][BotNext]_botVars /\ BotFairness

-----------------------------------------------------------------------------
(* What is queued leaves the queue, as long as the bot runs.                *)
QueuedIsServed == \A m \in Messages : (m \in queued) ~> (m \notin queued \/ phase # "running")

(* When the process ends, the database lacks observations of an edge only   *)
(* if a write has failed, or the thread is cut off in the middle of a flush *)
(* (core.py:1174 "to ensure graph state is persisted properly when the bot  *)
(* shuts down").                                                            *)
ExitStoresGraph ==
  phase = "exited" => \A e \in Edges : count[e] > row[e] => graphFaults > 0 \/ e \in updates["writer"]

(* A stored row that is behind its record has an update on the way, or one  *)
(* found no row, failed or was refused; a packet that arrives while the     *)
(* tracker is closed may be overtaken by an earlier one (core.py:1140: it   *)
(* is closed "now that no more packets arrive").                            *)
RepeatsAreStored ==
  \A r \in Replies : \A c \in commandId[r] :
    stream[c] # NotStored /\ stream[c] < heard[r] =>
      \/ c \in missed \/ (closing /\ hears)
      \/ \E u \in {worker[i] : i \in 1..Len(worker)} \cup {submitting[i] : i \in 1..Len(submitting)} :
           u.command = c /\ u.count = heard[r]

(* The row of a captured command is stored, unless it was given up because  *)
(* the queue was full, or the bot stopped before.                           *)
CapturedIsStored ==
  \A r \in Replies : (r \in captured) ~> (stream[r] # NotStored \/ r \in dropped \/ phase = "exited")

(* A viewer that is gone comes back, unless the limit of restarts is        *)
(* reached, the bot stops, or a restart that did not start one left         *)
(* shutting_down set (core.py: the checks of the main loop).                *)
ViewerComesBack ==
  ("viewer" \in features /\ Unhealthy)
    ~> (~Unhealthy \/ ~viewerEnabled \/ botStopping \/ (tearingDown /\ \A t \in Threads : ~InRestart(t)))

(* A message that the radio has is handled, however long the warning takes  *)
(* that its handler waits for, unless the process ends meanwhile.           *)
MessagesAreHandled ==
  \A p \in Texts :
    (handling[p] \in {"queued", "waiting", "warning"}) ~> (handling[p] \in {"answered", "ignored", "lost"})

(* A stop that has begun ends the process: no lock, full queue, thread or   *)
(* restart holds it up for ever.                                            *)
StopEnds == (phase # "running") ~> (phase = "exited")
================================================================================
