----------------------------- MODULE CommandQueue ------------------------------
(***************************************************************************)
(* Dispatch of commands and the cooldown queue                              *)
(* (modules/command_manager.py, modules/commands/base_command.py).          *)
(*                                                                         *)
(* A message invokes one command. A command whose global cooldown is about  *)
(* to expire is not rejected but put in a queue, one entry per user and     *)
(* command, which a background task executes later. Users' invocations are  *)
(* limited by a cooldown per user; the global cooldown is started by        *)
(* renders of the schedule and by test messages of the web viewer. A step   *)
(* goes from one await of a task of the event loop to its next.             *)
(***************************************************************************)
EXTENDS Integers, FiniteSets

CONSTANTS
  Messages, Users, Commands,
  Sender, Invokes,   (* the user and the command of each message             *)
  Permitted,         (* messages that pass the checks of can_execute() other *)
                     (* than the cooldown: their channel, for example        *)
  Cooldown,          (* cooldown_seconds of each command, in ticks           *)
  QueueThreshold,    (* get_queue_threshold_seconds()                        *)
  Recent,            (* the 3 s within which a user "just executed"          *)
  MaxReloads         (* bound on reloads of the configuration                *)

ASSUME CommandQueueAssumption ==
  /\ IsFiniteSet(Messages)
  /\ Sender \in [Messages -> Users] /\ Invokes \in [Messages -> Commands]
  /\ Permitted \subseteq Messages
  /\ Cooldown \in [Commands -> Nat] /\ QueueThreshold \in [Commands -> Nat]
  /\ Recent \in Nat /\ MaxReloads \in Nat

VARIABLES
  style,       (* how each command answers, see Styles; it never changes     *)
  rested,      (* ticks since _last_execution_time of each command           *)
  userRested,  (* ticks since the user's entry in _user_cooldowns            *)
  queued,      (* messages in _command_queue                                 *)
  outdated,    (* messages that hold a command object of before a reload     *)
  due,         (* ticks until expires_at of a queued entry                   *)
  batch,       (* entries the queue processor found ready                    *)
  serving,     (* entry the processor executes, a set of at most one         *)
  direct,      (* per message: the task that handles it                      *)
  runs,        (* history: executions and answers of each message            *)
  sinceRun,    (* history: ticks since the user's execution of the command   *)
  overtaken,   (* history: messages that waited while their user's other ran *)
  uncharged,   (* history: users and commands whose last execution no        *)
               (* _user_cooldowns in use knows of                            *)
  reloads      (* reloads so far                                             *)

cooldowns == <<rested, userRested>>
processor == <<batch, serving>>
history == <<runs, sinceRun, overtaken, uncharged>>
commandQueueVars == <<style, cooldowns, queued, outdated, due, processor, direct, history, reloads>>

(* By its response format in [Keywords], by itself, or by itself once the   *)
(* internet is known to be reachable.                                       *)
Styles == {"format", "own", "online"}

DirectStates == {"unseen", "checking", "running", "handled"}

CommandQueueTypeOK ==
  /\ style \in [Commands -> Styles]
  /\ rested \in [Commands -> Nat] /\ userRested \in [Commands \X Users -> Nat]
  /\ queued \subseteq Messages /\ outdated \subseteq Messages /\ due \in [Messages -> Nat]
  /\ batch \subseteq queued /\ serving \subseteq Messages
  /\ direct \in [Messages -> DirectStates]
  /\ runs \in [Messages -> Nat] /\ sinceRun \in [Commands \X Users -> Nat]
  /\ overtaken \subseteq Messages /\ uncharged \subseteq Commands \X Users
  /\ reloads \in 0..MaxReloads

(* Ages are counted up to the one from which they make no difference.       *)
Age(c) == IF Cooldown[c] > Recent THEN Cooldown[c] ELSE Recent
Fresh == [c \in Commands |-> Age(c)]
FreshUsers == [cu \in Commands \X Users |-> Age(cu[1])]

CommandQueueInit ==
  /\ style \in [Commands -> Styles]
  /\ rested = Fresh /\ userRested = FreshUsers
  /\ queued = {} /\ outdated = {} /\ due = [m \in Messages |-> 0]
  /\ batch = {} /\ serving = {}
  /\ direct = [m \in Messages |-> "unseen"]
  /\ runs = [m \in Messages |-> 0] /\ sinceRun = FreshUsers
  /\ overtaken = {} /\ uncharged = {} /\ reloads = 0

-----------------------------------------------------------------------------
Of(m) == <<Invokes[m], Sender[m]>>
Style(m) == style[Invokes[m]]

(* check_cooldown(None), and check_cooldown(sender) in can_execute().       *)
GlobalReady(c) == rested[c] >= Cooldown[c]
CanExecute(m) == m \in Permitted /\ userRested[Of(m)] >= Cooldown[Invokes[m]]

(* Only a global cooldown near its end, and not for the user who caused it. *)
ShouldQueue(m) ==
  LET c == Invokes[m] IN
  /\ ~GlobalReady(c)
  /\ userRested[Of(m)] >= Recent
  /\ Cooldown[c] - rested[c] <= QueueThreshold[c]

(* _queue_command(): at most one entry per user and command.                *)
HasEntry(m) == \E other \in queued : Of(other) = Of(m)

Enqueue(m) ==
  /\ queued' = queued \cup {m}
  /\ due' = [due EXCEPT ![m] = Cooldown[Invokes[m]] - rested[Invokes[m]]]

(* What has been let in, by a check or into the queue, and has yet to run.  *)
Waiting == queued \cup {m \in Messages : direct[m] = "checking"}

(* A message is executed, or answered, once more.                           *)
Runs(m) ==
  /\ runs' = [runs EXCEPT ![m] = @ + 1]
  /\ sinceRun' = [sinceRun EXCEPT ![Of(m)] = 0]
  /\ overtaken' = overtaken \cup {other \in Waiting' : Of(other) = Of(m)}

(* record_execution(sender), on the command object the message holds.       *)
Record(m) ==
  /\ IF m \in outdated
       THEN uncharged' = uncharged \cup {Of(m)} /\ UNCHANGED userRested
       ELSE uncharged' = uncharged \ {Of(m)} /\ userRested' = [userRested EXCEPT ![Of(m)] = 0]
  /\ UNCHANGED rested

(* record_execution(), then command.execute().                              *)
Execute(m) == Record(m) /\ Runs(m)

(* What becomes of a message of a command that runs by itself once          *)
(* execute_commands() does not queue it.                                    *)
Dispatch(m) ==
  \/ /\ CanExecute(m) /\ Style(m) = "online"
     /\ direct' = [direct EXCEPT ![m] = "checking"]
     /\ UNCHANGED <<cooldowns, history>>
  \/ /\ CanExecute(m) /\ Style(m) = "own"
     /\ direct' = [direct EXCEPT ![m] = "running"]
     /\ Execute(m)
  \/ /\ ~CanExecute(m)
     /\ direct' = [direct EXCEPT ![m] = "handled"]
     /\ UNCHANGED <<cooldowns, history>>

(* process_message(): check_keywords() queues the message or answers it;    *)
(* then execute_commands() goes through the commands without a response     *)
(* format, asks again whether to queue, and cannot queue what has an entry. *)
Receive(m) ==
  /\ direct[m] = "unseen"
  /\ IF ShouldQueue(m) /\ ~HasEntry(m) THEN Enqueue(m) ELSE UNCHANGED <<queued, due>>
  /\ \/ /\ Style(m) = "format"
        /\ direct' = [direct EXCEPT ![m] = "handled"]
        /\ IF ~(ShouldQueue(m) /\ ~HasEntry(m)) /\ CanExecute(m)
             THEN Runs(m) /\ UNCHANGED uncharged
             ELSE UNCHANGED history
        /\ UNCHANGED cooldowns
     \/ Style(m) # "format" /\ Dispatch(m)
  /\ UNCHANGED <<style, outdated, processor, reloads>>

(* The answer of _check_internet_cached_async().                            *)
InternetChecked(m) ==
  /\ direct[m] = "checking"
  /\ UNCHANGED queued
  /\ \/ direct' = [direct EXCEPT ![m] = "running"] /\ Execute(m)
     \/ direct' = [direct EXCEPT ![m] = "handled"] /\ UNCHANGED <<cooldowns, history>>
  /\ UNCHANGED <<style, outdated, due, processor, reloads>>

DirectDone(m) ==
  /\ direct[m] = "running"
  /\ direct' = [direct EXCEPT ![m] = "handled"]
  /\ UNCHANGED <<style, cooldowns, queued, outdated, due, processor, history, reloads>>

-----------------------------------------------------------------------------
(* The queue processor. The order within a batch is left open.              *)

(* An entry is ready in the tick before it expires, and only then.          *)
FindReady_Before ==
  /\ batch = {} /\ serving = {}
  /\ batch' = {m \in queued : due[m] = 1} /\ batch' # {}
  /\ UNCHANGED <<style, cooldowns, queued, outdated, due, serving, direct, history, reloads>>

FindReady ==
  /\ batch = {} /\ serving = {}
  /\ batch' = {m \in queued : due[m] = 0} /\ batch' # {}
  /\ UNCHANGED <<style, cooldowns, queued, outdated, due, serving, direct, history, reloads>>

ServeQueued_KeepsEntry(m) ==
  /\ m \in batch /\ serving = {}
  /\ batch' = batch \ {m} /\ serving' = {m}
  /\ UNCHANGED <<style, queued, outdated, due, direct, reloads>>
  /\ Execute(m)

(* Only execute_commands() starts the cooldown of the user.                 *)
ServeQueued_NotRecorded(m) ==
  /\ m \in batch /\ serving = {}
  /\ queued' = queued \ {m} /\ batch' = batch \ {m} /\ serving' = {m}
  /\ UNCHANGED <<style, outdated, due, direct, reloads>>
  /\ Runs(m)
  /\ UNCHANGED <<cooldowns, uncharged>>

(* The entry leaves the queue before it is executed; nobody asks for the    *)
(* cooldown of the user again.                                              *)
ServeQueued(m) ==
  /\ m \in batch /\ serving = {}
  /\ queued' = queued \ {m} /\ batch' = batch \ {m} /\ serving' = {m}
  /\ UNCHANGED <<style, outdated, due, direct, reloads>>
  /\ Execute(m)

Served(m) ==
  /\ m \in serving /\ serving' = {}
  /\ UNCHANGED <<style, cooldowns, queued, outdated, due, batch, direct, history, reloads>>

-----------------------------------------------------------------------------
(* A render of a scheduled message asks for the global cooldown, a test     *)
(* message of the web viewer may skip it; both start it.                    *)
StartGlobalCooldown(c) ==
  /\ rested' = [rested EXCEPT ![c] = 0]
  /\ UNCHANGED <<style, userRested, queued, outdated, due, processor, direct, history, reloads>>

Render(c) == GlobalReady(c) /\ StartGlobalCooldown(c)

Capture(c) == \E skip_cooldown \in BOOLEAN :
  (skip_cooldown \/ GlobalReady(c)) /\ StartGlobalCooldown(c)

(* reload_config(): new command objects, whose cooldowns have not begun;    *)
(* what waits keeps the old ones.                                           *)
Reload ==
  /\ reloads < MaxReloads /\ reloads' = reloads + 1
  /\ rested' = Fresh /\ userRested' = FreshUsers
  /\ outdated' = outdated \cup queued \cup {m \in Messages : direct[m] = "checking"}
  /\ uncharged' = Commands \X Users
  /\ UNCHANGED <<style, queued, due, processor, direct, runs, sinceRun, overtaken>>

(* Time passes.                                                             *)
Older(n, c) == IF n < Age(c) THEN n + 1 ELSE n

CommandQueueTick ==
  /\ rested' = [c \in Commands |-> Older(rested[c], c)]
  /\ userRested' = [cu \in Commands \X Users |-> Older(userRested[cu], cu[1])]
  /\ sinceRun' = [cu \in Commands \X Users |-> Older(sinceRun[cu], cu[1])]
  /\ due' = [m \in Messages |-> IF due[m] > 0 THEN due[m] - 1 ELSE 0]
  /\ UNCHANGED <<style, queued, outdated, processor, direct, runs, overtaken, uncharged, reloads>>

MessageArrives == \E m \in Messages : Receive(m)

CommandQueueTasks ==
  \/ \E m \in Messages : InternetChecked(m) \/ DirectDone(m) \/ ServeQueued(m) \/ Served(m)
  \/ \E c \in Commands : Render(c) \/ Capture(c)
  \/ FindReady \/ Reload

CommandQueueNext == MessageArrives \/ CommandQueueTasks \/ CommandQueueTick

-----------------------------------------------------------------------------
(* A message is executed or answered once; twice only if its command runs   *)
(* by itself and one of the two is its own entry of the queue               *)
(* (command_manager.py: check_keywords() and execute_commands() both see    *)
(* every message).                                                          *)
ExecutionsAreExcused ==
  \A m \in Messages : runs[m] <= IF Style(m) = "format" THEN 1 ELSE 2

(* A user's executions of a command that sends its own answer are a         *)
(* cooldown apart, on whichever path they come; an entry of the queue, which *)
(* waits for the command's cooldown only, keeps the short distance of        *)
(* "just executed". Closer comes only a message that was let in before the   *)
(* execution it follows, during an await of the internet check or in the     *)
(* queue, or one that follows an execution which no cooldown in use knows    *)
(* of: charged to a command object of before a reload, or forgotten by one.  *)
RunsAreSpaced ==
  [][\A m \in Messages :
       runs'[m] # runs[m] /\ Style(m) # "format" =>
         \/ m \in overtaken \/ Of(m) \in uncharged
         \/ sinceRun[Of(m)] >= IF m \in serving' \ serving THEN Recent ELSE Cooldown[Invokes[m]]]_commandQueueVars

(* A message is executed at most once (command_manager.py:2347 "Queue       *)
(* failed (user already has queued command) - fall through to normal        *)
(* rejection").                                                             *)
ExecutedOnce == \A m \in Messages : runs[m] <= 1
=============================================================================
