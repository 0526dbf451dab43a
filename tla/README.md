# Verification of meshcore-bot

TLA+ models of the concurrent core of meshcore-bot, the TLC runs that check them on small instances,
and TLAPS proofs of the safety properties for every instance. The reference is the code under
`modules/`; each definition that models code has its lines in `PROJECT.json` ("map").

| | |
|---|---|
| components modelled | radio-offline breaker, device-operation queue, radio link, feeds, database restore, sending a message, direct-message contacts, and the bot's life with its command queue, mesh graph, records for the viewer, services, viewer process, channel messages and region warnings |
| TLC runs | 9 that pass, 3 that show where the code departs from its documentation |
| theorems | 51, each checked to the last leaf by TLAPS, with the lemmas they rest on |

Contents: 1 the system, 2 what is hard in it, 3 the modules and how they correspond to the code,
4 the runs, 5 the proofs, 6 what the models found or leave as it is, 7 assumptions and what is not
modelled, 8 the plan.

## 1. The system

meshcore-bot is one Python process: an asyncio event loop (main loop, event handlers, services,
replies), a scheduler thread that submits coroutines to that loop and waits for some of them, and
worker threads (`asyncio.to_thread`). The web viewer is a second process that shares only the SQLite
databases and the configuration file with it. The radio is reached through the `meshcore` library
over serial, BLE or TCP; every command is one frame and one answer.

| component | state it keeps | operations | interacts with | correct when |
|---|---|---|---|---|
| radio-offline breaker (`radio_offline.py`) | outage flag, trial and its id, failure count, generation, published generation, the stored flag | admit, settle, trip, arm on an answered probe, publish, viewer-clear check | scheduler's measured sends, replies, health probe, viewer (database row) | one trial per answered probe, settled in every case; an outage ends for a reason; the banner tells the truth |
| device-operation queue (`scheduler.py`, `web_viewer/app.py`) | rows of `channel_operations` with owner host, pid, boot id | submit, claim, execute, finish, recover at startup | viewer (producer), several bot processes, radio link | an operation is never repeated, a group is serial and in order, each operation ends |
| radio link (`radio_link.py`, `core.py`) | `connected`, `meshcore`, reconnect and relink flags, attempts, probe failures, shutdown, viewer's row | connect, transport reconnect, disconnect/reboot/reconnect, probe, shutdown | main loop, event handlers, operation queue, library | connected means an object to send with; flags are cleared; a lost link is repaired or the bot ends |
| feeds (`feed_manager.py`) | rows of the queue and of the activity, `last_item_id`, send intervals | poll, select, queue, tick, send, mark | scheduler, radio, viewer (subscriptions) | no item is posted twice without a loss, each one queued is sent |
| database restore (`database_restore.py`) | database, WAL, staged candidate, recovery copies | stage, apply, verify, roll back | viewer (stages), start of the bot | nothing is lost, the bot starts on whole candidates |
| sending (`command_manager.py`, `rate_limiter.py`, `radio_link.py`) | rate limits, command lock, flood scope of the radio, attempts | check limits, claim a slot, queue for the radio, set scope, send, restore, retry | every producer of messages, radio | a message goes out under its own scope; the radio is given back; each send ends |
| direct-message contacts (`dm_contacts.py`, `repeater_manager.py`) | leases and locks per recipient, shared list, verifications, claims of removals, radio's contacts | use, resolve, refresh, restore, confirm; four kinds of removal | senders of DMs, automatic and manual purges, radio | a contact is not removed under a DM, no claim is left behind, all of them end |
| life of the bot (`core.py`, `meshcore_bot.py`) | main loop, shutdown event, how far `stop()` is | run, stop part by part, exit handlers | every part below, radio link | a stop ends, and what was to be saved is saved |
| command dispatch and cooldown queue (`command_manager.py`, `base_command.py`) | one queued command per user, cooldowns of commands and users | match, queue, execute, serve, reload | messages, renders of the schedule, viewer's test messages | what is queued is served, and executions are accounted for |
| mesh graph (`mesh_graph.py`) | edges in memory, pending updates, rows | observe, promote, flush, prune, shut down | packets on the event loop, batch thread, exit handlers | observations reach the database, rows follow their edges |
| transmission tracker and records (`transmission_tracker.py`, `web_viewer/integration.py`) | sent packets and repeats, write queue, executor | record, match, capture, flush, update, close | sending, packets, drain thread, viewer (rows) | a captured reply is stored, with the repeats it had |
| service supervisor (`service_supervisor.py`) | health, backoff and restart task of each service | check, stop, start, halt | main loop, service plugins | sick services are tried again, stopped ones stay stopped |
| viewer process (`web_viewer/integration.py`) | child process, its handle, restart limits, flags | start, watch, restart, stop | main loop, watching threads | a dead viewer comes back, none outlives the bot but for a race |
| incoming messages (`message_handler.py`, `rf_log.py`, `rf_correlation.py`, `channel_message.py`, `scope_gate.py`) | RF log, its caches, messages that wait | log a row, evict, defer, correlate, judge, answer or ignore | events of the radio, region warnings, command dispatch | a message takes its route, region and verdict from its own packet, is answered only if allowed, and is handled |
| region warnings (`region_warning.py`) | run of unscoped messages per sender, mark of the last warning, rows in `region_warning_events` | observe, gate, reserve, send, undo | incoming messages, senders of DMs and messages, database | no more warnings than the limits allow, over restarts and failed sends |
| scheduler's maintenance (`maintenance.py`) | days on which a job ran | back up, retain, mail | databases | not modelled yet |
| migrations (`db_migrations.py`) | schema version | apply | databases | not modelled yet |
| bridges, packet capture, alert services, commands | queues, connections, what was announced | see section 8 | remote services | not modelled yet |

## 2. What is hard

- Two schedulers of one breaker: the scheduler thread and the event loop race for the one trial, under a
  lock that is released before the flag is written to the database.
- Coroutines that replace the `meshcore` object and the flags about it between each other's awaits.
- A crash between an action on the radio and the row that records it; several processes on one database.
- A radio that has a mode, the flood scope: a frame of another task between setting and sending goes to
  the wrong region, and a cancelled restore leaves the mode behind.
- Checks made before an await and acted on after it: rate limits, `last_item_id`, a contact just read.
- A restore of several databases that may fail or die between any two file operations.
- Waiting in circles: recipient lock, refresh lock, restore lock, radio command lock.
- The event loop's thread itself: a flush of the graph, a full write queue and a restart of the viewer block
  it, and with it every handler, while threads go on and the radio's packets keep coming.
- A stop in an order that is not the order of the dependencies: the graph is flushed while packets still
  arrive, services are stopped while restart tasks are under way, the viewer while a thread restarts it, and
  the exit handlers run when the event loop is gone and the batch thread is not.
- Two passes over one message, in which the second sees what the first has queued.
- A decrypted message and the row of its packet arrive apart, in either order, among rows of repeats and of
  other packets; the handler has to find the one that is its own, or know that it cannot.
- A limit reserved before an awaited send, with a part of the reservation taken back if the send fails, while
  others have passed the same gate in between.
- Iteration over the edges in one thread while another adds and removes some.

`PROJECT.json` ("hazards") lists each of them at its line, with the properties that would catch it.

## 3. The modules

Each component has a module with its state as variables, one action per operation, handler or section
between two awaits (or, for threads, between two lock or database accesses), a module `MC...` with the
instances for TLC, and a module `...Proofs`. Operators named `X_Something` before a definition `X` are
variants of it with a plausible bug, used to see that a property can fail.

**RadioOffline** (`radio_offline.py`, the measured sends of `scheduler.py`, the gates of
`command_manager.py`). `offline`, `trial`, `trialId`, `failures`, `generation`, `alerted` are the fields
under `_offline_lock`, and a section under that lock is one step. A publication under
`_offline_publish_lock` is one step per access to memory or database (`publisher`, `step`, `snap`), so
everything that is unlocked interleaves: other senders, the probe, the viewer that writes the row `db`.
`pc` and `held` follow each sender and the trial it was admitted with. `dbWriter` and `probed` are history.
**CircuitBreaker** is the abstract promise: closed, open, armed, trial; RadioOffline implements it
(`ImplementsCircuitBreaker`), with the holder of the trial and the operator's request
computed from the ids, locks and the stored row.

**OperationQueue** (`scheduler.py`: `_claim_operation`, the executor and finalizer,
`_recover_interrupted_operations`). Each transaction is one step; `boot`, `host`, `pid` make the identity
a claim records, and a machine may hand out a dead process's id again. `effects` counts how often an
action may have reached the radio; it grows when the action begins, since a crash leaves that open.
**SerialOperations** is the abstract promise to the viewer and the radio, without processes, claims, recovery or
failures: a group's operations are taken one at a time in the order of their requests, the radio is reached only for
the one under way and once at most, only what reached it is completed, and outcomes are final. OperationQueue
implements it (`ImplementsSerialOperations`) with `status` as what a poll shows and `effects` as what the radio got.

**RadioLink** (`radio_link.py`, `core.py`). A step goes from one await of a coroutine to its next. Two tasks
bring up connections, `repair` (`_run_transport_reconnect`) and `op` (an operation of the viewer);
`own` is the object a task opens or closes, `link` the transport of each object, `notices` the
DISCONNECTED events not yet handled. The library is external: it answers, fails, hangs, or loses the link.
`banner` is the viewer's row, which every exit writes through `UpdateRadioConnectedMetadata`; the write may fail,
which the code logs and forgets, and `missed` is history: the last one did.
`site` is the installation (transport, the operations it uses, whether a disconnect may hang and the database
refuse a write), chosen initially from `Sites`; it never changes, so one run covers several installations.

**FeedQueue** (`feed_manager.py`). A poll (`BeginPoll`, `Fetch`, `Process`) selects and queues in one
step once the document is there; a tick (`BeginBatch`, `Skip`, `BeginSend`, `Transmit`, `SendSucceeds`, ...)
awaits the radio for each message. `lost` counts transmissions whose row was not marked. `Backlog` is what the feeds
list when they are subscribed to. `InReach` are the items that the scan window gets to whatever the filter rejects.

**DatabaseRestore** (`database_restore.py`). The content of a file is a version; a database is its main
file and what its WAL holds back. `Apply` is the sequence of steps of a start, each ending with one change
of the file system; a step may fail and a crash may strike between any two.

**MessageSend** (`command_manager.py`, `rate_limiter.py`, `radio_link.py`). A message passes the limits,
claims a slot, waits in the queue `waiting` of the command lock `holder`, and sends its frames (`step`:
scope, message, restore). `device` is the radio's scope, `pinned` what a lost restore left there. A caller may
give up at every await (`CancelOutside`, `CancelWaiting`, `CancelFrame`). Time is what has passed since a
limit was charged, up to the limit.

**ContactLease** (`dm_contacts.py`, the removals of `repeater_manager.py`). A DM counts a lease (`Use`),
gets its recipient's lock, and finds its contact (`Resolve`, `KeyAnswered`, `Refresh`, `ListAnswered`) or
restores and confirms it (`Restore`, `AddAnswered`, `ConfirmAnswered`), then sends. A removal checks the
lease and claims the key in one step (`RemoveContact`), and gives the claim back on each way out. `ahead`
is the order at the radio: the tasks each one lets go first. `doubtful` is history: keys whose
removal overlapped another removal's claim, or was in the shared list when it was removed.

**Bot** (`core.py`, `meshcore_bot.py`) composes the seven modules below. `phase` is how far `stop()` and then
the exit handlers are; `features` are the parts in use, which `Configurations` lists. A step of a part is a
`TaskOf` it (a coroutine: it needs the free thread of the loop, `LoopFree`, and an event loop that has not
ended) or a `StepOf` it (a thread, the outside world or a blocked thread of the loop, until the process
ends). The phases call the parts as `stop()` does: `GraphShutdown`, `HaltService` for one service after the
other, `HaltViewer`, the disconnect, `CloseTracker` (on a thread of its own, while the loop goes on), the cancellation of tasks by `asyncio.run()`, then
the handlers registered with `atexit` in reverse order, and the end of the executors. `hears` is whether packets
still arrive, which a failed disconnect leaves open. Messages and warnings end with the process and go on in
the next one (`Restart`), since the limits of the warnings are to hold over it; `stop()` has no phase of its own for
them. `MessageJudged` is where they meet: one step of the handler judges the message, tells the warnings, and
starts the send that it then waits for (`awaits`).

**CommandQueue** (`command_manager.py`, `commands/base_command.py`). `Receive` is `process_message()`: first
`check_keywords()`, then `execute_commands()` for commands without a response format; `InternetChecked` is what
follows the one await between check and execution. `batch` and `serving` are the queue processor. Time is the
age of cooldowns (`rested`, `userRested`), counted up to where it makes no difference, and `due`. `outdated`
are messages that hold a command object of before a reload. `runs`, `sinceRun`, `overtaken` and `uncharged` are
history: how often and how long ago, measured apart from the code's own cooldowns, what was executed; which messages
waited (for the internet check, or in the queue) while another one of their user ran; and for which users the last
execution was charged to a command object that is out of use. `RunsAreSpaced` compares the code's cooldowns, kept
per object and asked before awaits, with that record, on every path to an execution.

**MeshGraph** (`mesh_graph.py`). An edge is a link at a resolution, its data the number of observations.
`AddEdge` is one handler of the loop; a promotion is three steps, since the batch thread runs between them. A
flush takes the pending edges, builds its parameters from memory and commits (`stage` per flusher); a failure
puts them back. `WriterPrunes` may end the thread when edges came or went during its iteration (`resized`).

**CommandRecords** (`transmission_tracker.py`, `web_viewer/integration.py`). `tracked`, `heard` and `commandId`
are a transmission record; the write queue holds the rows of commands and others; `held` is a row for which
the loop's thread is blocked on a full queue; a flush drains, then commits or puts back. `submitting` and `worker` are
updates on their way to the executor of one worker, apart from each other because `close()` may come between them.

**ServiceSupervisor** (`service_supervisor.py`). A restart task is created, begins, stops, starts; `restarting`
is the set that keeps it single; `halting` is what `stop()` has yet to stop. `late` is history: restart
tasks alive when their service was stopped.

**ViewerProcess** (`web_viewer/integration.py`). Each start has a thread and a process; `handle`, `running` and
`tearingDown` are the shared attributes, and a step of a thread goes from one blocking call or sleep to the
next. `underWay` is history: the threads in a restart when the bot's shutdown event was set.

**ChannelMessages** (`message_handler.py`, `rf_log.py`, `rf_correlation.py`, `channel_message.py`,
`scope_gate.py`). `log` has the receptions in the order of their timestamps, and time is how many of them are
too old for each search (`stale10`, `stale30`, `stale300`, `evicted`). `FirstRow` and `OtherRow` are
`handle_rf_log_data()`; `Deferred` is the sleep of a handler that finds no authenticated row, `Judge` the rest of
`handle_channel_message()` up to its next await. `Correlate` is the search: by the identity of the decrypted
packet, by path length and SNR, or the latest row as a guess; `General` and `Scoped` are its two uses.
`unwitnessed` and `contested` are history: messages judged while their own row was out of reach, or while
a regional row agreed with them.

**RegionWarnings** (`region_warning.py`). `attempts` are the decisions to warn with what the database has of
each; `mark` is the attempt that the mesh cooldown is counted from, and time is how many attempts each limit
no longer holds. `ConsiderWarning` is everything up to the await of the send (`Observe` is what a message
tells it), `WarningDone` and `WarningFails` what follows. A failing database access is part of the step that makes it.
`overrun` and `unseeded` are history: attempts made while one was sent that failed, and a process that could not
read its seed.

## 4. The runs

| run | states | shows |
|---|---|---|
| RadioOffline | 0.20 M | a reply, the scheduler and the start-up advert race over the trials of two outages with a failing access, a stale stored flag and a viewer clear: the banner, the end of an outage, the refinement of CircuitBreaker; each trial is settled and each outage reaches the store |
| OperationQueue | 0.66 M | two rows of a group, three starts on two machines with any process ids, a legacy claim, crashes, a failing transaction: the refinement of SerialOperations (at most once, serial, in order, final outcomes), and on one machine with fresh ids each operation ends |
| OperationQueueContainer | stops at the violation | in a container the new process has the dead one's id, so its claim counts as live |
| RadioLink | 0.45 M | three installations: reconnect and every radio operation at once over serial or TCP, four drops, failures, timeouts or signals, where a lost link is repaired or the bot ends; and one without operations in which any write of the viewer's row may fail, with one live link and a row that is right whenever its last write succeeded |
| RadioLinkStop | stops at the violation | a Stop Bot during a reconnect does not end the bot |
| FeedQueue | 29 k | two feeds, one with a back-catalogue of five items of which two are filtered, a window of two and a budget of one, one failure of any kind or crash: repeats are excused, what is queued is sent, what a poll left over is queued once a newer item appears, except an item behind two filtered ones |
| DatabaseRestore | 68 k | two databases, four versions, two failures or crashes at any step: nothing is lost, one failure is undone, a candidate is in place when the bot runs |
| MessageSend | 0.34 M | a regional reply, a DM and a regional scheduled message, two failed frames, a caller that gives up: scopes, slots, and each send ends |
| ContactLease | 0.51 M | two DMs and two removals of one node and a DM to another, all kinds of removal, one failure or deadline anywhere |
| Bot | 1.50 M | each part with the whole life of the bot: two messages of one user and a reload; a link seen three times under each write strategy with a failing write; two replies of the same text with two repeats and a queue of one; two services with three failures; three viewers with two exits; a regional and an unscoped message with the same path length and SNR, two rows in any order and at any age; two senders, three decisions to warn, a failing access of the database, and restarts |
| BotProgress | 53 k | the same with fewer events, and messages together with the warnings their handlers wait for: what is queued, pending, captured, unhealthy or heard is seen to, and a stop that has begun ends |
| CommandQueueTwice | stops at the violation | a message that was queued is executed at once as well |

**Bounds.** They are chosen by the actors an interaction needs. A race for the trial needs senders of
two kinds, and a stale one from an earlier outage: four generations, two trials. The queue
needs a claimant, its successor and a process elsewhere. The link needs the object of each task and one left
behind. Feeds need two passing items behind a filtered one, so that the second is left over while the window is not
free, one behind as many filtered ones as the window holds, which `OlderItemIsQueued` must not and does not speak
of, a newer one, and a second feed. The run has one polling cycle at a time and one fault; that overlapping polls and any
number of failures repeat no post is a theorem. A restore needs a set of two, and a second
failure
during the roll-back of the first. Scopes need two regional messages and one that has none. A lease needs
two DMs and two removals of one key, and another DM to make the radio and the list busy. `MaxFaults`,
`MaxIncidents`, `MaxCancels` and the like bound only what would repeat; the counters the code keeps
(failures, attempts) run to their own limits. `MaxRetries` is 1 in the run where the code has 2: a
second repetition goes through the same states with another count. `Configurations` of Bot is
each part alone with the life of the bot: a part meets the others only in the thread of the loop and the
order of the stop, and the theorems hold for every combination. The warnings alone are told any verdict at any time,
which is more than the messages can tell them; BotProgress has the two together, since a handler waits for
the warning that it started. In Bot, two messages of one user meet in the
queue (they differ in nothing, hence `MCSymmetry`), where a cooldown of three ticks lets the entry of one become ready within the cooldown the other began; the third observation of a link finds the first flush under way and the second pending; two replies of the
same text compete for the record, and a queue of one is full with the first row; a third start
of the viewer finds a restart of each kind before it. Two messages that nothing tells apart but their packets
are the worst case of the search, and two rows are enough for the wrong one to be the only, the latest or
the matching one; three attempts are one that fails, one made meanwhile, and one after; a cap and a
run of one make the limits bite at once. The instance of the messages admits whatever is heard, so that the search is what its
properties depend on; that what must not be answered is not is the theorem `OnlyAllowedAnswers`. BotProgress has one queued
message and no reload. The violations use smaller instances that isolate one
question.

**Deadlock** is checked in the runs of RadioOffline, FeedQueue, DatabaseRestore and MessageSend.
OperationQueue, RadioLink, ContactLease and Bot really come to rest: every operation finished and no boot left,
the main loop ended, every task at its end, the process exited, the bounds on messages used up. That a stop of the bot does not come to
rest earlier is `StopEnds`.

**Fairness.** RadioOffline: a send is given up after 60 s, the publish lock is granted in turn, and the main
loop returns to the viewer-clear check; nothing is assumed of probes, radio, viewer. OperationQueue: the
service manager restarts the bot, the scheduler polls each 5 s and is connected, and an operation comes to an
end. RadioLink: ready tasks run, the main loop polls each 5 s, library calls end or time out. FeedQueue:
cycles are submitted each minute, ticks each 2 s, locks are FIFO, requests time out. DatabaseRestore: the
service is restarted and a start runs to its end. MessageSend and ContactLease: ready tasks run, time
passes, and the library ends its wait for an answer; no fairness for failures, cancellations or lapses.
Bot: tasks and threads are scheduled, a tick of the queue processor or of the batch thread comes, database
calls and `stop()` of a service return, a terminated viewer ends, the radio delivers the messages it has queued
and the handler's sleep and its send of a warning end; the bot may run for ever, but a stop that
has begun goes on, since every wait in it has a timeout or ends with the thread it waits for. Nothing is assumed
of packets, rows of the RF log, new messages, reloads, failures, or of the order in which the steps of one part come.

## 5. The proofs

TLAPS proves, for every value of the constants that satisfies the module's named assumption, type
correctness and the safety and action properties below. Each proof has an inductive invariant, a step per
action, and a theorem that joins them.

| module | inductive invariant | theorems |
|---|---|---|
| RadioOfflineProofs | types; below the threshold while closed, alerted while open; the publish lock has one holder, who publishes; senders hold distinct ids up to the last one, and the trial in flight is one of them; an armed trial, or one not yet sent, has its probe; a confirmed outage is stored as "true", or as a "false" of the viewer; what a publication is about to write is the state, or another publication waits behind it; until an access fails or the viewer clears, the row is the state, or a publication is about to look at it or waits | TypeCorrect, OneHolder, AlertLatch, AttemptPerProbe, ReasonedEnd, BannerMatches, Implementation |
| OperationQueueProofs | types; a task works on a row it owns and that is processing, and a claimed one has had no effect; effects are at most one, none before a claim, one at least when completed; rows appear in order, and a row past pending has only finished ones before it in its group | TypeCorrect, NeverTwice, OneAtATime, InOrder, CompletedDone, FinalOutcomes, Implementation, StartsInterruptWithoutReuse |
| RadioLinkProofs | types; flags and places of the tasks agree; connected has an object, and not one that a task is cleaning up; a bot that is neither connected nor told to end has a task under way to connect it; the main loop's end has its reason; where no operation interferes, the viewer's row, unless its last write failed, follows `connected` at each place of the repair, and an open transport is the current object's or its task's | TypeCorrect, ObjectWhenConnected, FlagsCleared, ReasonedLoopEnd, HonestBanner, SingleLink |
| FeedQueueProofs | types with rows bounded by passing items; rows are published and pass; a poll has fetched published items; a batch is unsent; transmissions = lost ones + the marked or current one | TypeCorrect, ExcusedRepeats, QueuedSends, FinalSends |
| DatabaseRestoreProofs | types; what is applied, or beyond its backup, has its old content in a recovery copy; each phase determines what of each database is replaced, moved or untouched; after one failure a roll-back has exactly the applied ones left to undo | TypeCorrect, ContentSurvives, OneFailureUndone, CandidatesInPlace |
| MessageSendProofs | types; the lock's holder is the one task at its pacing or its frame; a regional scope of the radio is a lost one or that of the holder, who is between set and restore; an accepted scope is the radio's until the message is out; the transmitter's limit is charged with each claim | TypeCorrect, MessageScope, ScopeObeyed, ScopeReleased, Serialized, SlotInterval |
| ContactLeaseProofs | types; a lease count is the number of DMs under way; verified and freshly listed contacts are on the radio or doubtful; a claim has one owner under way; under a removal's claim no DM to the node is past its recipient's lock | TypeCorrect, LeaseHolds, ClaimsReleased |
| BotProofs | of the graph: types; the coarse edge of a promotion is out of memory and counted; what is not in its row is pending, in a flush or unsaved; what a flush will write belongs to an edge as a row does; in the phases of the stop, nothing pending is left. Of the commands: types; the cooldown a command object keeps of a user is the time since that user's last execution, unless that one was charged elsewhere; a message that was let in and not overtaken is at the distance it was let in at; executions so far and those still to come of each message. Of the services: types; after the main loop, a stopped service with a task is late. Of the viewer: types; restarts of a bot that stops were under way, and none is the loop's. Of the records: types; the tracker closes last and nothing is submitted once packets stopped; a command is linked to one record at most; its row is in one place; the last update on the way to a row has the count of its record; a row that is behind has that update, or lost it. Of the warnings: types; rows that are missing are faults; what was transmitted, recorded and not overrun is held by the mark once it is loaded, and by every mark that a failing send may restore. Of the messages: types; a first row has its message's signature; a message is admitted only when it is judged, under the conditions of the allowlist, and answered only then | DirtyIsAlwaysTracked, GhostRowsAreAlwaysExcused, ExitAlwaysStoresGraph, ExecutionsAreAlwaysExcused, RunsAreAlwaysSpaced, ServicesRunAgainOnlyForRestarts, ViewersStartOnlyLate, WarningsKeepLimits, WarningGapsAreExcused, MessagesKeepToTheirPackets, OnlyAllowedAnswers, RepeatsAreAlwaysStored, BotTypeCorrect |

BotProofs rests on one lemma, `StepOfPart`: every step of the bot is a step of each part or leaves it alone. An
invariant of a part is proved from the part's own next-state relation, and holds in every configuration of
the bot; only `ExitAlwaysStoresGraph` needs the phases. The messages need the warnings' types, because a handler waits for
the number of an attempt (`StepOfMessages`).

The proof of `WithinLimits` counts sets: an attempt that passes a gate finds fewer stored rows than the limit, and the
rows that are not stored are bounded by the failures, one of which is spent if the gate itself could not be
asked. That of `OwnPacketSpeaks` rests on two facts about the search (`GeneralIsOwn`, `ScopedIsOwn`): a set of rows
that holds a message's own first row and belongs to one packet belongs to that packet.

None of these properties is inductive by itself. `LeaseHoldsContact`, for example, says nothing of why a
removal that has asked for the radio cannot strike a DM at "send": that needs the claim (no new DM gets
past the lock), the lease count (none was past it when the claim was made), one owner per claim (no other
removal gives it back) and the truth of what DMs skip the radio for (verifications and the list).

The two refinements are proved as step simulations. For the breaker the abstract state is a function of `offline`
and `trial`, and its holder is the sender whose held id is the trial's: `HolderIs` and `HolderIsNext` show that the
choice is that sender before and after a step, because ids are distinct (`TrialInv`), and `OthersHold` that a step of
one sender does not make another the holder. A step of a sender is then `Claim`, `Settle`, `Trip` or a stutter
(`SenderRefines`), an answered probe is `Arm`, a write of the row or a viewer's clear is `Override` or `Request`, and the check that finds the
clear is `CloseOnRequest`. For the queue, `Claim` is `Take` because a claimed row finds all earlier ones of its group over
(`OrderInv`), `Execute` is `Reach` or nothing because a claimed row has had no effect (`TaskInv`), and a recovery is
one `Interrupt` of all the rows it resolves.

`StartsInterruptWithoutReuse` is the other half of the run OperationQueueContainer: the sentence that a container
violates is a theorem wherever process ids are not handed out twice (`~ReusePids`).

Only model-checked: every liveness property (`TrialSettles`, `OutageReachesViewer`, `OperationsEnd`,
`LostLinkIsRepaired`, `QueuedIsSent`, `OlderItemIsQueued`, `StagedIsApplied`, `EverySendEnds`, `EverybodyEnds` and the seven of
BotProgress), since TLAPS proves no liveness under fairness and no ENABLED here, and the three violations. Every invariant and
every action property of a passing run, and both refinements, are theorems.
Proved and not run are the type invariants of the other modules, which their proofs need anyway, and properties
that stronger ones of the runs cover or that follow from the shape of a lock: `AlertLatchFollowsOutage`,
`OutageEndsForAReason`, `AtMostOnce`, `LoopEndsForAReason`, `EffectsInOrder`, `OutcomesAreFinal`, `OnlyQueuedIsSent`, `SentIsFinal`,
`OneExchange` and the others of the table that section 4's configurations do not name. No theorem says anything about recursion over data.

## 6. What the models show of the code

Three runs end in a violation of what the code's own text says (`PROJECT.json`, "findings"):

- `OperationQueueContainer`: `_claim_operation` says the claim of a dead owner on the same host becomes
  interrupted at startup. A containerised bot is always process 1, so the liveness test of the dead
  process's id finds the new process, and the group stays blocked.
- `RadioLinkStop`: `disconnect_radio` says it ends the main loop. If a transport reconnect is under way, its
  flag keeps the loop alive and the reconnect connects again.
- `CommandQueueTwice`: a comment of `execute_commands` says that a command that is queued already falls
  through to normal rejection. What it falls through to asks for the user's cooldown, not for the command's that
  made the message wait: the message is executed at once, and again when its entry expires.

Behaviour met while modelling, which the properties state their way around:

- The newest item of a burst larger than the post budget is recorded as `last_item_id` without having been
  queued, and is not posted until a newer one appears: `OlderItemIsQueued` speaks of older items.
- Items that the filter rejects are never recorded as processed. As many of them as `max_items_per_check`, older than
  the rest, fill the scan window of every poll for as long as the document lists them, and nothing newer is posted, although
  the comment at `feed_manager.py:339` says a long back-catalog does not stall. `docs/FEEDS.md:35` and
  `config.ini.example` tell the operator to raise the limit. `OlderItemIsQueued` speaks of the items in front (`InReach`); one
  rejected item more and TLC finds the stall.
- A write of the row `radio_connected` that fails is logged and not repeated (`set_metadata`): during an outage the viewer may
  show a connection, and after a reconnect none, until the next change is written. `BannerIsHonest` speaks of rows
  whose last write succeeded (`missed`).
- A message skipped for its feed's interval, or one that failed, is overtaken by later ones of its feed.
- A viewer clear can be overwritten by the bot between its own write and its next reading.
- The interval of the transmitter spaces the claims of slots (`SlotsSpaced`), not the transmissions: a message
  that waits for the radio goes out late. A repetition claims no slot. Limits are checked before the awaits of a send
  and charged after them, so two replies can pass the same check.
- A caller that gives up while the restore of a scope waits for its pacing gap leaves the scope in the
  radio until the next regional message: `pinned`.
- A radio operation during a reconnect may leave a second transport open: `OneLiveLink` is checked alone.
- A removal of a key that another one has claimed makes no claim of its own; if the first one fails and
  gives its claim back, the second can remove the contact of a DM. A key removed within five seconds
  of a shared list stays in that list, and a DM may take it from there. Both are in `doubtful`.
- `check_keywords()` queues before it asks whether the command may run at all: the entry of a user who is not
  permitted is executed later (`Permitted` guards only direct execution). The processor serves an entry without
  another look at cooldowns, so that it can run within its user's cooldown: `RunsAreSpaced` asks only for the three seconds
  of `_should_queue_command` of it. A message that was let in before another of its user ran is not stopped either (`overtaken`).
- A reload of the configuration forgets every cooldown, and what waits executes on the old command object.
- A promotion deletes the row of the coarse edge while a flush may hold it: the row comes back without an
  edge in memory, and is loaded at the next start (`revived`). A write of an edge under the strategy `immediate`
  that fails is not repeated (`unsaved`).
- The batch thread dies of a RuntimeError when edges come or go during its iteration; nothing starts it again,
  and what is pending waits for the exit handler or for a flush by the loop.
- `BotIntegration.shutdown()` is called by nobody: rows still in the write queue end with the process.
- A restart task that awaits when `stop()` reaches its service starts the service again (`late`); a viewer whose
  watching thread was in a restart starts while the bot stops (`underWay`), and with `lsof` missing it survives.
- A restart of the viewer that fails its preflight leaves `shutting_down` set, after which no restart is tried:
  `ViewerComesBack` says so.
- `_find_rf_row_matching_chan_payload()` asks whether its candidates are of one packet after it has dropped those
  without a region: a message that was sent unscoped may take the region of another packet that came with the
  same path length and SNR, where the search over all rows finds the two ambiguous (`contested`).
- That no row with a region is in reach counts as a sign of a message without one, though the row of a message
  that the handler got to late may have left the window (`unwitnessed`). A guess (`fallback`) may allow an answer
  in the global scope but gives no message a route.
- Two packets of one text and timestamp, a sender's retry with another attempt counter, share their identity: their
  rows cannot be told apart, and neither is used.
- A warning that fails restores the mark of before its own reservation, also over that of a warning that went
  out meanwhile: a third can follow the second within the mesh cooldown (`overrun`), which the comment above the
  reservation sets out to prevent. The day's cap and the sender's cooldown are not touched by it.
- The stored warnings are read once per process: if that query fails the mesh cooldown starts from nothing until
  the next warning (`unseeded`). A gate whose query fails lets the warning pass, once for each failure.
- A handler waits for the warning it has started before it answers the message.
- The failure message of a roll-back that fails itself leaves the database to the operator, with its recovery copy.

## 7. Assumptions, and what is left out

- RadioOffline: the outage's start time and the text of the mail are left out, as are the timeouts of interval adverts
  (`scheduler.py:1930`), which raise the failure count like those of the other measured sends, and the zombie gate.
- OperationQueue: the clock behind `created_at` does not step back; a graceful shutdown is a `Crash`.
- RadioLink: what follows the end of the main loop is left out, as are exception types that no handler names.
- FeedQueue: a document lists every item of its feed, items have ids, filters do not depend on the date, there is no
  sort configuration; adding, disabling and deleting a subscription are left out.
- DatabaseRestore: a process dies, not the machine (what `os.replace` did survives); checkpoints on
  close may fail silently; an operator who removes a staged file is left out; a crash between two databases of
  a set may leave half of it applied, which the next start resumes.
- MessageSend: the event loop keeps up; the gates for a zombie or offline radio are in RadioOffline, finding the
  contact of a DM in ContactLease; splitting of long messages is left out, and a reload
  that replaces the transmitter's limiter by one that has never sent (`core.py:598`, 636); `send_msg_with_retry` is external.
- ContactLease: the recipient is given by its key (resolution of names and its refresh are left out), as are
  the chunks of a long DM, adverts that the radio adds itself, the ACL check and the purges' bookkeeping.
  A failed removal without an answer lasts longer than the two seconds of a verification.
- Bot: what a part does before the main loop is its initial state. One weak fairness stands for each part's
  threads or tasks. A stop by a signal, by an error or by the end of the main loop is one `StopBegins`.
- CommandQueue: a message matches one command; permissions are a constant set; the entry that a batch
  serves first is left open. MeshGraph: links do not share prefixes, any edge may expire at any time, deletion
  of expired rows is left out, a flush reads the edges in one step. CommandRecords: an exception between a commit and
  the end of its flush, which would queue the committed rows again (`integration.py:397`), is left out; the row of a command names the record
  by its text only; prefixes of repeaters are left out. ServiceSupervisor: what a service does is external.
  ViewerProcess: `connected`, which the main loop asks too, is left out; a start has the lowest free number.
- ChannelMessages: `enhanced_correlation` is on, as by default; rows of channels whose messages the radio cannot decrypt
  and the limits on the sizes of the caches are left out; `process_message()` is CommandQueue's `Receive` and is not
  followed from here. A configuration reloaded between two messages is not followed.
- RegionWarnings: settings of zero, which switch a limit off, the tallies per channel and the counter of withheld
  warnings are left out; the mesh cooldown is the shorter one, as by default.

Not modelled: parsing, formatting, statistics, pages of the viewer, translations, geocoding and the clients of
remote services, which are functions or I/O; and the components planned below. `PROJECT.json`
("components") gives the reason for each.

## 8. The plan

Order of what comes next, the most stateful first. Each gets a module, an instance with the two or three
actors its race needs, and a proof of its safety properties.

1. **NeighborsCycle** and **CaptureBrokers** of the packet capture service: a single-flight cycle with a gap
   that survives restarts; connections to brokers that monitor, renewal and library repair at once.
2. **ContactPurge**, composed with ContactLease: the radio's list at its limit, automatic purges against adverts.
3. **MaintenanceTasks**, **Migrations**: once per period and once per version, over crashes.
4. **BridgeQueue**, the bulletin board's mail, the multitest session.

Refinements worth stating for what is there: CommandQueue implements a mailbox of one place per user and
command; MessageSend implements a radio whose scope is a parameter of a
transmission; DatabaseRestore implements an atomic replacement of a set. Then the compositions:
OperationQueue with RadioLink (an operation that cuts the link it needs), MessageSend with RadioOffline
(admission of a trial under the command lock), and MessageSend with ContactLease. Each module that is added gets
its safety properties proved as the present ones are.
