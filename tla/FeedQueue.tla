------------------------------- MODULE FeedQueue -------------------------------
(***************************************************************************)
(* RSS and API feeds (modules/feed_manager.py): polls find the new items   *)
(* of a feed and queue them in feed_message_queue, and a tick every two    *)
(* seconds sends what is queued and records it in feed_activity.           *)
(*                                                                         *)
(* Everything runs on one event loop, so the code between two awaits is    *)
(* one step: a poll selects and queues its items without a pause once the  *)
(* document has arrived, while a tick awaits the radio for each message.   *)
(* Each transaction may fail on its own. Documents list every item of      *)
(* their feed, oldest first once reversed, and every item has an id.       *)
(***************************************************************************)
EXTENDS Integers, FiniteSets

CONSTANTS
  Feeds,      (* ids of the subscribed feeds                                *)
  Items,      (* items published one day, numbered in that order            *)
  Backlog,    (* those that the feeds list when they are subscribed to      *)
  FeedOf,     (* the feed of each item                                      *)
  Passing,    (* the items that pass their feed's filter                    *)
  Cycles,     (* polling cycles that may be under way at once               *)
  MaxItems,   (* max_items_per_check, the scan window                       *)
  MaxPosts,   (* max_posts_per_check                                        *)
  MaxBatch,   (* LIMIT of the tick's query, 100 in the code                 *)
  MaxFaults   (* bound: failed calls and transactions, and crashes          *)

NoItem == 0  (* a feed without a last_item_id *)

ASSUME FeedQueueAssumption ==
  /\ Items \subseteq Nat \ {NoItem} /\ IsFiniteSet(Items) /\ Backlog \subseteq Items
  /\ FeedOf \in [Items -> Feeds] /\ Passing \subseteq Items
  /\ MaxItems \in Nat \ {0} /\ MaxPosts \in Nat \ {0} /\ MaxBatch \in Nat \ {0}
  /\ MaxFaults \in Nat

VARIABLES
  published, (* the items that the feeds' servers list                      *)
  row,       (* place of an item's row in feed_message_queue, 0 if it has none *)
  sent,      (* items whose row has a sent_at                               *)
  activity,  (* items recorded in feed_activity                             *)
  lastItem,  (* last_item_id of each feed                                   *)
  poll,      (* where each cycle is with each feed, and what it has read    *)
  batch,     (* messages of this tick that are still to be looked at        *)
  sending,   (* the message send_channel_message was called for, or NoItem  *)
  onAir,     (* whether the radio has transmitted it                        *)
  cooling,   (* feeds whose send interval has not elapsed                   *)
  sends,     (* history: transmissions of each item                         *)
  lost,      (* history: those that ended without their row being marked    *)
  faults     (* failures so far                                             *)

table == <<row, sent, activity, lastItem>>
tick == <<batch, sending, onAir, cooling>>
history == <<sends, lost>>
vars == <<published, table, poll, tick, history, faults>>

Idle == [at |-> "idle", last |-> NoItem, doc |-> {}]
PollStates ==
  [at : {"idle", "waiting", "fetched"}, last : Items \cup {NoItem}, doc : SUBSET Items]

TypeOK ==
  /\ published \subseteq Items
  /\ row \in [Items -> 0..Cardinality(Passing)] /\ sent \subseteq Items /\ activity \subseteq Items
  /\ lastItem \in [Feeds -> Items \cup {NoItem}]
  /\ poll \in [Feeds \X Cycles -> PollStates]
  /\ batch \subseteq Items /\ sending \in Items \cup {NoItem} /\ onAir \in BOOLEAN
  /\ cooling \subseteq Feeds
  /\ sends \in [Items -> Nat] /\ lost \in [Items -> Nat] /\ faults \in Nat

Init ==
  /\ published = Backlog
  /\ row = [i \in Items |-> 0] /\ sent = {} /\ activity = {}
  /\ lastItem = [f \in Feeds |-> NoItem]
  /\ poll = [p \in Feeds \X Cycles |-> Idle]
  /\ batch = {} /\ sending = NoItem /\ onAir = FALSE /\ cooling = {}
  /\ sends = [i \in Items |-> 0] /\ lost = [i \in Items |-> 0] /\ faults = 0

Fault == faults < MaxFaults /\ faults' = faults + 1

Queued == {i \in Items : row[i] # 0}
Unsent == Queued \ sent
Of(f) == {i \in Items : FeedOf[i] = f}

(* The first n items of S. *)
FirstOf(S, n) == {i \in S : Cardinality({j \in S : j < i}) < n}

(* The environment: a server lists one more item. *)
Publish(i) ==
  /\ i \notin published
  /\ \A j \in Of(FeedOf[i]) : j < i => j \in published
  /\ published' = published \cup {i}
  /\ UNCHANGED <<table, poll, tick, history, faults>>

-----------------------------------------------------------------------------
(* poll_all_feeds reads the row of a feed that is due; the poll then waits  *)
(* for the feed's lock, its host's turn and the response. Cycles overlap.   *)
BeginPoll(f, c) ==
  /\ poll[<<f, c>>].at = "idle"
  /\ poll' = [poll EXCEPT ![<<f, c>>] = [at |-> "waiting", last |-> lastItem[f], doc |-> {}]]
  /\ UNCHANGED <<published, table, tick, history, faults>>

(* The feed's own lock serializes the polls of overlapping cycles. *)
Fetch(f, c) ==
  /\ poll[<<f, c>>].at = "waiting"
  /\ \A d \in Cycles : poll[<<f, d>>].at # "fetched"
  /\ poll' = [poll EXCEPT ![<<f, c>>] =
                [at |-> "fetched", last |-> poll[<<f, c>>].last, doc |-> published \cap Of(f)]]
  /\ UNCHANGED <<published, table, tick, history, faults>>

(* An unsafe address, a timeout or a bad response ends the poll. *)
PollFails(f, c) ==
  /\ poll[<<f, c>>].at # "idle"
  /\ Fault
  /\ poll' = [poll EXCEPT ![<<f, c>>] = Idle]
  /\ UNCHANGED <<published, table, tick, history>>

(* Takes last_item_id for a high-water mark. *)
Processed_UpToLast(p) == activity \cup Unsent \cup {i \in Items : i <= p.last}

(* The items a poll skips: recorded ones, pending ones, and the last item   *)
(* of the row the poll was started with.                                    *)
Processed(p) == activity \cup Unsent \cup ({p.last} \cap Items)

(* The scan window: the oldest items not yet processed. *)
Window(p, known) == FirstOf(p.doc \ known, MaxItems)

(* The items the loop queues: those that pass, up to the post budget,       *)
(* which an item that already has a row uses up as well.                    *)
Picked(p, known) == FirstOf(Window(p, known) \cap Passing, MaxPosts)

(* When there is a new item the feed's last item becomes the newest of the  *)
(* document, new or not.                                                    *)
SelectNewItems(f, p, known) ==
  IF p.doc \subseteq known THEN UNCHANGED lastItem
  ELSE \E i \in p.doc :
         /\ \A j \in p.doc : j <= i
         /\ lastItem' = [lastItem EXCEPT ![f] = i]

(* One row per item of a feed, sent or not: ON CONFLICT DO NOTHING. *)
QueueFeedMessages(S) ==
  LET new == S \ Queued IN
  /\ row' = [i \in Items |->
       IF i \in new THEN Cardinality(Queued) + Cardinality({j \in new : j <= i}) ELSE row[i]]
  /\ UNCHANGED sent

(* The document is in: its new items are selected and queued in one go. *)
Process(f, c) ==
  LET p == poll[<<f, c>>] IN
  /\ p.at = "fetched"
  /\ SelectNewItems(f, p, Processed(p))
  /\ QueueFeedMessages(Picked(p, Processed(p)))
  /\ poll' = [poll EXCEPT ![<<f, c>>] = Idle]
  /\ UNCHANGED <<published, activity, tick, history, faults>>

(* The same with transactions that fail, each logged and survived: the      *)
(* query of processed items, the update of last_item_id, any insert.        *)
ProcessPartly(f, c) ==
  LET p == poll[<<f, c>>] IN
  /\ p.at = "fetched"
  /\ Fault
  /\ \E known \in {Processed(p), {p.last} \cap Items} :
       /\ SelectNewItems(f, p, known) \/ UNCHANGED lastItem
       /\ \E S \in SUBSET Picked(p, known) : QueueFeedMessages(S)
  /\ poll' = [poll EXCEPT ![<<f, c>>] = Idle]
  /\ UNCHANGED <<published, activity, tick, history>>

-----------------------------------------------------------------------------
(* Resumes behind the last message that was sent. *)
BeginBatch_FromCursor ==
  /\ batch = {} /\ sending = NoItem
  /\ batch' = {i \in Unsent : \A j \in sent : row[j] < row[i]}
  /\ UNCHANGED <<published, table, poll, sending, onAir, cooling, history, faults>>

(* The tick reads the oldest unsent messages; while its predecessor runs,   *)
(* process_message_queue returns at once.                                   *)
BeginBatch ==
  /\ batch = {} /\ sending = NoItem
  /\ Unsent # {}
  /\ batch' = {i \in Unsent : Cardinality({j \in Unsent : row[j] < row[i]}) < MaxBatch}
  /\ UNCHANGED <<published, table, poll, sending, onAir, cooling, history, faults>>

NextInBatch(i) == i \in batch /\ \A j \in batch : row[i] <= row[j]

(* A message whose feed's interval has not elapsed waits for a later tick. *)
Skip(i) ==
  /\ sending = NoItem /\ NextInBatch(i)
  /\ FeedOf[i] \in cooling
  /\ batch' = batch \ {i}
  /\ UNCHANGED <<published, table, poll, sending, onAir, cooling, history, faults>>

(* A message that is being sent stays in the batch until it is marked. *)
BeginSend_KeepsInBatch(i) ==
  /\ sending = NoItem /\ NextInBatch(i)
  /\ FeedOf[i] \notin cooling
  /\ sending' = i
  /\ UNCHANGED <<published, table, poll, batch, onAir, cooling, history, faults>>

BeginSend(i) ==
  /\ sending = NoItem /\ NextInBatch(i)
  /\ FeedOf[i] \notin cooling
  /\ batch' = batch \ {i} /\ sending' = i
  /\ UNCHANGED <<published, table, poll, onAir, cooling, history, faults>>

Transmit ==
  /\ sending # NoItem /\ ~onAir
  /\ onAir' = TRUE
  /\ sends' = [sends EXCEPT ![sending] = @ + 1]
  /\ UNCHANGED <<published, table, poll, batch, sending, cooling, lost, faults>>

MarkSent ==
  /\ sent' = sent \cup {sending}
  /\ cooling' = cooling \cup {FeedOf[sending]}

SendOver ==
  /\ sending' = NoItem /\ onAir' = FALSE
  /\ UNCHANGED <<published, row, lastItem, poll, batch, sends>>

SendSucceeds ==
  /\ sending # NoItem /\ onAir
  /\ MarkSent
  /\ activity' = activity \cup {sending}
  /\ SendOver
  /\ UNCHANGED <<lost, faults>>

(* Recording the activity fails, which is logged. *)
ActivityFails ==
  /\ sending # NoItem /\ onAir
  /\ Fault
  /\ MarkSent
  /\ SendOver
  /\ UNCHANGED <<activity, lost>>

LoseSend == lost' = IF onAir THEN [lost EXCEPT ![sending] = @ + 1] ELSE lost

(* The send fails or reports a failure, or its row cannot be marked: the    *)
(* message is retried by a later tick, at once as far as the interval goes. *)
SendFails ==
  /\ sending # NoItem
  /\ Fault
  /\ LoseSend
  /\ SendOver
  /\ UNCHANGED <<sent, activity, cooling>>

CoolDown(f) ==
  /\ f \in cooling
  /\ cooling' = cooling \ {f}
  /\ UNCHANGED <<published, table, poll, batch, sending, onAir, history, faults>>

(* The process dies and is started again. A message on the air may have     *)
(* been marked already, with its activity still unrecorded.                 *)
Crash ==
  /\ Fault
  /\ \/ LoseSend /\ UNCHANGED sent
     \/ onAir /\ sent' = sent \cup {sending} /\ UNCHANGED lost
  /\ poll' = [p \in Feeds \X Cycles |-> Idle]
  /\ batch' = {} /\ sending' = NoItem /\ onAir' = FALSE /\ cooling' = {}
  /\ UNCHANGED <<published, row, activity, lastItem, sends>>

Next ==
  \/ \E i \in Items : Publish(i) \/ Skip(i) \/ BeginSend(i)
  \/ \E f \in Feeds, c \in Cycles :
       \/ BeginPoll(f, c) \/ Fetch(f, c) \/ PollFails(f, c)
       \/ Process(f, c) \/ ProcessPartly(f, c)
  \/ \E f \in Feeds : CoolDown(f)
  \/ BeginBatch \/ Transmit \/ SendSucceeds \/ ActivityFails \/ SendFails \/ Crash

Spec == Init /\ [][Next]_vars

(* The scheduler submits a polling cycle every minute and a tick every two  *)
(* seconds, and each goes on with its next step; locks are granted in the   *)
(* order they are asked for, requests time out and intervals elapse.        *)
PollGoesOn(f, c) == BeginPoll(f, c) \/ Process(f, c)

TickGoesOn == BeginBatch \/ Transmit \/ SendSucceeds \/ \E i \in Items : Skip(i) \/ BeginSend(i)

Fairness ==
  /\ \A f \in Feeds, c \in Cycles : WF_vars(PollGoesOn(f, c)) /\ SF_vars(Fetch(f, c))
  /\ WF_vars(TickGoesOn)
  /\ \A f \in Feeds : WF_vars(CoolDown(f))

FairSpec == Spec /\ Fairness

-----------------------------------------------------------------------------
(* A post is repeated only when an earlier transmission of it was lost: the *)
(* send was reported as failed, its row could not be marked, or the bot     *)
(* died. Polls that overlap, a stale last_item_id and a missing activity    *)
(* record never post an item twice.                                         *)
RepeatsAreExcused == \A i \in Items : sends[i] <= lost[i] + 1

(* What is marked as sent is out of every tick's hands for good.            *)
SentIsFinal ==
  [][\A i \in sent : i \in sent' /\ sends'[i] = sends[i]]_vars

(* Only items that were published and pass the filter reach the channel,    *)
(* and each through its row.                                                *)
OnlyQueuedIsSent == \A i \in Items : sends[i] > 0 => i \in published \cap Passing \cap Queued

(* Each queued message is eventually sent and marked, however many feeds    *)
(* and intervals compete, once the failures end.                            *)
QueuedIsSent == \A i \in Passing : row[i] # 0 ~> i \in sent

(* An item that the scan window reaches once all that passes before it is   *)
(* processed. Items the filter rejects are never recorded as processed:     *)
(* MaxItems of them, older than the rest, fill the window of every poll for *)
(* as long as the document lists them.                                      *)
InReach == {i \in Passing : Cardinality({j \in Of(FeedOf[i]) \ Passing : j < i}) < MaxItems}

(* Without failures an item that passes the filter is queued, at the latest *)
(* after the feed has published a newer one, although older items that pass *)
(* use up the post budget and last_item_id has moved on; unless the filter  *)
(* rejects as many older items as the scan window holds.                    *)
OlderItemIsQueued ==
  \A i \in InReach :
    (\E j \in published : FeedOf[j] = FeedOf[i] /\ j > i) ~> (row[i] # 0 \/ faults > 0)
=============================================================================
