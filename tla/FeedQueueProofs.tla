--------------------------- MODULE FeedQueueProofs ---------------------------
(* Proofs about FeedQueue for every set of feeds and items, any number of   *)
(* overlapping polling cycles, any limits and any number of failures.       *)
EXTENDS FeedQueue, FiniteSetTheorems, TLAPS

TypeTable ==
  /\ published \subseteq Items
  /\ row \in [Items -> 0..Cardinality(Passing)] /\ sent \subseteq Items /\ activity \subseteq Items
  /\ lastItem \in [Feeds -> Items \cup {NoItem}]
TypePoll == poll \in [Feeds \X Cycles -> PollStates]
TypeTick ==
  /\ batch \subseteq Items /\ sending \in Items \cup {NoItem} /\ onAir \in BOOLEAN
  /\ cooling \subseteq Feeds
TypeCounts == sends \in [Items -> Nat] /\ lost \in [Items -> Nat] /\ faults \in Nat

(* Only published items that pass their filter have a row, and only those   *)
(* with a row can be marked as sent.                                        *)
TableInv == Queued \subseteq published \cap Passing /\ sent \subseteq Queued

(* What a poll has fetched was published. *)
PollInv == \A p \in Feeds \X Cycles : poll[p].doc \subseteq published

(* A tick holds each of its messages once, and none that was marked. *)
TickInv ==
  /\ batch \subseteq Unsent
  /\ sending # NoItem => sending \in Unsent \ batch
  /\ onAir => sending # NoItem

(* Every transmission of an item was lost, is still on the air, or is the   *)
(* one its row was marked for.                                              *)
SendsInv ==
  \A i \in Items :
    /\ sends[i] = lost[i] + (IF i \in sent \/ (onAir /\ sending = i) THEN 1 ELSE 0)
    /\ sends[i] > 0 => i \in Queued

IInv ==
  /\ TypeTable /\ TypePoll /\ TypeTick /\ TypeCounts
  /\ TableInv /\ PollInv /\ TickInv /\ SendsInv

-----------------------------------------------------------------------------
(* The items a poll queues are published and pass the filter.               *)
LEMMA PickedPasses ==
  ASSUME IInv, NEW p \in Feeds \X Cycles, NEW known
  PROVE  Picked(poll[p], known) \subseteq published \cap Passing
BY DEF IInv, PollInv, Picked, Window, FirstOf

(* Queueing a set of items gives each a row, keeps the rows of the others,  *)
(* and never numbers a row beyond the number of items that pass.            *)
LEMMA QueueAddsRows ==
  ASSUME IInv, NEW S \in SUBSET (published \cap Passing), QueueFeedMessages(S)
  PROVE  /\ row' \in [Items -> 0..Cardinality(Passing)]
         /\ Queued' = Queued \cup S
         /\ sent' = sent
<1> DEFINE new == S \ Queued
           upto(i) == {j \in new : j <= i}
<1>1. /\ IsFiniteSet(Passing) /\ Cardinality(Passing) \in Nat
      /\ Passing \subseteq Items /\ Items \subseteq Nat
  BY FeedQueueAssumption, FS_Subset, FS_CardinalityType DEF FeedQueueAssumption
<1>2. Queued \subseteq Passing /\ new \subseteq Passing
  BY DEF IInv, TableInv
<1>3. IsFiniteSet(Queued) /\ Cardinality(Queued) \in Nat
  BY <1>1, <1>2, FS_Subset, FS_CardinalityType
<1>4. ASSUME NEW i \in new
      PROVE  Cardinality(Queued) + Cardinality(upto(i)) \in 1..Cardinality(Passing)
  <2>1. upto(i) \subseteq Passing /\ upto(i) # {} /\ Queued \cap upto(i) = {}
    <3>1. i \in upto(i)
      <4>1. i \in Nat
        BY <1>1, <1>2, <1>4
      <4>2. i <= i
        BY <4>1
      <4>3. QED
        BY <1>4, <4>2, Zenon
    <3>2. upto(i) \subseteq new /\ new \cap Queued = {}
      OBVIOUS
    <3>3. QED
      BY <1>2, <3>1, <3>2
  <2>2. IsFiniteSet(upto(i)) /\ Cardinality(upto(i)) \in Nat
    BY <1>1, <2>1, FS_Subset, FS_CardinalityType
  <2>3. Cardinality(upto(i)) # 0
    BY <2>1, <2>2, FS_EmptySet
  <2>4. Cardinality(Queued \cup upto(i)) = Cardinality(Queued) + Cardinality(upto(i))
    <3>1. Cardinality(Queued \cap upto(i)) = 0
      BY <2>1, FS_EmptySet
    <3>2. Cardinality(Queued \cup upto(i))
            = Cardinality(Queued) + Cardinality(upto(i)) - Cardinality(Queued \cap upto(i))
      BY <1>3, <2>2, FS_Union, Zenon
    <3>3. QED
      BY <1>3, <2>2, <3>1, <3>2
  <2>5. Cardinality(Queued \cup upto(i)) <= Cardinality(Passing)
    BY <1>1, <1>2, <2>1, FS_Subset
  <2>6. QED
    BY <1>1, <1>3, <2>2, <2>3, <2>4, <2>5
<1>5. row' = [i \in Items |-> IF i \in new THEN Cardinality(Queued) + Cardinality(upto(i)) ELSE row[i]]
  BY DEF QueueFeedMessages
<1> HIDE DEF new, upto
<1>6. row' \in [Items -> 0..Cardinality(Passing)]
  BY <1>1, <1>4, <1>5 DEF IInv, TypeTable
<1>7. Queued' = Queued \cup S
  <2>1. new = S \ Queued /\ S \subseteq Items
    BY <1>1 DEF new
  <2>2. \A i \in Items : row'[i] # 0 <=> (row[i] # 0 \/ i \in new)
    BY <1>1, <1>4, <1>5 DEF IInv, TypeTable
  <2>3. QED
    BY <2>1, <2>2 DEF Queued
<1>8. QED
  BY <1>6, <1>7 DEF QueueFeedMessages

(* Queueing what a poll picked disturbs no part of the invariant but the    *)
(* rows, and only adds to the queue.                                        *)
LEMMA QueuePicked ==
  ASSUME IInv, NEW p \in Feeds \X Cycles, NEW known,
         NEW S \in SUBSET Picked(poll[p], known), QueueFeedMessages(S)
  PROVE  /\ row' \in [Items -> 0..Cardinality(Passing)]
         /\ Queued' \subseteq published \cap Passing
         /\ Queued \subseteq Queued'
         /\ sent' = sent
<1>1. S \in SUBSET (published \cap Passing)
  BY PickedPasses
<1>2. QED
  BY <1>1, QueueAddsRows DEF IInv, TableInv

(* Whichever item becomes the last one, it is an item of the feed.          *)
LEMMA LastItemType ==
  ASSUME IInv, NEW f \in Feeds, NEW c \in Cycles, NEW known,
         SelectNewItems(f, poll[<<f, c>>], known) \/ UNCHANGED lastItem
  PROVE  lastItem' \in [Feeds -> Items \cup {NoItem}]
BY DEF IInv, TypeTable, TypePoll, PollStates, SelectNewItems

-----------------------------------------------------------------------------
LEMMA InitInv == Init => IInv
<1> SUFFICES ASSUME Init PROVE IInv
  OBVIOUS
<1> USE FeedQueueAssumption DEF FeedQueueAssumption, Init, NoItem, Idle
<1>0. IsFiniteSet(Passing) /\ Cardinality(Passing) \in Nat
  BY FS_Subset, FS_CardinalityType
<1>1. TypeTable
  BY <1>0 DEF TypeTable
<1>2. TypePoll
  BY <1>0 DEF TypePoll, PollStates
<1>3. TypeTick
  BY <1>0 DEF TypeTick
<1>4. TypeCounts
  BY <1>0 DEF TypeCounts
<1>5. TableInv
  BY <1>0 DEF TableInv, Queued
<1>6. PollInv
  BY <1>0 DEF PollInv
<1>7. TickInv
  BY <1>0 DEF TickInv, Unsent, Queued
<1>8. SendsInv
  BY <1>0 DEF SendsInv
<1>9. QED
  BY <1>1, <1>2, <1>3, <1>4, <1>5, <1>6, <1>7, <1>8 DEF IInv

LEMMA StepInv == IInv /\ [Next]_vars => IInv'
<1> SUFFICES ASSUME IInv, [Next]_vars PROVE IInv'
  OBVIOUS
<1> USE FeedQueueAssumption DEF FeedQueueAssumption, IInv, TypeTable, TypePoll, TypeTick, TypeCounts,
      TableInv, PollInv, TickInv, SendsInv, Queued, Unsent, NoItem, table, tick, history
<1>1. ASSUME NEW i \in Items, Publish(i) PROVE IInv'
  <2>1. TypeTable'
    BY <1>1 DEF Publish
  <2>2. TypePoll'
    BY <1>1 DEF Publish
  <2>3. TypeTick'
    BY <1>1 DEF Publish
  <2>4. TypeCounts'
    BY <1>1 DEF Publish
  <2>5. TableInv'
    BY <1>1 DEF Publish
  <2>6. PollInv'
    BY <1>1 DEF Publish
  <2>7. TickInv'
    BY <1>1 DEF Publish
  <2>8. SendsInv'
    BY <1>1 DEF Publish
  <2>9. QED
    BY <2>1, <2>2, <2>3, <2>4, <2>5, <2>6, <2>7, <2>8
<1>2. ASSUME NEW i \in Items, Skip(i) PROVE IInv'
  <2>1. TypeTable'
    BY <1>2 DEF Skip
  <2>2. TypePoll'
    BY <1>2 DEF Skip
  <2>3. TypeTick'
    BY <1>2 DEF Skip
  <2>4. TypeCounts'
    BY <1>2 DEF Skip
  <2>5. TableInv'
    BY <1>2 DEF Skip
  <2>6. PollInv'
    BY <1>2 DEF Skip
  <2>7. TickInv'
    BY <1>2 DEF Skip
  <2>8. SendsInv'
    BY <1>2 DEF Skip
  <2>9. QED
    BY <2>1, <2>2, <2>3, <2>4, <2>5, <2>6, <2>7, <2>8
<1>3. ASSUME NEW i \in Items, BeginSend(i) PROVE IInv'
  <2>1. TypeTable'
    BY <1>3 DEF BeginSend
  <2>2. TypePoll'
    BY <1>3 DEF BeginSend
  <2>3. TypeTick'
    BY <1>3 DEF BeginSend
  <2>4. TypeCounts'
    BY <1>3 DEF BeginSend
  <2>5. TableInv'
    BY <1>3 DEF BeginSend
  <2>6. PollInv'
    BY <1>3 DEF BeginSend
  <2>7. TickInv'
    BY <1>3 DEF BeginSend, NextInBatch
  <2>8. SendsInv'
    BY <1>3 DEF BeginSend
  <2>9. QED
    BY <2>1, <2>2, <2>3, <2>4, <2>5, <2>6, <2>7, <2>8
<1>4. ASSUME NEW f \in Feeds, NEW c \in Cycles, BeginPoll(f, c) PROVE IInv'
  <2>1. TypeTable'
    BY <1>4 DEF BeginPoll
  <2>2. TypePoll'
    BY <1>4 DEF BeginPoll, PollStates, Idle
  <2>3. TypeTick'
    BY <1>4 DEF BeginPoll
  <2>4. TypeCounts'
    BY <1>4 DEF BeginPoll
  <2>5. TableInv'
    BY <1>4 DEF BeginPoll
  <2>6. PollInv'
    BY <1>4 DEF BeginPoll, PollStates, Idle
  <2>7. TickInv'
    BY <1>4 DEF BeginPoll
  <2>8. SendsInv'
    BY <1>4 DEF BeginPoll
  <2>9. QED
    BY <2>1, <2>2, <2>3, <2>4, <2>5, <2>6, <2>7, <2>8
<1>5. ASSUME NEW f \in Feeds, NEW c \in Cycles, Fetch(f, c) PROVE IInv'
  <2>1. TypeTable'
    BY <1>5 DEF Fetch
  <2>2. TypePoll'
    <3>1. poll[<<f, c>>] \in PollStates /\ published \cap Of(f) \subseteq Items
      BY <1>5 DEF Of
    <3>2. [at |-> "fetched", last |-> poll[<<f, c>>].last, doc |-> published \cap Of(f)] \in PollStates
      BY <3>1 DEF PollStates
    <3>3. QED
      BY <1>5, <3>2 DEF Fetch
  <2>3. TypeTick'
    BY <1>5 DEF Fetch
  <2>4. TypeCounts'
    BY <1>5 DEF Fetch
  <2>5. TableInv'
    BY <1>5 DEF Fetch
  <2>6. PollInv'
    BY <1>5 DEF Fetch, PollStates, Idle
  <2>7. TickInv'
    BY <1>5 DEF Fetch
  <2>8. SendsInv'
    BY <1>5 DEF Fetch
  <2>9. QED
    BY <2>1, <2>2, <2>3, <2>4, <2>5, <2>6, <2>7, <2>8
<1>6. ASSUME NEW f \in Feeds, NEW c \in Cycles, PollFails(f, c) PROVE IInv'
  <2>1. TypeTable'
    BY <1>6 DEF PollFails, Fault
  <2>2. TypePoll'
    BY <1>6 DEF PollFails, Fault, PollStates, Idle
  <2>3. TypeTick'
    BY <1>6 DEF PollFails, Fault
  <2>4. TypeCounts'
    BY <1>6 DEF PollFails, Fault
  <2>5. TableInv'
    BY <1>6 DEF PollFails, Fault
  <2>6. PollInv'
    BY <1>6 DEF PollFails, Fault, PollStates, Idle
  <2>7. TickInv'
    BY <1>6 DEF PollFails, Fault
  <2>8. SendsInv'
    BY <1>6 DEF PollFails, Fault
  <2>9. QED
    BY <2>1, <2>2, <2>3, <2>4, <2>5, <2>6, <2>7, <2>8
<1>7. ASSUME NEW f \in Feeds, NEW c \in Cycles, Process(f, c) PROVE IInv'
  <2>0. /\ row' \in [Items -> 0..Cardinality(Passing)] /\ Queued' \subseteq published \cap Passing
        /\ Queued \subseteq Queued' /\ sent' = sent
        /\ lastItem' \in [Feeds -> Items \cup {NoItem}]
    BY <1>7, QueuePicked, LastItemType DEF Process
  <2>1. TypeTable'
    BY <1>7, <2>0 DEF Process
  <2>2. TypePoll'
    BY <1>7, <2>0 DEF Process, PollStates, Idle
  <2>3. TypeTick'
    BY <1>7, <2>0 DEF Process
  <2>4. TypeCounts'
    BY <1>7, <2>0 DEF Process
  <2>5. TableInv'
    BY <1>7, <2>0 DEF Process
  <2>6. PollInv'
    BY <1>7, <2>0 DEF Process, PollStates, Idle
  <2>7. TickInv'
    BY <1>7, <2>0 DEF Process
  <2>8. SendsInv'
    BY <1>7, <2>0 DEF Process
  <2>9. QED
    BY <2>1, <2>2, <2>3, <2>4, <2>5, <2>6, <2>7, <2>8
<1>8. ASSUME NEW f \in Feeds, NEW c \in Cycles, ProcessPartly(f, c) PROVE IInv'
  <2>0. /\ row' \in [Items -> 0..Cardinality(Passing)] /\ Queued' \subseteq published \cap Passing
        /\ Queued \subseteq Queued' /\ sent' = sent
        /\ lastItem' \in [Feeds -> Items \cup {NoItem}]
    BY <1>8, QueuePicked, LastItemType DEF ProcessPartly, Fault
  <2>1. TypeTable'
    BY <1>8, <2>0 DEF ProcessPartly, Fault
  <2>2. TypePoll'
    BY <1>8, <2>0 DEF ProcessPartly, Fault, PollStates, Idle
  <2>3. TypeTick'
    BY <1>8, <2>0 DEF ProcessPartly, Fault
  <2>4. TypeCounts'
    BY <1>8, <2>0 DEF ProcessPartly, Fault
  <2>5. TableInv'
    BY <1>8, <2>0 DEF ProcessPartly, Fault
  <2>6. PollInv'
    BY <1>8, <2>0 DEF ProcessPartly, Fault, PollStates, Idle
  <2>7. TickInv'
    BY <1>8, <2>0 DEF ProcessPartly, Fault
  <2>8. SendsInv'
    BY <1>8, <2>0 DEF ProcessPartly, Fault
  <2>9. QED
    BY <2>1, <2>2, <2>3, <2>4, <2>5, <2>6, <2>7, <2>8
<1>9. ASSUME NEW f \in Feeds, CoolDown(f) PROVE IInv'
  <2>1. TypeTable'
    BY <1>9 DEF CoolDown
  <2>2. TypePoll'
    BY <1>9 DEF CoolDown
  <2>3. TypeTick'
    BY <1>9 DEF CoolDown
  <2>4. TypeCounts'
    BY <1>9 DEF CoolDown
  <2>5. TableInv'
    BY <1>9 DEF CoolDown
  <2>6. PollInv'
    BY <1>9 DEF CoolDown
  <2>7. TickInv'
    BY <1>9 DEF CoolDown
  <2>8. SendsInv'
    BY <1>9 DEF CoolDown
  <2>9. QED
    BY <2>1, <2>2, <2>3, <2>4, <2>5, <2>6, <2>7, <2>8
<1>10. ASSUME BeginBatch PROVE IInv'
  <2>1. TypeTable'
    BY <1>10 DEF BeginBatch
  <2>2. TypePoll'
    BY <1>10 DEF BeginBatch
  <2>3. TypeTick'
    BY <1>10 DEF BeginBatch
  <2>4. TypeCounts'
    BY <1>10 DEF BeginBatch
  <2>5. TableInv'
    BY <1>10 DEF BeginBatch
  <2>6. PollInv'
    BY <1>10 DEF BeginBatch
  <2>7. TickInv'
    BY <1>10 DEF BeginBatch
  <2>8. SendsInv'
    BY <1>10 DEF BeginBatch
  <2>9. QED
    BY <2>1, <2>2, <2>3, <2>4, <2>5, <2>6, <2>7, <2>8
<1>11. ASSUME Transmit PROVE IInv'
  <2>1. TypeTable'
    BY <1>11 DEF Transmit
  <2>2. TypePoll'
    BY <1>11 DEF Transmit
  <2>3. TypeTick'
    BY <1>11 DEF Transmit
  <2>4. TypeCounts'
    BY <1>11 DEF Transmit
  <2>5. TableInv'
    BY <1>11 DEF Transmit
  <2>6. PollInv'
    BY <1>11 DEF Transmit
  <2>7. TickInv'
    BY <1>11 DEF Transmit
  <2>8. SendsInv'
    BY <1>11 DEF Transmit
  <2>9. QED
    BY <2>1, <2>2, <2>3, <2>4, <2>5, <2>6, <2>7, <2>8
<1>12. ASSUME SendSucceeds PROVE IInv'
  <2>1. TypeTable'
    BY <1>12 DEF SendSucceeds, MarkSent, SendOver
  <2>2. TypePoll'
    BY <1>12 DEF SendSucceeds, MarkSent, SendOver
  <2>3. TypeTick'
    BY <1>12 DEF SendSucceeds, MarkSent, SendOver
  <2>4. TypeCounts'
    BY <1>12 DEF SendSucceeds, MarkSent, SendOver
  <2>5. TableInv'
    BY <1>12 DEF SendSucceeds, MarkSent, SendOver
  <2>6. PollInv'
    BY <1>12 DEF SendSucceeds, MarkSent, SendOver
  <2>7. TickInv'
    BY <1>12 DEF SendSucceeds, MarkSent, SendOver
  <2>8. SendsInv'
    BY <1>12 DEF SendSucceeds, MarkSent, SendOver
  <2>9. QED
    BY <2>1, <2>2, <2>3, <2>4, <2>5, <2>6, <2>7, <2>8
<1>13. ASSUME ActivityFails PROVE IInv'
  <2>1. TypeTable'
    BY <1>13 DEF ActivityFails, MarkSent, SendOver, Fault
  <2>2. TypePoll'
    BY <1>13 DEF ActivityFails, MarkSent, SendOver, Fault
  <2>3. TypeTick'
    BY <1>13 DEF ActivityFails, MarkSent, SendOver, Fault
  <2>4. TypeCounts'
    BY <1>13 DEF ActivityFails, MarkSent, SendOver, Fault
  <2>5. TableInv'
    BY <1>13 DEF ActivityFails, MarkSent, SendOver, Fault
  <2>6. PollInv'
    BY <1>13 DEF ActivityFails, MarkSent, SendOver, Fault
  <2>7. TickInv'
    BY <1>13 DEF ActivityFails, MarkSent, SendOver, Fault
  <2>8. SendsInv'
    BY <1>13 DEF ActivityFails, MarkSent, SendOver, Fault
  <2>9. QED
    BY <2>1, <2>2, <2>3, <2>4, <2>5, <2>6, <2>7, <2>8
<1>14. ASSUME SendFails PROVE IInv'
  <2>1. TypeTable'
    BY <1>14 DEF SendFails, LoseSend, SendOver, Fault
  <2>2. TypePoll'
    BY <1>14 DEF SendFails, LoseSend, SendOver, Fault
  <2>3. TypeTick'
    BY <1>14 DEF SendFails, LoseSend, SendOver, Fault
  <2>4. TypeCounts'
    BY <1>14 DEF SendFails, LoseSend, SendOver, Fault
  <2>5. TableInv'
    BY <1>14 DEF SendFails, LoseSend, SendOver, Fault
  <2>6. PollInv'
    BY <1>14 DEF SendFails, LoseSend, SendOver, Fault
  <2>7. TickInv'
    BY <1>14 DEF SendFails, LoseSend, SendOver, Fault
  <2>8. SendsInv'
    BY <1>14 DEF SendFails, LoseSend, SendOver, Fault
  <2>9. QED
    BY <2>1, <2>2, <2>3, <2>4, <2>5, <2>6, <2>7, <2>8
<1>15. ASSUME Crash PROVE IInv'
  <2>1. TypeTable'
    BY <1>15 DEF Crash, LoseSend, Fault
  <2>2. TypePoll'
    BY <1>15 DEF Crash, LoseSend, Fault, PollStates, Idle
  <2>3. TypeTick'
    BY <1>15 DEF Crash, LoseSend, Fault
  <2>4. TypeCounts'
    BY <1>15 DEF Crash, LoseSend, Fault
  <2>5. TableInv'
    BY <1>15 DEF Crash, LoseSend, Fault
  <2>6. PollInv'
    BY <1>15 DEF Crash, LoseSend, Fault, PollStates, Idle
  <2>7. TickInv'
    BY <1>15 DEF Crash, LoseSend, Fault
  <2>8. SendsInv'
    BY <1>15 DEF Crash, LoseSend, Fault
  <2>9. QED
    BY <2>1, <2>2, <2>3, <2>4, <2>5, <2>6, <2>7, <2>8
<1>16. ASSUME UNCHANGED vars PROVE IInv'
  BY <1>16 DEF vars
<1>17. QED
  BY <1>1, <1>2, <1>3, <1>4, <1>5, <1>6, <1>7, <1>8, <1>9, <1>10, <1>11, <1>12, <1>13, <1>14, <1>15, <1>16 DEF Next

LEMMA Invariance == Spec => []IInv
BY InitInv, StepInv, PTL DEF Spec

(* The variables keep their types; no row is numbered beyond the number of  *)
(* items that pass, so no item ever gets a second row.                      *)
THEOREM TypeCorrect == Spec => []TypeOK
<1>1. IInv => TypeOK
  BY DEF IInv, TypeOK, TypeTable, TypePoll, TypeTick, TypeCounts
<1>2. QED
  BY <1>1, Invariance, PTL

(* A post is repeated only when an earlier transmission of it was lost.     *)
THEOREM ExcusedRepeats == Spec => []RepeatsAreExcused
<1>1. IInv => RepeatsAreExcused
  BY DEF IInv, SendsInv, TypeCounts, RepeatsAreExcused
<1>2. QED
  BY <1>1, Invariance, PTL

(* Only published items that pass the filter reach the channel.             *)
THEOREM QueuedSends == Spec => []OnlyQueuedIsSent
<1>1. IInv => OnlyQueuedIsSent
  BY DEF IInv, TableInv, SendsInv, OnlyQueuedIsSent
<1>2. QED
  BY <1>1, Invariance, PTL

(* What is marked as sent is never sent again.                              *)
THEOREM FinalSends == Spec => SentIsFinal
<1>1. IInv /\ [Next]_vars => [\A i \in sent : i \in sent' /\ sends'[i] = sends[i]]_vars
  <2> SUFFICES ASSUME IInv, Next, NEW i \in sent PROVE i \in sent' /\ sends'[i] = sends[i]
    OBVIOUS
  <2>1. i \in sent'
    <3>1. sent \subseteq sent'
      BY DEF Next, Publish, Skip, BeginSend, BeginPoll, Fetch, PollFails, Process, ProcessPartly,
             QueueFeedMessages, CoolDown, BeginBatch, Transmit, SendSucceeds, ActivityFails, MarkSent,
             SendFails, Crash, table
    <3>2. QED
      BY <3>1
  <2>2. sends'[i] = sends[i]
    <3>1. CASE Transmit
      <4>1. sending # i
        BY <3>1 DEF Transmit, IInv, TickInv, Unsent
      <4>2. QED
        BY <3>1, <4>1 DEF Transmit, IInv, TypeTable, TypeCounts
    <3>2. CASE ~Transmit
      <4>1. sends' = sends
        BY <3>2 DEF Next, Publish, Skip, BeginSend, BeginPoll, Fetch, PollFails, Process, ProcessPartly,
                    CoolDown, BeginBatch, SendSucceeds, ActivityFails, SendFails, SendOver, Crash, history
      <4>2. QED
        BY <4>1
    <3>3. QED
      BY <3>1, <3>2
  <2>3. QED
    BY <2>1, <2>2
<1>2. QED
  BY <1>1, Invariance, PTL DEF Spec, SentIsFinal
=============================================================================
