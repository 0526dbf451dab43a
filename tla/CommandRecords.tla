---------------------------- MODULE CommandRecords ----------------------------
(***************************************************************************)
(* What the web viewer is told of the replies to commands                   *)
(* (modules/transmission_tracker.py, BotIntegration of                      *)
(* modules/web_viewer/integration.py, execute_commands()).                  *)
(*                                                                         *)
(* Each reply is recorded when it is transmitted; repeats of its packet     *)
(* count on the record. The command's row goes through a bounded queue,     *)
(* which a thread drains into packet_stream every half second. Repeats      *)
(* heard later are written into the stored row by an executor of one        *)
(* worker. A command is linked to the record of its reply by the text.      *)
(***************************************************************************)
EXTENDS Integers, Sequences, FiniteSets

CONSTANTS
  Replies,          (* commands that are answered once                      *)
  Text,             (* the text of each reply                               *)
  Keyword,          (* those with a response format, whose command id is    *)
                    (* known when they are sent                             *)
  WriteMax,         (* write queue maxsize                                  *)
  MaxRepeats,       (* bound on the repeats heard                           *)
  MaxPackets,       (* bound on other rows for packet_stream                *)
  MaxRecordFaults   (* bound on database failures                           *)

ASSUME CommandRecordsAssumption ==
  /\ IsFiniteSet(Replies) /\ DOMAIN Text = Replies /\ Keyword \subseteq Replies
  /\ WriteMax \in Nat \ {0} /\ MaxRepeats \in Nat /\ MaxPackets \in Nat
  /\ MaxRecordFaults \in Nat

NotStored == -1

VARIABLES
  sent,        (* replies in the order of record_transmission()             *)
  tracked,     (* per reply: "no", "pending", "confirmed" or "forgotten"    *)
  commandId,   (* per record: the commands whose id it carries, at most one *)
  heard,       (* repeat_count of each record                               *)
  noted,       (* repeat_count in the row of a captured command             *)
  waiting,     (* commands whose row is in the write queue                  *)
  others,      (* other rows in the write queue                             *)
  held,        (* the row the loop's thread waits to queue, if any          *)
  retried,     (* whether it has flushed for it                             *)
  flusher,     (* holder of the flush lock: "none", "drain" or "loop"       *)
  taken,       (* rows the flush drained                                    *)
  stream,      (* repeat_count of the stored rows                           *)
  submitting,  (* update the loop is about to submit, if any                *)
  worker,      (* updates submitted to the executor                         *)
  closing,     (* _db_closed                                                *)
  captured,    (* commands captured for the viewer                          *)
  dropped,     (* history: rows given up because the queue was full         *)
  missed,      (* history: commands an update of which found no row         *)
  repeats, packets, recordFaults

records == <<sent, tracked, commandId, heard>>
writeQueue == <<waiting, others>>
hold == <<held, retried>>
flushing == <<flusher, taken>>
executor == <<submitting, worker, closing>>
recordHistory == <<captured, dropped, missed>>
recordBounds == <<repeats, packets, recordFaults>>
commandRecordsVars == <<records, noted, writeQueue, hold, flushing, stream, executor, recordHistory, recordBounds>>

Rows == [commands : SUBSET Replies, others : Nat]
NoRows == [commands |-> {}, others |-> 0]
Updates == [command : Replies, count : Nat]

CommandRecordsTypeOK ==
  /\ sent \in Seq(Replies)
  /\ tracked \in [Replies -> {"no", "pending", "confirmed", "forgotten"}]
  /\ commandId \in [Replies -> SUBSET Replies] /\ heard \in [Replies -> Nat]
  /\ noted \in [Replies -> Nat] /\ waiting \subseteq Replies /\ others \in Nat
  /\ held \in Rows
  /\ retried \in BOOLEAN
  /\ flusher \in {"none", "drain", "loop"} /\ taken \in Rows
  /\ stream \in [Replies -> Nat \cup {NotStored}]
  /\ submitting \in Seq(Updates) /\ worker \in Seq(Updates)
  /\ closing \in BOOLEAN
  /\ captured \subseteq Replies /\ dropped \subseteq Replies /\ missed \subseteq Replies
  /\ repeats \in 0..MaxRepeats /\ packets \in 0..MaxPackets
  /\ recordFaults \in 0..MaxRecordFaults

CommandRecordsInit ==
  /\ sent = <<>> /\ tracked = [r \in Replies |-> "no"]
  /\ commandId = [r \in Replies |-> {}] /\ heard = [r \in Replies |-> 0]
  /\ noted = [r \in Replies |-> 0] /\ waiting = {} /\ others = 0
  /\ held = NoRows /\ retried = FALSE /\ flusher = "none" /\ taken = NoRows
  /\ stream = [r \in Replies |-> NotStored]
  /\ submitting = <<>> /\ worker = <<>> /\ closing = FALSE
  /\ captured = {} /\ dropped = {} /\ missed = {}
  /\ repeats = 0 /\ packets = 0 /\ recordFaults = 0

RecordFault == recordFaults < MaxRecordFaults /\ recordFaults' = recordFaults + 1

Room == WriteMax - Cardinality(waiting) - others

(* The loop's thread waits neither for the queue nor for the flush lock.    *)
LoopIdle == held = NoRows /\ submitting = <<>> /\ flusher # "loop"

-----------------------------------------------------------------------------
(* The tracker.                                                             *)

Findable(r) == tracked[r] \in {"pending", "confirmed"}

(* record_transmission(), with the cleanup that is due now and then.        *)
Transmit(r) ==
  /\ LoopIdle /\ tracked[r] = "no"
  /\ \E old \in SUBSET {s \in Replies : Findable(s)} :
       tracked' = [s \in Replies |->
                     IF s = r THEN "pending" ELSE IF s \in old THEN "forgotten" ELSE tracked[s]]
  /\ sent' = Append(sent, r)
  /\ commandId' = IF r \in Keyword THEN [commandId EXCEPT ![r] = {r}] ELSE commandId
  /\ UNCHANGED <<heard, noted, writeQueue, hold, flushing, stream, executor, recordHistory, recordBounds>>

(* _update_command_in_database(): nothing is updated unless the row has     *)
(* been stored. An error is only logged.                                    *)
Update(c, n) ==
  \/ /\ stream[c] # NotStored
     /\ stream' = [stream EXCEPT ![c] = n] /\ missed' = missed \ {c}
     /\ UNCHANGED recordFaults
  \/ /\ stream[c] = NotStored /\ missed' = missed \cup {c}
     /\ UNCHANGED <<stream, recordFaults>>
  \/ RecordFault /\ missed' = missed \cup {c} /\ UNCHANGED stream

(* match_packet_hash() for a packet that carries the identity of a          *)
(* transmission, and record_repeat() if it came by a repeater (n = 1). The  *)
(* update is written in line once the tracker is closed.                    *)
Hear(r, n) ==
  /\ LoopIdle /\ Findable(r)
  /\ tracked' = [tracked EXCEPT ![r] = "confirmed"]
  /\ repeats + n <= MaxRepeats /\ repeats' = repeats + n
  /\ heard' = [heard EXCEPT ![r] = @ + n]
  /\ \/ /\ n = 0 \/ commandId[r] = {}
        /\ UNCHANGED <<submitting, stream, missed, recordFaults>>
     \/ \E c \in commandId[r] :
          /\ n > 0
          /\ \/ closing /\ Update(c, heard[r] + n) /\ UNCHANGED submitting
             \/ /\ ~closing /\ submitting' = <<[command |-> c, count |-> heard[r] + n]>>
                /\ UNCHANGED <<stream, missed, recordFaults>>
  /\ UNCHANGED <<sent, commandId, noted, writeQueue, hold, flushing, worker, closing, captured, dropped, packets>>

(* The executor, once it is shut down, refuses the update.                  *)
Submit ==
  /\ submitting # <<>> /\ submitting' = <<>>
  /\ \/ worker' = worker \o submitting /\ UNCHANGED missed
     \/ closing /\ missed' = missed \cup {submitting[1].command} /\ UNCHANGED worker
  /\ UNCHANGED <<records, noted, writeQueue, hold, flushing, stream, closing, captured, dropped, recordBounds>>

Work ==
  /\ worker # <<>> /\ worker' = Tail(worker)
  /\ Update(Head(worker).command, Head(worker).count)
  /\ UNCHANGED <<records, noted, writeQueue, hold, flushing, submitting, closing, captured, dropped, repeats, packets>>

(* close(), on a thread of its own; it returns when the worker is done.     *)
CloseTracker ==
  /\ closing' = TRUE
  /\ UNCHANGED <<records, noted, writeQueue, hold, flushing, stream, submitting, worker, recordHistory, recordBounds>>

TrackerClosed == closing /\ worker = <<>>

-----------------------------------------------------------------------------
(* The write queue.                                                         *)

(* _insert_packet_stream_row(): a full queue blocks the loop's thread.      *)
Put(row) ==
  IF Room > 0
    THEN /\ waiting' = waiting \cup row.commands /\ others' = others + row.others
         /\ UNCHANGED hold
    ELSE held' = row /\ retried' = FALSE /\ UNCHANGED writeQueue

(* execute_commands() looks for the record of its reply among those of the  *)
(* last ten seconds and takes the first with the same text.                 *)
First(recent, r) ==
  {sent[i] : i \in {j \in recent : Text[sent[j]] = Text[r] /\ Findable(sent[j])
                       /\ \A k \in recent : k < j => Text[sent[k]] # Text[r] \/ ~Findable(sent[k])}}

Link(r) ==
  IF r \in Keyword
    THEN UNCHANGED commandId
    ELSE \E oldest \in 1..Len(sent) + 1 :
           commandId' = [s \in Replies |-> IF s \in First(oldest..Len(sent), r) THEN {r} ELSE commandId[s]]

CaptureCommand_NoRepeats(r) ==
  /\ LoopIdle /\ tracked[r] # "no" /\ r \notin captured
  /\ captured' = captured \cup {r}
  /\ Link(r)
  /\ Put([commands |-> {r}, others |-> 0])
  /\ UNCHANGED <<sent, tracked, heard, noted, flushing, stream, executor, dropped, missed, recordBounds>>

(* capture_command(), with the repeats heard so far.                        *)
CaptureCommand(r) ==
  /\ LoopIdle /\ tracked[r] # "no" /\ r \notin captured
  /\ captured' = captured \cup {r}
  /\ Link(r)
  /\ noted' = [noted EXCEPT ![r] =
       IF \E s \in Replies : tracked[s] = "confirmed" /\ r \in commandId'[s]
         THEN heard[CHOOSE s \in Replies : tracked[s] = "confirmed" /\ r \in commandId'[s]]
         ELSE 0]
  /\ Put([commands |-> {r}, others |-> 0])
  /\ UNCHANGED <<sent, tracked, heard, flushing, stream, executor, dropped, missed, recordBounds>>

(* A row for a packet or a message.                                         *)
CapturePacket ==
  /\ LoopIdle /\ packets < MaxPackets /\ packets' = packets + 1
  /\ Put([commands |-> {}, others |-> 1])
  /\ UNCHANGED <<records, noted, flushing, stream, executor, recordHistory, repeats, recordFaults>>

(* The row that waits is queued when there is room; if it takes too long,   *)
(* the loop flushes by itself, tries again and gives up.                    *)
PutHeld ==
  /\ held # NoRows /\ flusher # "loop" /\ Room > 0
  /\ waiting' = waiting \cup held.commands /\ others' = others + held.others
  /\ held' = NoRows /\ retried' = FALSE
  /\ UNCHANGED <<records, noted, flushing, stream, executor, recordHistory, recordBounds>>

GiveUp ==
  /\ held # NoRows /\ flusher # "loop" /\ retried /\ Room = 0
  /\ dropped' = dropped \cup held.commands
  /\ held' = NoRows /\ retried' = FALSE
  /\ UNCHANGED <<records, noted, writeQueue, flushing, stream, executor, captured, missed, recordBounds>>

-----------------------------------------------------------------------------
(* A flush: _flush_write_queue(), by one thread at a time.                  *)

StartFlush(thread) ==
  /\ flusher = "none"
  /\ waiting # {} \/ others > 0
  /\ flusher' = thread /\ taken' = [commands |-> waiting, others |-> others]
  /\ waiting' = {} /\ others' = 0
  /\ UNCHANGED <<records, noted, hold, stream, executor, recordHistory, recordBounds>>

DrainFlushes == StartFlush("drain")
LoopFlushes == held # NoRows /\ ~retried /\ StartFlush("loop")

EndOfFlush ==
  /\ flusher' = "none" /\ taken' = NoRows
  /\ retried' = (retried \/ flusher = "loop")

FlushCommits ==
  /\ flusher # "none" /\ EndOfFlush
  /\ stream' = [r \in Replies |-> IF r \in taken.commands THEN noted[r] ELSE stream[r]]
  /\ UNCHANGED <<records, noted, writeQueue, held, executor, recordHistory, recordBounds>>

FlushFails_Forgets ==
  /\ flusher # "none" /\ RecordFault /\ EndOfFlush
  /\ UNCHANGED <<records, noted, writeQueue, held, stream, executor, recordHistory, repeats, packets>>

(* The rows go back into the queue as far as there is room: nobody else     *)
(* can flush meanwhile.                                                     *)
FlushFails ==
  /\ flusher # "none" /\ RecordFault /\ EndOfFlush
  /\ \E kept \in SUBSET taken.commands, rest \in 0..taken.others :
       LET all == Cardinality(taken.commands) + taken.others
           put == Cardinality(kept) + rest
       IN
       /\ put = (IF all < Room THEN all ELSE Room)
       /\ waiting' = waiting \cup kept /\ others' = others + rest
       /\ dropped' = dropped \cup (taken.commands \ kept)
  /\ UNCHANGED <<records, noted, held, stream, executor, captured, missed, repeats, packets>>

PacketArrives == CapturePacket \/ \E r \in Replies, n \in {0, 1} : Hear(r, n)

CommandRecordsTasks == \E r \in Replies : Transmit(r) \/ CaptureCommand(r)

CommandRecordsGoOn ==
  \/ PutHeld \/ GiveUp \/ LoopFlushes \/ DrainFlushes \/ FlushCommits \/ FlushFails
  \/ Submit \/ Work

CommandRecordsNext == PacketArrives \/ CommandRecordsTasks \/ CommandRecordsGoOn \/ CloseTracker

=============================================================================
