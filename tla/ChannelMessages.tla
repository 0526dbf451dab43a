---------------------------- MODULE ChannelMessages ----------------------------
(***************************************************************************)
(* The handling of channel messages (modules/message_handler.py, rf_log.py, *)
(* rf_correlation.py, channel_message.py, scope_gate.py).                   *)
(*                                                                         *)
(* The radio reports each reception of a packet, repeats included, as a row *)
(* of the RF log, and queues the decrypted message of the first one. The    *)
(* message says nothing of its packet: the handler looks for the row that   *)
(* it came by, and takes from it the route, the region to answer in, the    *)
(* verdict for the region warnings and whether it may answer at all.        *)
(*                                                                         *)
(* A row is known by its place in the log, which is in the order of time:   *)
(* time is how many rows have become too old for each search.               *)
(***************************************************************************)
EXTENDS Integers, Sequences, FiniteSets

CONSTANTS
  Texts,        (* packets with a channel message                            *)
  Noise,        (* packets of other types                                    *)
  Author,       (* the sender in the text of each message                    *)
  Identity,     (* channel, sender's timestamp, type and text of each        *)
  Region,       (* region of each message's transport code, or Unscoped      *)
  Unscoped,
  ScopeKeys,    (* regions in flood_scopes                                   *)
  AllowGlobal,  (* whether flood_scopes lists "*"                            *)
  Signatures,   (* path length and SNR of a reception                        *)
  FirstSignature,  (* that of the first reception of each message            *)
  MaxRows       (* bound on the receptions reported                          *)

ASSUME ChannelMessagesAssumption ==
  /\ Texts \cap Noise = {}
  /\ DOMAIN Author = Texts /\ DOMAIN Identity = Texts /\ DOMAIN Region = Texts
  /\ FirstSignature \in [Texts -> Signatures]
  /\ Unscoped \notin ScopeKeys /\ AllowGlobal \in BOOLEAN /\ MaxRows \in Nat

NoRow == 0

VARIABLES
  log,          (* rows in the order of their timestamps                     *)
  evicted,      (* rows no longer in recent_rf_data                          *)
  stale10, stale30, stale300,
                (* rows older than message_timeout, than twice               *)
                (* rf_data_timeout, than _channel_rf_cache_timeout           *)
  keysKnown,    (* meshcore.channels has the keys of the channels            *)
  unkeyed,      (* rows of before that                                       *)
  rowDue,       (* messages of which the first row is still to come          *)
  cached,       (* sent before the connection, by the sender's clock         *)
  handling,     (* where each message is                                     *)
  awaits,       (* the warning that its handler waits for                    *)
  route,        (* row the route of the message was taken from               *)
  replyScope,   (* reply_scope; Unscoped for None                            *)
  verdict,      (* what the region warnings were told                        *)
  admitted,     (* passed the allowlist                                      *)
  unwitnessed,  (* history: judged while their own row was out of reach      *)
  contested     (* history: judged while a row of a regional packet agreed   *)

rfLog == <<log, evicted, stale10, stale30, stale300, keysKnown, unkeyed>>
radioQueue == <<rowDue, cached>>
judgement == <<route, replyScope, verdict, admitted, unwitnessed, contested>>
channelMessagesVars == <<rfLog, radioQueue, handling, awaits, judgement>>

Receptions == [packet : Texts \cup Noise, signature : Signatures, first : BOOLEAN]

ChannelMessagesTypeOK ==
  /\ log \in Seq(Receptions) /\ keysKnown \in BOOLEAN
  /\ {evicted, stale10, stale30, stale300, unkeyed} \subseteq 0..Len(log)
  /\ rowDue \subseteq Texts /\ cached \subseteq Texts
  /\ handling \in [Texts -> {"none", "queued", "waiting", "warning", "answered", "ignored", "lost"}]
  /\ awaits \in [Texts -> Nat]
  /\ route \in [Texts -> 0..Len(log)] /\ replyScope \in [Texts -> ScopeKeys \cup {Unscoped}]
  /\ verdict \in [Texts -> {"none", "scoped", "global", "unknown"}]
  /\ admitted \subseteq Texts /\ unwitnessed \subseteq Texts /\ contested \subseteq Texts

ChannelMessagesInit ==
  /\ log = <<>> /\ evicted = 0 /\ stale10 = 0 /\ stale30 = 0 /\ stale300 = 0
  /\ keysKnown = FALSE /\ unkeyed = 0
  /\ rowDue = {} /\ cached = {}
  /\ handling = [p \in Texts |-> "none"] /\ awaits = [p \in Texts |-> 0]
  /\ route = [p \in Texts |-> NoRow] /\ replyScope = [p \in Texts |-> Unscoped]
  /\ verdict = [p \in Texts |-> "none"]
  /\ admitted = {} /\ unwitnessed = {} /\ contested = {}

-----------------------------------------------------------------------------
(* The RF log: handle_rf_log_data(), and time.                              *)

(* The first reception of a message: its row follows, unless the bot was    *)
(* not connected.                                                           *)
FirstHeard(p) ==
  /\ handling[p] = "none"
  /\ handling' = [handling EXCEPT ![p] = "queued"]
  /\ \/ rowDue' = rowDue \cup {p} /\ UNCHANGED cached
     \/ cached' \in {cached, cached \cup {p}} /\ UNCHANGED rowDue
  /\ UNCHANGED <<rfLog, awaits, judgement>>

(* Bound: no row and no age of a row matters once all messages are judged.  *)
Awaited == \E p \in Texts : handling[p] \in {"none", "queued", "waiting"}

(* _insert_rf_row() drops what has become older than rf_data_timeout, which *)
(* is between message_timeout and its own double.                           *)
InsertRow(r) ==
  /\ Awaited /\ Len(log) < MaxRows /\ log' = Append(log, r)
  /\ evicted' \in {k \in evicted..stale10 : k >= stale30}
  /\ UNCHANGED <<stale10, stale30, stale300, keysKnown, unkeyed>>

FirstRow(p) ==
  /\ p \in rowDue /\ rowDue' = rowDue \ {p}
  /\ InsertRow([packet |-> p, signature |-> FirstSignature[p], first |-> TRUE])
  /\ UNCHANGED <<cached, handling, awaits, judgement>>

(* A repeat, and a packet of another type.                                  *)
OtherRow(p, s) ==
  /\ p \in Texts => handling[p] # "none" /\ p \notin rowDue
  /\ InsertRow([packet |-> p, signature |-> s, first |-> FALSE])
  /\ UNCHANGED <<radioQueue, handling, awaits, judgement>>

RowArrives == \E p \in Texts \cup Noise : (p \in Texts /\ FirstRow(p)) \/ \E s \in Signatures : OtherRow(p, s)

KeysLoad ==
  /\ ~keysKnown /\ keysKnown' = TRUE /\ unkeyed' = Len(log)
  /\ UNCHANGED <<log, evicted, stale10, stale30, stale300, radioQueue, handling, awaits, judgement>>

RowAges ==
  /\ Awaited
  /\ \/ stale10 < Len(log) /\ stale10' = stale10 + 1 /\ UNCHANGED <<stale30, stale300>>
     \/ stale30 < stale10 /\ stale30' = stale30 + 1 /\ UNCHANGED <<stale10, stale300>>
     \/ stale300 < stale30 /\ stale300' = stale300 + 1 /\ UNCHANGED <<stale10, stale30>>
  /\ UNCHANGED <<log, evicted, keysKnown, unkeyed, radioQueue, handling, awaits, judgement>>

-----------------------------------------------------------------------------
(* The search for the row of a message.                                     *)

IsText(i) == log[i].packet \in Texts
PacketsOf(found) == {log[i].packet : i \in found}
Earliest(found) == CHOOSE i \in found : \A j \in found : i <= j
Latest(found) == CHOOSE i \in found : \A j \in found : j <= i

LogRows == 1..Len(log)

(* _is_rf_data_scope_eligible() *)
ScopeEligible == {i \in LogRows : IsText(i) /\ Region[log[i].packet] # Unscoped}

NotFound == [row |-> NoRow, how |-> "none"]
Found(i, how) == [row |-> i, how |-> how]
Correlated(match) == match.how \in {"authenticated", "payload"}

(* _find_authenticated_channel_rf_data(): rows of the same message.         *)
Authenticated(p) ==
  {i \in LogRows : IsText(i) /\ keysKnown /\ i > unkeyed /\ i > stale300
                  /\ Identity[log[i].packet] = Identity[p]}

Reachable(among) == {i \in among : i > evicted /\ i > stale30}

(* _rf_data_matches_chan_payload() *)
Matching(p, among) ==
  {i \in among : IsText(i) /\ i > evicted /\ i > stale10 /\ log[i].signature = FirstSignature[p]}

PayloadMatch_AnyPacket(p, among) == Matching(p, among) # {}

(* _find_rf_row_matching_chan_payload(): of one packet, or undecided.       *)
PayloadMatch(p, among) == Cardinality(PacketsOf(Matching(p, among))) = 1

(* _correlate_channel_message_rf_data(): all rows, or those with a region.  *)
Correlate(p, among) ==
  IF Authenticated(p) # {}
    THEN IF Cardinality(PacketsOf(Authenticated(p))) = 1 /\ Earliest(Authenticated(p)) \in among
           THEN Found(Earliest(Authenticated(p)), "authenticated")
           ELSE NotFound
    ELSE IF Reachable(among) = {} THEN NotFound
    ELSE IF PayloadMatch(p, among)
           THEN Found(Latest(Matching(p, among)), "payload")
           ELSE Found(Latest(Reachable(among)), "fallback")

General(p) == Correlate(p, LogRows)
Scoped(p) == Correlate(p, ScopeEligible)
RegionOf(match) == Region[log[match.row].packet]

-----------------------------------------------------------------------------
(* What is taken from it.                                                   *)

Scope_AnyRow(p) ==
  IF Scoped(p) # NotFound /\ RegionOf(Scoped(p)) \in ScopeKeys THEN RegionOf(Scoped(p)) ELSE Unscoped

(* _channel_reply_scope() *)
Scope(p) ==
  IF Correlated(Scoped(p)) /\ RegionOf(Scoped(p)) \in ScopeKeys THEN RegionOf(Scoped(p)) ELSE Unscoped

(* classify_channel_flood_scope() *)
Verdict(p) ==
  IF Correlated(Scoped(p)) THEN "scoped"
  ELSE IF ~Correlated(General(p)) THEN "unknown"
  ELSE IF RegionOf(General(p)) = Unscoped THEN "global" ELSE "scoped"

(* is_confirmed_global_flood() *)
ConfirmedGlobal(p) ==
  /\ General(p) # NotFound
  /\ IF Correlated(General(p)) THEN RegionOf(General(p)) = Unscoped ELSE Scoped(p) = NotFound

(* _channel_scope_allowed() *)
ScopeAllowed(p) ==
  \/ ScopeKeys = {} /\ ~AllowGlobal
  \/ Scope(p) # Unscoped
  \/ ~Correlated(Scoped(p)) /\ AllowGlobal /\ ConfirmedGlobal(p)

(* The row of the first reception is in the search that decides.            *)
Witnessed(p) ==
  \E i \in LogRows :
    /\ log[i].packet = p /\ log[i].first
    /\ \/ i \in Authenticated(p)
       \/ PacketsOf(Authenticated(p)) \subseteq {p} /\ i > evicted /\ i > stale10

Contested(p) == Authenticated(p) = {} /\ Matching(p, ScopeEligible) # {}

-----------------------------------------------------------------------------
(* handle_channel_message()                                                 *)

(* The message is delivered: a row that can be authenticated decides at     *)
(* once, otherwise the handler sleeps, since the row may trail the message. *)
Deferred(p) ==
  /\ handling[p] = "queued" /\ Authenticated(p) = {}
  /\ handling' = [handling EXCEPT ![p] = "waiting"]
  /\ UNCHANGED <<rfLog, radioQueue, awaits, judgement>>

Outcome(p, passed) == IF p \in passed /\ p \notin cached THEN "answered" ELSE "ignored"

Ripe_OnlyWithRow(p) == handling[p] \in {"queued", "waiting"} /\ Authenticated(p) # {}

(* Its row is there, or the sleep is over.                                  *)
Ripe(p) == handling[p] = "waiting" \/ (handling[p] = "queued" /\ Authenticated(p) # {})

(* Both searches, the verdict and the allowlist: warning is the one that    *)
(* the handler waits for before it goes on, if any.                         *)
Judge(p, warning) ==
  /\ Ripe(p)
  /\ route' = [route EXCEPT ![p] = IF Correlated(General(p)) THEN General(p).row ELSE NoRow]
  /\ replyScope' = [replyScope EXCEPT ![p] = Scope(p)]
  /\ verdict' = [verdict EXCEPT ![p] = IF p \in cached THEN "none" ELSE Verdict(p)]
  /\ admitted' = IF ScopeAllowed(p) THEN admitted \cup {p} ELSE admitted
  /\ unwitnessed' = IF Witnessed(p) THEN unwitnessed ELSE unwitnessed \cup {p}
  /\ contested' = IF Contested(p) THEN contested \cup {p} ELSE contested
  /\ awaits' = [awaits EXCEPT ![p] = warning]
  /\ handling' = [handling EXCEPT ![p] = IF warning = 0 THEN Outcome(p, admitted') ELSE "warning"]
  /\ UNCHANGED <<rfLog, radioQueue>>

(* The warning is over.                                                     *)
Resume(p) ==
  /\ handling[p] = "warning"
  /\ handling' = [handling EXCEPT ![p] = Outcome(p, admitted)]
  /\ awaits' = [awaits EXCEPT ![p] = 0]
  /\ UNCHANGED <<rfLog, radioQueue, judgement>>

(* The process is gone, and started again: what it had in memory is lost,   *)
(* what the radio had queued is older than the new connection.              *)
ChannelRestart ==
  /\ evicted' = Len(log) /\ stale10' = Len(log) /\ stale30' = Len(log) /\ stale300' = Len(log)
  /\ keysKnown' = FALSE /\ unkeyed' = Len(log) /\ rowDue' = {}
  /\ handling' = [p \in Texts |-> IF handling[p] \in {"waiting", "warning"} THEN "lost" ELSE handling[p]]
  /\ awaits' = [p \in Texts |-> 0]
  /\ \E clocked \in SUBSET {p \in Texts : handling[p] = "queued"} : cached' = cached \cup clocked
  /\ UNCHANGED <<log, judgement>>

ChannelMessagesNext ==
  \/ \E p \in Texts : FirstHeard(p) \/ Deferred(p) \/ Resume(p) \/ \E warning \in Nat : Judge(p, warning)
  \/ RowArrives \/ KeysLoad \/ RowAges \/ ChannelRestart

-----------------------------------------------------------------------------
(* A message takes the route of its own packet, and counts as sent without  *)
(* a region only if that packet had none, as long as the row of its first   *)
(* reception is within reach, whatever was heard in between                 *)
(* (rf_correlation.py "because a guess is what #80 cost").                  *)
OwnPacketSpeaks ==
  \A p \in Texts \ unwitnessed :
    /\ route[p] # NoRow => log[route[p]].packet = p
    /\ verdict[p] = "global" => Region[p] = Unscoped

(* A message is answered, and in its own region, only if the allowlist has  *)
(* it: another packet may speak for it only while its own row is out of     *)
(* reach, or if a regional packet came with the same path length and SNR.   *)
AnswersAreAllowed ==
  \A p \in Texts : handling[p] = "answered" =>
    \/ p \in unwitnessed \/ (p \in contested /\ Region[p] = Unscoped)
    \/ ScopeKeys = {} /\ ~AllowGlobal
    \/ Region[p] = Unscoped /\ AllowGlobal /\ replyScope[p] = Unscoped
    \/ Region[p] \in ScopeKeys /\ replyScope[p] = Region[p]

=============================================================================
