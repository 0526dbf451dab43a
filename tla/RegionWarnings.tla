---------------------------- MODULE RegionWarnings ----------------------------
(***************************************************************************)
(* The note that asks a sender to set a region code                         *)
(* (modules/region_warning.py). A sender who posts MinUnscoped messages     *)
(* that were proven unscoped is warned, unless somebody was within the      *)
(* mesh cooldown, the same sender within its own, or the day's cap is       *)
(* spent. The gates and the reservation are one step of the event loop;     *)
(* the send that follows is awaited, and undoes part of the reservation if  *)
(* it fails. The sender's cooldown and the cap read the stored decisions,   *)
(* the mesh cooldown a mark in memory, seeded from them once per process.   *)
(*                                                                         *)
(* Time is what has lapsed: how many of the attempts are no longer within   *)
(* each limit. The bans, the pause, the list of channels, the check for a   *)
(* known contact and disabled warnings leave a message out before it        *)
(* counts. Settings that are reloaded are others for each message.          *)
(***************************************************************************)
EXTENDS Integers, Sequences, FiniteSets

CONSTANTS
  Senders,           (* display names                                        *)
  MinUnscoped,       (* min_unscoped_messages                                *)
  Cap,               (* max_warnings_per_day; its 0 for "unlimited" is not   *)
                     (* modelled, nor is a cooldown of 0                     *)
  MaxAttempts,       (* bound on the decisions to warn                       *)
  MaxWarningFaults   (* bound on database failures                           *)

ASSUME RegionWarningsAssumption ==
  /\ MinUnscoped \in Nat \ {0} /\ Cap \in Nat \ {0}
  /\ MaxAttempts \in Nat /\ MaxWarningFaults \in Nat

VARIABLES
  unscopedSeen,   (* _senders: unscoped_seen of each, up to where one more   *)
                  (* message is enough                                       *)
  mark,           (* _last_warning_monotonic: the attempt it is of, or 0     *)
  budgetLoaded,   (* _budget_loaded                                          *)
  attempts,       (* decisions to warn, with their rows in                   *)
                  (* region_warning_events                                   *)
  meshLapsed, senderLapsed, dayLapsed,
                  (* attempts no longer within the mesh cooldown, the        *)
                  (* sender's cooldown, and those of earlier days            *)
  overrun,        (* history: attempts made while one was sent that failed   *)
  unseeded,       (* history: the mark was not seeded in this process        *)
  warningFaults

decisions == <<unscopedSeen, mark, budgetLoaded, attempts>>
lapses == <<meshLapsed, senderLapsed, dayLapsed>>
warningHistory == <<overrun, unseeded>>
regionWarningsVars == <<decisions, lapses, warningHistory, warningFaults>>

(* The action in the stored row; whether the warning was or may have been   *)
(* transmitted; and the mark that a failure of the send will restore.       *)
Attempts == [sender : Senders, row : {"none", "sent", "dry_run", "failed"},
             send : {"none", "sending", "done"}, previous : Nat]

RegionWarningsTypeOK ==
  /\ unscopedSeen \in [Senders -> 0..MinUnscoped - 1]
  /\ attempts \in Seq(Attempts) /\ mark \in Nat /\ budgetLoaded \in BOOLEAN
  /\ meshLapsed \in 0..Len(attempts) /\ senderLapsed \in 0..Len(attempts)
  /\ dayLapsed \in 0..Len(attempts)
  /\ overrun \subseteq 1..Len(attempts) /\ unseeded \in BOOLEAN
  /\ warningFaults \in 0..MaxWarningFaults

RegionWarningsInit ==
  /\ unscopedSeen = [s \in Senders |-> 0]
  /\ attempts = <<>> /\ mark = 0 /\ budgetLoaded = FALSE
  /\ meshLapsed = 0 /\ senderLapsed = 0 /\ dayLapsed = 0
  /\ overrun = {} /\ unseeded = FALSE
  /\ warningFaults = 0

Since(lapsed) == lapsed + 1..Len(attempts)
Stored(lapsed) == {i \in Since(lapsed) : attempts[i].row # "none"}
Transmitted(i) == attempts[i].send # "none"

-----------------------------------------------------------------------------
(* The gates. A query that fails lets the warning through.                  *)

Seeded_NotFromRows(failing) == mark

(* _load_budget_once(): the latest row that holds the cooldown.             *)
Kept == {i \in 1..Len(attempts) : attempts[i].row \in {"sent", "dry_run"}}
Seeded(failing) ==
  IF budgetLoaded \/ failing = "seed" \/ Kept = {}
    THEN mark
    ELSE CHOOSE i \in Kept : \A j \in Kept : j <= i

MeshCooldownActive(seed) == seed > meshLapsed
SenderCooldownActive(s) == \E i \in Stored(senderLapsed) : attempts[i].sender = s
DailyCapReached == Cardinality(Stored(dayLapsed)) >= Cap

Withheld(s, failing) ==
  \/ MeshCooldownActive(Seeded(failing))
  \/ failing # "sender" /\ SenderCooldownActive(s)
  \/ failing # "cap" /\ DailyCapReached

(* Of the accesses of one message at most one fails.                        *)
Failing ==
  {"none"} \cup (IF budgetLoaded THEN {} ELSE {"seed"})
    \cup (IF MeshCooldownActive(Seeded("none")) THEN {} ELSE {"sender", "cap", "record"})

Decide(s, action, send, failing) ==
  /\ Len(attempts) < MaxAttempts
  /\ attempts' = Append(attempts,
       [sender |-> s, row |-> IF failing = "record" THEN "none" ELSE action, send |-> send,
        previous |-> IF send = "sending" THEN Seeded(failing) ELSE 0])

Warn_ReserveLater(s, failing) ==
  \/ Decide(s, "failed", "none", failing) /\ mark' = Seeded(failing)
  \/ Decide(s, "dry_run", "none", failing) /\ mark' = Len(attempts) + 1
  \/ Decide(s, "none", "sending", failing) /\ mark' = Seeded(failing)

(* The text or the scope of the send is refused, it is a dry run, or its    *)
(* slot is reserved before it is sent: the settings may be others each time.*)
Warn(s, failing) ==
  \/ Decide(s, "failed", "none", failing) /\ mark' = Seeded(failing)
  \/ Decide(s, "dry_run", "none", failing) /\ mark' = Len(attempts) + 1
  \/ Decide(s, "sent", "sending", failing) /\ mark' = Len(attempts) + 1

(* A run that had no new message for a day starts again.                    *)
Counted(s, n) == n \in {1, unscopedSeen[s] + 1}

(* _consider_warning() *)
ConsiderWarning(s) ==
  /\ \E n \in 1..MinUnscoped, failing \in Failing :
       /\ Counted(s, n)
       /\ warningFaults' = warningFaults + (IF failing = "none" THEN 0 ELSE 1)
       /\ warningFaults' <= MaxWarningFaults
       /\ \/ /\ n < MinUnscoped /\ failing = "none"
             /\ unscopedSeen' = [unscopedSeen EXCEPT ![s] = n]
             /\ UNCHANGED <<mark, budgetLoaded, attempts, unseeded>>
          \/ /\ n = MinUnscoped
             /\ budgetLoaded' = TRUE
             /\ unseeded' = (unseeded \/ (~budgetLoaded /\ failing = "seed"))
             /\ IF Withheld(s, failing)
                  THEN /\ unscopedSeen' = [unscopedSeen EXCEPT ![s] = n - 1] /\ mark' = Seeded(failing)
                       /\ UNCHANGED attempts
                  ELSE unscopedSeen' = [unscopedSeen EXCEPT ![s] = 0] /\ Warn(s, failing)
  /\ UNCHANGED <<lapses, overrun>>

(* observe() of one message, up to the send it may start: a message that    *)
(* carries a region ends the run, unless its tally could not be stored.     *)
(* Messages that are left out before they count change nothing either.      *)
Observe(s, told) ==
  \/ told = "global" /\ ConsiderWarning(s)
  \/ /\ told = "scoped"
     /\ unscopedSeen' = [unscopedSeen EXCEPT ![s] = 0]
     /\ UNCHANGED <<mark, budgetLoaded, attempts, lapses, warningHistory, warningFaults>>
  \/ /\ told = "scoped" /\ warningFaults < MaxWarningFaults /\ warningFaults' = warningFaults + 1
     /\ UNCHANGED <<decisions, lapses, warningHistory>>
  \/ told # "scoped" /\ UNCHANGED regionWarningsVars

StartsSend == Len(attempts') > Len(attempts) /\ attempts'[Len(attempts')].send = "sending"

-----------------------------------------------------------------------------
(* The send returned or raised, and the reservation stays; or it failed,    *)
(* and the row becomes a failed one, if that can be stored, and the mark    *)
(* what it was before.                                                      *)

Sending(i) == attempts[i].send = "sending"
Over(i, action, send) == [sender |-> attempts[i].sender, row |-> action, send |-> send, previous |-> 0]

WarningDone(i) ==
  /\ Sending(i)
  /\ attempts' = [attempts EXCEPT ![i] = Over(i, attempts[i].row, "done")]
  /\ UNCHANGED <<unscopedSeen, mark, budgetLoaded, lapses, warningHistory, warningFaults>>

WarningFails(i) ==
  /\ Sending(i)
  /\ \E action \in {attempts[i].row, IF attempts[i].row = "none" THEN "none" ELSE "failed"} :
       /\ attempts' = [attempts EXCEPT ![i] = Over(i, action, "none")]
       /\ warningFaults' = warningFaults + (IF action = "sent" THEN 1 ELSE 0)
       /\ warningFaults' <= MaxWarningFaults
  /\ mark' = attempts[i].previous
  /\ overrun' = overrun \cup i + 1..Len(attempts)
  /\ UNCHANGED <<unscopedSeen, budgetLoaded, lapses, unseeded>>

WarningEnds(i) == WarningDone(i) \/ WarningFails(i)

(* A cooldown ends, or the day, for the oldest attempt that is held to it.  *)
(* A sender's cooldown is longer than that of the mesh, as by default.      *)
CooldownEnds ==
  /\ \/ /\ meshLapsed < Len(attempts) /\ meshLapsed' = meshLapsed + 1
        /\ UNCHANGED <<senderLapsed, dayLapsed>>
     \/ /\ senderLapsed < meshLapsed /\ senderLapsed' = senderLapsed + 1
        /\ UNCHANGED <<meshLapsed, dayLapsed>>
     \/ /\ dayLapsed < Len(attempts) /\ dayLapsed' = Len(attempts)
        /\ UNCHANGED <<meshLapsed, senderLapsed>>
  /\ UNCHANGED <<decisions, warningHistory, warningFaults>>

(* The process is gone, and started again.                                  *)
WarningsRestart ==
  /\ unscopedSeen' = [s \in Senders |-> 0] /\ mark' = 0 /\ budgetLoaded' = FALSE /\ unseeded' = FALSE
  /\ attempts' = [i \in 1..Len(attempts) |->
       IF Sending(i) THEN Over(i, attempts[i].row, "done") ELSE attempts[i]]
  /\ UNCHANGED <<lapses, overrun, warningFaults>>

RegionWarningsNext ==
  \/ \E s \in Senders, v \in {"scoped", "global", "unknown"} : Observe(s, v)
  \/ \E i \in 1..Len(attempts) : WarningEnds(i)
  \/ CooldownEnds \/ WarningsRestart

-----------------------------------------------------------------------------
(* The cap of the day and the cooldown of a sender hold over restarts, and  *)
(* for warnings that are sent at once: each database failure lets at most   *)
(* one more through (region_warning.py "Reserve the slot before awaiting    *)
(* the send").                                                              *)
WithinLimits ==
  /\ Cardinality(Since(dayLapsed)) <= Cap + warningFaults
  /\ \A s \in Senders :
       Cardinality({i \in Since(senderLapsed) : attempts[i].sender = s}) <= 1 + warningFaults

(* A warning is transmitted within the mesh cooldown of another only if a   *)
(* still older one failed meanwhile and took the mark back, or the process  *)
(* was restarted and the database did not have the row or was not read.     *)
GapsAreExcused ==
  [][StartsSend =>
       \A i \in Since(meshLapsed) :
         Transmitted(i) => i \in overrun \/ attempts[i].row = "none" \/ unseeded']_regionWarningsVars

=============================================================================
