---------------------------- MODULE DatabaseRestore ----------------------------
(***************************************************************************)
(* Restoring the databases of the bot and the viewer                       *)
(* (modules/database_restore.py): the viewer stages a verified copy beside *)
(* the database, and the next start of the bot puts it in place before     *)
(* anything opens the database, keeping a recovery copy and rolling back   *)
(* when a step fails.                                                      *)
(*                                                                         *)
(* The content of a file is a version. A database is its main file and     *)
(* the changes that its WAL sidecar holds back. Each step ends with one    *)
(* change of the file system; a step may fail and the process may die      *)
(* between any two. What os.replace and unlink did survives a crash.       *)
(***************************************************************************)
EXTENDS Integers, FiniteSets

CONSTANTS
  Dbs,         (* the configured databases, 1..n in the order they are applied *)
  MaxVersions, (* bound: contents the bot writes and backups that are staged   *)
  MaxFaults    (* bound: steps that fail, and crashes                          *)

None == 0  (* no file *)
Versions == 1..MaxVersions

ASSUME DatabaseRestoreAssumption ==
  /\ Dbs \subseteq Nat \ {0} /\ MaxVersions \in Nat /\ MaxFaults \in Nat

VARIABLES
  main,      (* what the database file itself holds                         *)
  wal,       (* what the database is with its WAL applied, None without one *)
  pending,   (* the staged candidate                                        *)
  recovery,  (* contents of the pre-restore files                           *)
  phase,     (* what the bot process is doing                               *)
  cur,       (* the database it is working on                               *)
  applied,   (* results of this start: the databases replaced so far        *)
  rec,       (* their recovery copies                                       *)
  version,   (* the last version that came into being                       *)
  latest,    (* history: what each database held when the bot last ran      *)
  before,    (* history: contents and candidates this start has found       *)
  faults     (* failures and crashes so far                                 *)

files == <<main, wal, pending, recovery>>
start == <<phase, cur, applied, rec>>
vars == <<files, start, version, latest, before, faults>>

Phases == {"down", "running", "failed", "check", "validate", "backup", "unlink",
           "replace", "verify", "requeue", "recover", "undo", "reinstate"}

TypeOK ==
  /\ main \in [Dbs -> Versions \cup {None}] /\ wal \in [Dbs -> Versions \cup {None}]
  /\ pending \in [Dbs -> Versions \cup {None}] /\ recovery \in [Dbs -> SUBSET Versions]
  /\ phase \in Phases /\ cur \in Dbs \cup {0} /\ applied \subseteq Dbs
  /\ rec \in [Dbs -> Versions \cup {None}]
  /\ version \in 0..MaxVersions
  /\ latest \in [Dbs -> Versions \cup {None}]
  /\ before \in [content : [Dbs -> Versions \cup {None}],
                 pending : [Dbs -> Versions \cup {None}], faults : Nat]
  /\ faults \in Nat

(* What a process that opens the database finds. A sidecar that outlives    *)
(* its main file is applied to whatever file has taken the place.           *)
Content(d) == IF main[d] # None /\ wal[d] # None THEN wal[d] ELSE main[d]

Nothing == [d \in Dbs |-> None]

Init ==
  /\ main = Nothing /\ wal = Nothing /\ pending = Nothing
  /\ recovery = [d \in Dbs |-> {}]
  /\ phase = "down" /\ cur = 0 /\ applied = {} /\ rec = Nothing
  /\ version = 0 /\ latest = Nothing
  /\ before = [content |-> Nothing, pending |-> Nothing, faults |-> 0]
  /\ faults = 0

Fault == faults < MaxFaults /\ faults' = faults + 1

New == version < MaxVersions /\ version' = version + 1

-----------------------------------------------------------------------------
(* The bot and the viewer commit to a database, which goes to the WAL or to *)
(* the main file, and SQLite moves the WAL into the main file.              *)
Write(d) ==
  /\ phase = "running" /\ New
  /\ \/ main' = [main EXCEPT ![d] = version'] /\ wal' = [wal EXCEPT ![d] = None]
     \/ main[d] # None /\ wal' = [wal EXCEPT ![d] = version'] /\ UNCHANGED main
  /\ latest' = [latest EXCEPT ![d] = version']
  /\ UNCHANGED <<pending, recovery, start, before, faults>>

Merge(d) ==
  /\ main' = [main EXCEPT ![d] = Content(d)]
  /\ wal' = [wal EXCEPT ![d] = None]

Checkpoint(d) ==
  /\ phase = "running" /\ wal[d] # None
  /\ Merge(d)
  /\ UNCHANGED <<pending, recovery, start, version, latest, before, faults>>

(* A request stages a backup; it replaces one that was staged before it.    *)
StageDatabaseRestore(d) ==
  /\ phase = "running" /\ New
  /\ pending' = [pending EXCEPT ![d] = version']
  /\ UNCHANGED <<main, wal, recovery, start, latest, before, faults>>

(* The service is stopped, or what failed to start has exited. *)
Stop ==
  /\ phase \in {"running", "failed"}
  /\ phase' = "down"
  /\ UNCHANGED <<files, cur, applied, rec, version, latest, before, faults>>

Crash ==
  /\ phase # "down" /\ Fault
  /\ phase' = "down"
  /\ UNCHANGED <<files, cur, applied, rec, version, latest, before>>

-----------------------------------------------------------------------------
Start ==
  /\ phase = "down"
  /\ phase' = "check" /\ cur' = 0 /\ applied' = {} /\ rec' = Nothing
  /\ before' = [content |-> [d \in Dbs |-> Content(d)], pending |-> pending, faults |-> faults]
  /\ UNCHANGED <<files, version, latest, faults>>

(* The databases of this start that are still to be looked at. *)
Later == {d \in Dbs : d > cur}

(* The next database with a candidate is taken up; after the last one the   *)
(* bot is constructed and opens its databases.                              *)
Proceed ==
  IF \E d \in Later : pending[d] # None
    THEN /\ \E d \in Later :
              /\ pending[d] # None
              /\ \A e \in Later : e < d => pending[e] = None
              /\ cur' = d
         /\ phase' = "validate"
         /\ UNCHANGED latest
    ELSE /\ phase' = "running"
         /\ latest' = [d \in Dbs |-> Content(d)]
         /\ UNCHANGED cur

(* A database that cannot be handled ends the start: what was applied       *)
(* before it is rolled back.                                                *)
RaiseTo(p) ==
  /\ Fault
  /\ phase' = p
  /\ UNCHANGED <<files, cur, applied, rec, version, latest, before>>

(* The candidates of the whole set are validated before any is applied.     *)
CheckSet ==
  /\ phase = "check"
  /\ \/ Proceed /\ UNCHANGED <<files, applied, rec, version, before, faults>>
     \/ (\E d \in Dbs : pending[d] # None) /\ RaiseTo("failed")

ValidatePending ==
  /\ phase = "validate"
  /\ \/ phase' = "backup" /\ UNCHANGED <<files, cur, applied, rec, version, latest, before, faults>>
     \/ RaiseTo("undo")

(* Copies the main file alone. *)
CreateRecoveryBackup_MainOnly(d) ==
  IF main[d] # None
    THEN /\ recovery' = [recovery EXCEPT ![d] = @ \cup {main[d]}]
         /\ rec' = [rec EXCEPT ![d] = main[d]]
    ELSE UNCHANGED <<recovery, rec>>

(* The online backup of a database that exists, with what its WAL holds.    *)
CreateRecoveryBackup(d) ==
  IF main[d] # None
    THEN /\ recovery' = [recovery EXCEPT ![d] = @ \cup {Content(d)}]
         /\ rec' = [rec EXCEPT ![d] = Content(d)]
    ELSE UNCHANGED <<recovery, rec>>

(* Closing the database that was backed up merges its WAL, unless SQLite    *)
(* cannot do so, which closing does not report.                             *)
BackUp ==
  /\ phase = "backup"
  /\ \/ /\ CreateRecoveryBackup(cur)
        /\ \/ Merge(cur) /\ UNCHANGED faults
           \/ Fault /\ UNCHANGED <<main, wal>>
        /\ phase' = "unlink"
        /\ UNCHANGED <<pending, cur, applied, version, latest, before>>
     \/ RaiseTo("undo")

UnlinkSidecars(d) == wal' = [wal EXCEPT ![d] = None]

Unlink ==
  /\ phase = "unlink"
  /\ \/ /\ UnlinkSidecars(cur)
        /\ \/ phase' = "replace" /\ UNCHANGED faults
           \/ phase' = "undo" /\ Fault
        /\ UNCHANGED <<main, pending, recovery, cur, applied, rec, version, latest, before>>
     \/ RaiseTo("undo")

Replace ==
  /\ phase = "replace"
  /\ \/ /\ main' = [main EXCEPT ![cur] = pending[cur]]
        /\ pending' = [pending EXCEPT ![cur] = None]
        /\ phase' = "verify"
        /\ UNCHANGED <<wal, recovery, cur, applied, rec, version, latest, before, faults>>
     \/ RaiseTo("undo")

(* Owner, directory and the database in its place are checked. *)
Verify ==
  /\ phase = "verify"
  /\ \/ /\ applied' = applied \cup {cur}
        /\ Proceed
        /\ UNCHANGED <<files, rec, version, before, faults>>
     \/ RaiseTo("requeue")

(* The candidate that failed is lost. *)
Requeue_Drops(d) ==
  /\ main' = [main EXCEPT ![d] = None]
  /\ UNCHANGED pending

(* os.replace(database, pending) *)
Requeue(d) ==
  /\ pending' = [pending EXCEPT ![d] = main[d]]
  /\ main' = [main EXCEPT ![d] = None]

RequeueFailed ==
  /\ phase = "requeue"
  /\ \/ /\ Requeue(cur)
        /\ \/ phase' = (IF rec[cur] # None THEN "recover" ELSE "undo") /\ UNCHANGED faults
           \/ phase' = "undo" /\ Fault
        /\ UNCHANGED <<wal, recovery, cur, applied, rec, version, latest, before>>
     \/ RaiseTo("undo")

(* A copy of the recovery file takes the database's place; a failure leaves *)
(* the place empty, or is noticed when it is taken already.                 *)
RollbackFromRecovery ==
  /\ wal' = [wal EXCEPT ![cur] = None]
  /\ \/ main' = [main EXCEPT ![cur] = rec[cur]] /\ UNCHANGED faults
     \/ Fault /\ UNCHANGED main
     \/ Fault /\ main' = [main EXCEPT ![cur] = rec[cur]]

Recover ==
  /\ phase = "recover"
  /\ RollbackFromRecovery
  /\ phase' = "undo"
  /\ UNCHANGED <<pending, recovery, cur, applied, rec, version, latest, before>>

(* The results are rolled back, the last first, whatever fails on the way.  *)
Undo ==
  /\ phase = "undo"
  /\ IF applied = {}
       THEN /\ phase' = "failed"
            /\ UNCHANGED <<files, cur, applied, rec, version, latest, before, faults>>
       ELSE \E d \in applied :
              /\ \A e \in applied : e <= d
              /\ applied' = applied \ {d} /\ cur' = d
              /\ \/ /\ UnlinkSidecars(d) /\ Requeue(d)
                    /\ \/ phase' = (IF rec[d] # None THEN "reinstate" ELSE "undo") /\ UNCHANGED faults
                       \/ phase' = "undo" /\ Fault
                 \/ /\ phase' = "undo" /\ Fault
                    /\ UNCHANGED <<main, pending>>
                    /\ UnlinkSidecars(d) \/ UNCHANGED wal
              /\ UNCHANGED <<recovery, rec, version, latest, before>>

Reinstate ==
  /\ phase = "reinstate"
  /\ RollbackFromRecovery
  /\ phase' = "undo"
  /\ UNCHANGED <<pending, recovery, cur, applied, rec, version, latest, before>>

Apply ==
  \/ CheckSet \/ ValidatePending \/ BackUp \/ Unlink \/ Replace \/ Verify
  \/ RequeueFailed \/ Recover \/ Undo \/ Reinstate

Next ==
  \/ \E d \in Dbs : Write(d) \/ Checkpoint(d) \/ StageDatabaseRestore(d)
  \/ Stop \/ Crash \/ Start \/ Apply

Spec == Init /\ [][Next]_vars

(* The service is restarted after each exit, and the operator restarts it   *)
(* after staging; a start runs to its end.                                  *)
Fairness == WF_vars(Start) /\ WF_vars(Apply) /\ WF_vars(Stop)

FairSpec == Spec /\ Fairness

-----------------------------------------------------------------------------
(* What a database held when the bot last ran, with everything its WAL held *)
(* back, is in the database or in a recovery copy, at every moment of a     *)
(* restore, however steps fail and whenever the process dies.               *)
NothingLost ==
  \A d \in Dbs : latest[d] \in {None, Content(d)} \cup recovery[d]

(* The bot never runs on a candidate mixed with the WAL of the database it  *)
(* replaced, nor on part of the set: it starts on exactly the candidates    *)
(* this start has found, and otherwise on what was there.                   *)
StartsOnCandidates ==
  [][(phase # "running" /\ phase' = "running") =>
       \A d \in Dbs :
         Content(d)' = IF before.pending[d] # None THEN before.pending[d]
                                                   ELSE before.content[d]]_vars

(* After one failure, wherever it strikes, a start that gives up leaves     *)
(* every database and every candidate as it has found them.                 *)
OneFailureChangesNothing ==
  (phase = "failed" /\ faults <= before.faults + 1) =>
    \A d \in Dbs : Content(d) = before.content[d] /\ pending[d] = before.pending[d]

(* The bot comes up on a staged candidate once its starts stop failing,     *)
(* unless another one was staged in its place.                              *)
StagedIsApplied ==
  \A d \in Dbs, v \in Versions :
    pending[d] = v ~> \/ main[d] = v /\ phase = "running"
                     \/ pending[d] \notin {v, None}
=============================================================================
