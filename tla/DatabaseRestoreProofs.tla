------------------------ MODULE DatabaseRestoreProofs ------------------------
(* Proofs about DatabaseRestore for any number of databases, versions and   *)
(* failures.                                                                *)
EXTENDS DatabaseRestore, TLAPS

TypeFiles ==
  /\ main \in [Dbs -> Versions \cup {None}] /\ wal \in [Dbs -> Versions \cup {None}]
  /\ pending \in [Dbs -> Versions \cup {None}] /\ recovery \in [Dbs -> SUBSET Versions]
TypeStart ==
  /\ phase \in Phases /\ cur \in Dbs \cup {0} /\ applied \subseteq Dbs
  /\ rec \in [Dbs -> Versions \cup {None}]
TypeHistory ==
  /\ version \in 0..MaxVersions
  /\ latest \in [Dbs -> Versions \cup {None}]
  /\ before \in [content : [Dbs -> Versions \cup {None}],
                 pending : [Dbs -> Versions \cup {None}], faults : Nat]
  /\ faults \in Nat

(* The phases that handle one database, and those of them after its backup. *)
AtOne == {"validate", "backup", "unlink", "replace", "verify", "requeue", "recover", "reinstate"}
BackedUp == {"unlink", "replace", "verify", "requeue", "recover", "reinstate"}

CurInv == phase \in AtOne => cur \in Dbs

(* The database at hand, once backed up, and those already replaced have    *)
(* their latest content in a recovery copy.                                 *)
SecuredInv ==
  phase \notin {"down", "running", "failed"} =>
    \A d \in Dbs :
      (d \in applied \/ (d = cur /\ phase \in BackedUp)) => latest[d] \in {None} \cup recovery[d]

Untouched(d) == Content(d) = before.content[d] /\ pending[d] = before.pending[d]

Replaced(d) ==
  /\ main[d] = before.pending[d] /\ wal[d] = None /\ before.pending[d] # None
  /\ pending[d] = None
  /\ rec[d] = before.content[d]

Working == {"check", "validate", "backup", "unlink", "replace", "verify"}

(* While nothing has failed but a checkpoint, the databases before the one  *)
(* at hand are replaced or had no candidate, and the later ones untouched.  *)
WorkInv ==
  phase \in Working =>
    /\ faults >= before.faults
    /\ cur \notin applied
    /\ phase = "check" => cur = 0 /\ applied = {}
    /\ \A d \in applied : Replaced(d)
    /\ \A d \in Dbs \ applied :
         /\ d # cur \/ phase \in {"check", "validate", "backup"} => Untouched(d) /\ rec[d] = None
         /\ d < cur => before.pending[d] = None
    /\ phase \in {"validate", "backup"} => pending[cur] # None
    /\ phase \in {"unlink", "replace"} =>
         /\ pending[cur] = before.pending[cur] /\ pending[cur] # None
         /\ rec[cur] = before.content[cur]
         /\ faults = before.faults => main[cur] = before.content[cur] /\ wal[cur] = None
    /\ phase = "replace" => wal[cur] = None
    /\ phase = "verify" => Replaced(cur)

Undoing == {"requeue", "recover", "undo", "reinstate", "failed"}

(* After the first failure what was replaced can be put back as it was.     *)
UndoInv ==
  phase \in Undoing =>
    /\ faults > before.faults
    /\ faults = before.faults + 1 =>
         /\ \A d \in applied : Replaced(d)
         /\ phase \in {"undo", "failed"} => \A d \in Dbs \ applied : Untouched(d)
         /\ phase \in {"requeue", "recover", "reinstate"} =>
              cur \notin applied /\ \A d \in Dbs \ (applied \cup {cur}) : Untouched(d)
         /\ phase = "requeue" => Replaced(cur)
         /\ phase \in {"recover", "reinstate"} =>
              /\ main[cur] = None /\ wal[cur] = None /\ pending[cur] = before.pending[cur]
              /\ rec[cur] = before.content[cur]
         /\ phase = "failed" => applied = {}

IInv ==
  /\ TypeFiles /\ TypeStart /\ TypeHistory /\ CurInv
  /\ SecuredInv /\ NothingLost /\ WorkInv /\ UndoInv

-----------------------------------------------------------------------------
LEMMA InitInv == Init => IInv
<1> SUFFICES ASSUME Init PROVE IInv
  OBVIOUS
<1> USE DatabaseRestoreAssumption DEF DatabaseRestoreAssumption, Init, None, Nothing, Versions, Phases
<1>1. TypeFiles
  BY DEF TypeFiles
<1>2. TypeStart
  BY DEF TypeStart
<1>3. TypeHistory
  BY DEF TypeHistory
<1>4. CurInv
  BY DEF CurInv, AtOne
<1>5. SecuredInv
  BY DEF SecuredInv
<1>6. NothingLost
  BY DEF NothingLost, Content
<1>7. WorkInv
  BY DEF WorkInv, Working
<1>8. UndoInv
  BY DEF UndoInv, Undoing
<1>9. QED
  BY <1>1, <1>2, <1>3, <1>4, <1>5, <1>6, <1>7, <1>8 DEF IInv

LEMMA StepInv == IInv /\ [Next]_vars => IInv'
<1> SUFFICES ASSUME IInv, [Next]_vars PROVE IInv'
  OBVIOUS
<1> USE DatabaseRestoreAssumption DEF DatabaseRestoreAssumption, IInv, TypeFiles, TypeStart, TypeHistory,
      None, Versions, Phases, files, start
<1>1. ASSUME NEW d \in Dbs, Write(d) PROVE IInv'
  <2>1. TypeFiles'
    BY <1>1 DEF Write, New, Content
  <2>2. TypeStart'
    BY <1>1 DEF Write, New, Content, CurInv, AtOne
  <2>3. TypeHistory'
    BY <1>1 DEF Write, New, Content
  <2>4. CurInv'
    BY <1>1 DEF Write, New, CurInv, AtOne
  <2>5. SecuredInv'
    BY <1>1 DEF Write, New, SecuredInv, BackedUp, NothingLost, Content, CurInv, AtOne
  <2>6. NothingLost'
    BY <1>1 DEF Write, New, NothingLost, Content, SecuredInv, BackedUp, CurInv, AtOne
  <2>7. WorkInv'
    BY <1>1 DEF Write, New, WorkInv, Working, Untouched, Replaced, Content, CurInv, AtOne
  <2>8. UndoInv'
    BY <1>1 DEF Write, New, UndoInv, Undoing, WorkInv, Working, Untouched, Replaced, Content, CurInv, AtOne
  <2>9. QED
    BY <2>1, <2>2, <2>3, <2>4, <2>5, <2>6, <2>7, <2>8
<1>2. ASSUME NEW d \in Dbs, Checkpoint(d) PROVE IInv'
  <2>1. TypeFiles'
    BY <1>2 DEF Checkpoint, Merge, Content
  <2>2. TypeStart'
    BY <1>2 DEF Checkpoint, Merge, Content, CurInv, AtOne
  <2>3. TypeHistory'
    BY <1>2 DEF Checkpoint, Merge, Content
  <2>4. CurInv'
    BY <1>2 DEF Checkpoint, Merge, CurInv, AtOne
  <2>5. SecuredInv'
    BY <1>2 DEF Checkpoint, Merge, SecuredInv, BackedUp, NothingLost, Content, CurInv, AtOne
  <2>6. NothingLost'
    BY <1>2 DEF Checkpoint, Merge, NothingLost, Content, SecuredInv, BackedUp, CurInv, AtOne
  <2>7. WorkInv'
    BY <1>2 DEF Checkpoint, Merge, WorkInv, Working, Untouched, Replaced, Content, CurInv, AtOne
  <2>8. UndoInv'
    BY <1>2 DEF Checkpoint, Merge, UndoInv, Undoing, WorkInv, Working, Untouched, Replaced, Content, CurInv, AtOne
  <2>9. QED
    BY <2>1, <2>2, <2>3, <2>4, <2>5, <2>6, <2>7, <2>8
<1>3. ASSUME NEW d \in Dbs, StageDatabaseRestore(d) PROVE IInv'
  <2>1. TypeFiles'
    BY <1>3 DEF StageDatabaseRestore, New, Content
  <2>2. TypeStart'
    BY <1>3 DEF StageDatabaseRestore, New, Content, CurInv, AtOne
  <2>3. TypeHistory'
    BY <1>3 DEF StageDatabaseRestore, New, Content
  <2>4. CurInv'
    BY <1>3 DEF StageDatabaseRestore, New, CurInv, AtOne
  <2>5. SecuredInv'
    BY <1>3 DEF StageDatabaseRestore, New, SecuredInv, BackedUp, NothingLost, Content, CurInv, AtOne
  <2>6. NothingLost'
    BY <1>3 DEF StageDatabaseRestore, New, NothingLost, Content, SecuredInv, BackedUp, CurInv, AtOne
  <2>7. WorkInv'
    BY <1>3 DEF StageDatabaseRestore, New, WorkInv, Working, Untouched, Replaced, Content, CurInv, AtOne
  <2>8. UndoInv'
    BY <1>3 DEF StageDatabaseRestore, New, UndoInv, Undoing, WorkInv, Working, Untouched, Replaced, Content, CurInv, AtOne
  <2>9. QED
    BY <2>1, <2>2, <2>3, <2>4, <2>5, <2>6, <2>7, <2>8
<1>4. ASSUME Stop PROVE IInv'
  <2>1. TypeFiles'
    BY <1>4 DEF Stop, Content
  <2>2. TypeStart'
    BY <1>4 DEF Stop, Content, CurInv, AtOne
  <2>3. TypeHistory'
    BY <1>4 DEF Stop, Content
  <2>4. CurInv'
    BY <1>4 DEF Stop, CurInv, AtOne
  <2>5. SecuredInv'
    BY <1>4 DEF Stop, SecuredInv, BackedUp, NothingLost, Content, CurInv, AtOne
  <2>6. NothingLost'
    BY <1>4 DEF Stop, NothingLost, Content, SecuredInv, BackedUp, CurInv, AtOne
  <2>7. WorkInv'
    BY <1>4 DEF Stop, WorkInv, Working, Untouched, Replaced, Content, CurInv, AtOne
  <2>8. UndoInv'
    BY <1>4 DEF Stop, UndoInv, Undoing, WorkInv, Working, Untouched, Replaced, Content, CurInv, AtOne
  <2>9. QED
    BY <2>1, <2>2, <2>3, <2>4, <2>5, <2>6, <2>7, <2>8
<1>5. ASSUME Crash PROVE IInv'
  <2>1. TypeFiles'
    BY <1>5 DEF Crash, Fault, Content
  <2>2. TypeStart'
    BY <1>5 DEF Crash, Fault, Content, CurInv, AtOne
  <2>3. TypeHistory'
    BY <1>5 DEF Crash, Fault, Content
  <2>4. CurInv'
    BY <1>5 DEF Crash, Fault, CurInv, AtOne
  <2>5. SecuredInv'
    BY <1>5 DEF Crash, Fault, SecuredInv, BackedUp, NothingLost, Content, CurInv, AtOne
  <2>6. NothingLost'
    BY <1>5 DEF Crash, Fault, NothingLost, Content, SecuredInv, BackedUp, CurInv, AtOne
  <2>7. WorkInv'
    BY <1>5 DEF Crash, Fault, WorkInv, Working, Untouched, Replaced, Content, CurInv, AtOne
  <2>8. UndoInv'
    BY <1>5 DEF Crash, Fault, UndoInv, Undoing, WorkInv, Working, Untouched, Replaced, Content, CurInv, AtOne
  <2>9. QED
    BY <2>1, <2>2, <2>3, <2>4, <2>5, <2>6, <2>7, <2>8
<1>6. ASSUME Start PROVE IInv'
  <2>1. TypeFiles'
    BY <1>6 DEF Start, Nothing, Content
  <2>2. TypeStart'
    BY <1>6 DEF Start, Nothing, Content, CurInv, AtOne
  <2>3. TypeHistory'
    BY <1>6 DEF Start, Nothing, Content
  <2>4. CurInv'
    BY <1>6 DEF Start, Nothing, CurInv, AtOne
  <2>5. SecuredInv'
    BY <1>6 DEF Start, Nothing, SecuredInv, BackedUp, NothingLost, Content, CurInv, AtOne
  <2>6. NothingLost'
    BY <1>6 DEF Start, Nothing, NothingLost, Content, SecuredInv, BackedUp, CurInv, AtOne
  <2>7. WorkInv'
    BY <1>6 DEF Start, Nothing, WorkInv, Working, Untouched, Replaced, Content, CurInv, AtOne
  <2>8. UndoInv'
    BY <1>6 DEF Start, Nothing, UndoInv, Undoing, WorkInv, Working, Untouched, Replaced, Content, CurInv, AtOne
  <2>9. QED
    BY <2>1, <2>2, <2>3, <2>4, <2>5, <2>6, <2>7, <2>8
<1>7. ASSUME CheckSet PROVE IInv'
  <2>1. TypeFiles'
    BY <1>7 DEF CheckSet, Proceed, Later, RaiseTo, Fault, Content
  <2>2. TypeStart'
    BY <1>7 DEF CheckSet, Proceed, Later, RaiseTo, Fault, Content, CurInv, AtOne
  <2>3. TypeHistory'
    BY <1>7 DEF CheckSet, Proceed, Later, RaiseTo, Fault, Content
  <2>4. CurInv'
    BY <1>7 DEF CheckSet, Proceed, Later, RaiseTo, Fault, CurInv, AtOne
  <2>5. SecuredInv'
    BY <1>7 DEF CheckSet, Proceed, Later, RaiseTo, Fault, SecuredInv, BackedUp, NothingLost, Content, CurInv, AtOne
  <2>6. NothingLost'
    BY <1>7 DEF CheckSet, Proceed, Later, RaiseTo, Fault, NothingLost, Content, SecuredInv, BackedUp, CurInv, AtOne
  <2>7. WorkInv'
    <3>1. CASE phase' = "validate"
      <4>1. /\ phase = "check" /\ UNCHANGED <<main, wal, pending, applied, rec, before, faults>>
            /\ cur' \in Dbs /\ pending[cur'] # None /\ \A e \in Dbs : cur < e /\ e < cur' => pending[e] = None
        BY <1>7, <3>1 DEF CheckSet, Proceed, Later, RaiseTo
      <4>2. \A d \in Dbs : (Untouched(d)' <=> Untouched(d)) /\ (Replaced(d)' <=> Replaced(d))
        BY <4>1 DEF Untouched, Replaced, Content
      <4>3. cur = 0 /\ applied = {} /\ \A d \in Dbs : Untouched(d) /\ rec[d] = None
        BY <4>1 DEF WorkInv, Working
      <4>4. \A d \in Dbs : d < cur' => before.pending[d] = None
        BY <4>1, <4>3 DEF Untouched
      <4>5. faults >= before.faults
        BY <4>1 DEF WorkInv, Working
      <4>6. QED
        BY <3>1, <4>1, <4>2, <4>3, <4>4, <4>5 DEF WorkInv, Working
    <3>2. CASE ~(phase' = "validate")
      BY <1>7, <3>2 DEF CheckSet, Proceed, RaiseTo, WorkInv, Working
    <3>3. QED
      BY <3>1, <3>2
  <2>8. UndoInv'
    <3>1. CASE phase' = "failed"
      <4>1. /\ phase = "check" /\ UNCHANGED <<main, wal, pending, cur, applied, rec, before>>
            /\ faults' = faults + 1
        BY <1>7, <3>1 DEF CheckSet, Proceed, RaiseTo, Fault
      <4>2. \A d \in Dbs : (Untouched(d)' <=> Untouched(d)) /\ (Replaced(d)' <=> Replaced(d))
        BY <4>1 DEF Untouched, Replaced, Content
      <4>3. QED
        BY <3>1, <4>1, <4>2 DEF WorkInv, Working, UndoInv, Undoing
    <3>2. CASE ~(phase' = "failed")
      BY <1>7, <3>2 DEF CheckSet, Proceed, RaiseTo, UndoInv, Undoing
    <3>3. QED
      BY <3>1, <3>2
  <2>9. QED
    BY <2>1, <2>2, <2>3, <2>4, <2>5, <2>6, <2>7, <2>8
<1>8. ASSUME ValidatePending PROVE IInv'
  <2>1. TypeFiles'
    BY <1>8 DEF ValidatePending, RaiseTo, Fault, Content
  <2>2. TypeStart'
    BY <1>8 DEF ValidatePending, RaiseTo, Fault, Content, CurInv, AtOne
  <2>3. TypeHistory'
    BY <1>8 DEF ValidatePending, RaiseTo, Fault, Content
  <2>4. CurInv'
    BY <1>8 DEF ValidatePending, RaiseTo, Fault, CurInv, AtOne
  <2>5. SecuredInv'
    BY <1>8 DEF ValidatePending, RaiseTo, Fault, SecuredInv, BackedUp, NothingLost, Content, CurInv, AtOne
  <2>6. NothingLost'
    BY <1>8 DEF ValidatePending, RaiseTo, Fault, NothingLost, Content, SecuredInv, BackedUp, CurInv, AtOne
  <2>7. WorkInv'
    <3>1. CASE phase' = "backup"
      <4>1. /\ phase = "validate" /\ UNCHANGED <<main, wal, pending, cur, applied, rec, before, faults>>
        BY <1>8, <3>1 DEF ValidatePending, RaiseTo
      <4>2. \A d \in Dbs : Untouched(d)' = Untouched(d) /\ Replaced(d)' = Replaced(d)
        BY <4>1 DEF Untouched, Replaced, Content
      <4>3. QED
        BY <3>1, <4>1, <4>2 DEF WorkInv, Working
    <3>2. CASE phase' # "backup"
      BY <1>8, <3>2 DEF ValidatePending, RaiseTo, WorkInv, Working
    <3>3. QED
      BY <3>1, <3>2
  <2>8. UndoInv'
    <3>1. CASE phase' = "undo"
      <4>1. /\ phase = "validate" /\ UNCHANGED <<main, wal, pending, cur, applied, rec, before>>
            /\ faults' = faults + 1
        BY <1>8, <3>1 DEF ValidatePending, RaiseTo, Fault
      <4>2. \A d \in Dbs : Untouched(d)' = Untouched(d) /\ Replaced(d)' = Replaced(d)
        BY <4>1 DEF Untouched, Replaced, Content
      <4>3. QED
        BY <3>1, <4>1, <4>2 DEF WorkInv, Working, UndoInv, Undoing
    <3>2. CASE phase' # "undo"
      BY <1>8, <3>2 DEF ValidatePending, RaiseTo, UndoInv, Undoing
    <3>3. QED
      BY <3>1, <3>2
  <2>9. QED
    BY <2>1, <2>2, <2>3, <2>4, <2>5, <2>6, <2>7, <2>8
<1>9. ASSUME BackUp PROVE IInv'
  <2>1. TypeFiles'
    BY <1>9 DEF BackUp, CreateRecoveryBackup, Merge, RaiseTo, Fault, Content, CurInv, AtOne
  <2>2. TypeStart'
    BY <1>9 DEF BackUp, CreateRecoveryBackup, Merge, RaiseTo, Fault, Content, CurInv, AtOne
  <2>3. TypeHistory'
    BY <1>9 DEF BackUp, CreateRecoveryBackup, Merge, RaiseTo, Fault, Content
  <2>4. CurInv'
    BY <1>9 DEF BackUp, CreateRecoveryBackup, Merge, RaiseTo, Fault, CurInv, AtOne
  <2>5. SecuredInv'
    BY <1>9 DEF BackUp, CreateRecoveryBackup, Merge, RaiseTo, Fault, SecuredInv, BackedUp, NothingLost, Content, CurInv, AtOne
  <2>6. NothingLost'
    BY <1>9 DEF BackUp, CreateRecoveryBackup, Merge, RaiseTo, Fault, NothingLost, Content, SecuredInv, BackedUp, CurInv, AtOne
  <2>7. WorkInv'
    <3>1. CASE phase' = "unlink"
      <4>1. /\ phase = "backup" /\ UNCHANGED <<pending, cur, applied, before>>
            /\ cur \in Dbs /\ cur \notin applied
            /\ \A d \in Dbs : d # cur => main'[d] = main[d] /\ wal'[d] = wal[d] /\ rec'[d] = rec[d]
            /\ faults' \in {faults, faults + 1} /\ faults >= before.faults
        BY <1>9, <3>1 DEF BackUp, CreateRecoveryBackup, Merge, Fault, RaiseTo, CurInv, AtOne, WorkInv, Working
      <4>2. \A d \in Dbs : d # cur => (Untouched(d)' <=> Untouched(d)) /\ (Replaced(d)' <=> Replaced(d))
        BY <4>1 DEF Untouched, Replaced, Content
      <4>3. Untouched(cur) /\ rec[cur] = None /\ pending[cur] # None
        BY <4>1 DEF WorkInv, Working
      <4>4. rec'[cur] = before.content[cur]
        BY <1>9, <3>1, <4>1, <4>3 DEF BackUp, CreateRecoveryBackup, RaiseTo, Untouched, Content
      <4>5. faults' = before.faults => main'[cur] = before.content[cur] /\ wal'[cur] = None
        BY <1>9, <3>1, <4>1, <4>3 DEF BackUp, Merge, Fault, RaiseTo, Untouched, Content
      <4>6. QED
        BY <3>1, <4>1, <4>2, <4>3, <4>4, <4>5 DEF WorkInv, Working, Untouched
    <3>2. CASE ~(phase' = "unlink")
      BY <1>9, <3>2 DEF BackUp, RaiseTo, WorkInv, Working
    <3>3. QED
      BY <3>1, <3>2
  <2>8. UndoInv'
    <3>1. CASE phase' = "undo"
      <4>1. /\ phase = "backup" /\ UNCHANGED <<main, wal, pending, cur, applied, rec, before>>
            /\ faults' = faults + 1
        BY <1>9, <3>1 DEF BackUp, RaiseTo, Fault
      <4>2. \A d \in Dbs : (Untouched(d)' <=> Untouched(d)) /\ (Replaced(d)' <=> Replaced(d))
        BY <4>1 DEF Untouched, Replaced, Content
      <4>3. QED
        BY <3>1, <4>1, <4>2 DEF WorkInv, Working, UndoInv, Undoing
    <3>2. CASE ~(phase' = "undo")
      BY <1>9, <3>2 DEF BackUp, RaiseTo, UndoInv, Undoing
    <3>3. QED
      BY <3>1, <3>2
  <2>9. QED
    BY <2>1, <2>2, <2>3, <2>4, <2>5, <2>6, <2>7, <2>8
<1>10. ASSUME Unlink PROVE IInv'
  <2>1. TypeFiles'
    BY <1>10 DEF Unlink, UnlinkSidecars, RaiseTo, Fault, Content, CurInv, AtOne
  <2>2. TypeStart'
    BY <1>10 DEF Unlink, UnlinkSidecars, RaiseTo, Fault, Content, CurInv, AtOne
  <2>3. TypeHistory'
    BY <1>10 DEF Unlink, UnlinkSidecars, RaiseTo, Fault, Content
  <2>4. CurInv'
    BY <1>10 DEF Unlink, UnlinkSidecars, RaiseTo, Fault, CurInv, AtOne
  <2>5. SecuredInv'
    BY <1>10 DEF Unlink, UnlinkSidecars, RaiseTo, Fault, SecuredInv, BackedUp, NothingLost, Content, CurInv, AtOne
  <2>6. NothingLost'
    BY <1>10 DEF Unlink, UnlinkSidecars, RaiseTo, Fault, NothingLost, Content, SecuredInv, BackedUp, CurInv, AtOne
  <2>7. WorkInv'
    <3>1. CASE phase' = "replace"
      <4>1. /\ phase = "unlink" /\ UNCHANGED <<main, pending, cur, applied, rec, before, faults>>
            /\ cur \in Dbs /\ wal' = [wal EXCEPT ![cur] = None]
        BY <1>10, <3>1 DEF Unlink, UnlinkSidecars, RaiseTo, CurInv, AtOne
      <4>2. \A d \in Dbs : d # cur => (Untouched(d)' <=> Untouched(d)) /\ (Replaced(d)' <=> Replaced(d))
        BY <4>1 DEF Untouched, Replaced, Content
      <4>3. QED
        BY <3>1, <4>1, <4>2 DEF WorkInv, Working
    <3>2. CASE ~(phase' = "replace")
      BY <1>10, <3>2 DEF Unlink, RaiseTo, WorkInv, Working
    <3>3. QED
      BY <3>1, <3>2
  <2>8. UndoInv'
    <3>1. CASE phase' = "undo"
      <4>1. /\ phase = "unlink" /\ UNCHANGED <<main, pending, cur, applied, rec, before>>
            /\ cur \in Dbs /\ wal' \in {wal, [wal EXCEPT ![cur] = None]} /\ faults' = faults + 1
        BY <1>10, <3>1 DEF Unlink, UnlinkSidecars, RaiseTo, Fault, CurInv, AtOne
      <4>2. \A d \in Dbs : d # cur => (Untouched(d)' <=> Untouched(d)) /\ (Replaced(d)' <=> Replaced(d))
        BY <4>1 DEF Untouched, Replaced, Content
      <4>3. faults = before.faults => Untouched(cur)'
        BY <4>1 DEF WorkInv, Working, Untouched, Content
      <4>4. QED
        BY <3>1, <4>1, <4>2, <4>3 DEF WorkInv, Working, UndoInv, Undoing
    <3>2. CASE ~(phase' = "undo")
      BY <1>10, <3>2 DEF Unlink, RaiseTo, UndoInv, Undoing
    <3>3. QED
      BY <3>1, <3>2
  <2>9. QED
    BY <2>1, <2>2, <2>3, <2>4, <2>5, <2>6, <2>7, <2>8
<1>11. ASSUME Replace PROVE IInv'
  <2>1. TypeFiles'
    BY <1>11 DEF Replace, RaiseTo, Fault, Content, CurInv, AtOne
  <2>2. TypeStart'
    BY <1>11 DEF Replace, RaiseTo, Fault, Content, CurInv, AtOne
  <2>3. TypeHistory'
    BY <1>11 DEF Replace, RaiseTo, Fault, Content
  <2>4. CurInv'
    BY <1>11 DEF Replace, RaiseTo, Fault, CurInv, AtOne
  <2>5. SecuredInv'
    BY <1>11 DEF Replace, RaiseTo, Fault, SecuredInv, BackedUp, NothingLost, Content, CurInv, AtOne
  <2>6. NothingLost'
    BY <1>11 DEF Replace, RaiseTo, Fault, NothingLost, Content, SecuredInv, BackedUp, CurInv, AtOne
  <2>7. WorkInv'
    <3>1. CASE phase' = "verify"
      <4>1. /\ phase = "replace" /\ UNCHANGED <<wal, cur, applied, rec, before, faults>>
            /\ cur \in Dbs /\ main' = [main EXCEPT ![cur] = pending[cur]]
            /\ pending' = [pending EXCEPT ![cur] = None]
        BY <1>11, <3>1 DEF Replace, RaiseTo, CurInv, AtOne
      <4>2. \A d \in Dbs : d # cur => (Untouched(d)' <=> Untouched(d)) /\ (Replaced(d)' <=> Replaced(d))
        BY <4>1 DEF Untouched, Replaced, Content
      <4>3. Replaced(cur)'
        BY <4>1 DEF WorkInv, Working, Replaced
      <4>4. QED
        BY <3>1, <4>1, <4>2, <4>3 DEF WorkInv, Working
    <3>2. CASE ~(phase' = "verify")
      BY <1>11, <3>2 DEF Replace, RaiseTo, WorkInv, Working
    <3>3. QED
      BY <3>1, <3>2
  <2>8. UndoInv'
    <3>1. CASE phase' = "undo"
      <4>1. /\ phase = "replace" /\ UNCHANGED <<main, wal, pending, cur, applied, rec, before>>
            /\ cur \in Dbs /\ faults' = faults + 1
        BY <1>11, <3>1 DEF Replace, RaiseTo, Fault, CurInv, AtOne
      <4>2. \A d \in Dbs : (Untouched(d)' <=> Untouched(d)) /\ (Replaced(d)' <=> Replaced(d))
        BY <4>1 DEF Untouched, Replaced, Content
      <4>3. faults = before.faults => Untouched(cur)
        BY <4>1 DEF WorkInv, Working, Untouched, Content
      <4>4. QED
        BY <3>1, <4>1, <4>2, <4>3 DEF WorkInv, Working, UndoInv, Undoing
    <3>2. CASE ~(phase' = "undo")
      BY <1>11, <3>2 DEF Replace, RaiseTo, UndoInv, Undoing
    <3>3. QED
      BY <3>1, <3>2
  <2>9. QED
    BY <2>1, <2>2, <2>3, <2>4, <2>5, <2>6, <2>7, <2>8
<1>12. ASSUME Verify PROVE IInv'
  <2>1. TypeFiles'
    BY <1>12 DEF Verify, Proceed, Later, RaiseTo, Fault, Content
  <2>2. TypeStart'
    BY <1>12 DEF Verify, Proceed, Later, RaiseTo, Fault, Content, CurInv, AtOne
  <2>3. TypeHistory'
    BY <1>12 DEF Verify, Proceed, Later, RaiseTo, Fault, Content
  <2>4. CurInv'
    BY <1>12 DEF Verify, Proceed, Later, RaiseTo, Fault, CurInv, AtOne
  <2>5. SecuredInv'
    BY <1>12 DEF Verify, Proceed, Later, RaiseTo, Fault, SecuredInv, BackedUp, NothingLost, Content, CurInv, AtOne
  <2>6. NothingLost'
    BY <1>12 DEF Verify, Proceed, Later, RaiseTo, Fault, NothingLost, Content, SecuredInv, BackedUp, CurInv, AtOne
  <2>7. WorkInv'
    <3>1. CASE phase' = "validate"
      <4>1. /\ phase = "verify" /\ UNCHANGED <<main, wal, pending, rec, before, faults>>
            /\ applied' = applied \cup {cur} /\ cur \in Dbs
            /\ cur' \in Dbs /\ cur' > cur /\ pending[cur'] # None
            /\ \A e \in Dbs : cur < e /\ e < cur' => pending[e] = None
        BY <1>12, <3>1 DEF Verify, Proceed, Later, RaiseTo, CurInv, AtOne
      <4>2. \A d \in Dbs : (Untouched(d)' <=> Untouched(d)) /\ (Replaced(d)' <=> Replaced(d))
        BY <4>1 DEF Untouched, Replaced, Content
      <4>3. /\ cur \notin applied /\ faults >= before.faults
            /\ \A d \in applied \cup {cur} : Replaced(d)
            /\ \A d \in Dbs \ applied : d # cur => Untouched(d) /\ rec[d] = None
            /\ \A d \in Dbs \ applied : d < cur => before.pending[d] = None
        BY <4>1 DEF WorkInv, Working
      <4>4. \A d \in Dbs \ applied' : d < cur' => before.pending[d] = None
        <5> SUFFICES ASSUME NEW d \in Dbs, d \notin applied, d # cur, d < cur' PROVE before.pending[d] = None
          BY <4>1
        <5>1. CASE d < cur
          BY <4>3, <5>1
        <5>2. CASE d > cur
          BY <4>1, <4>3, <5>2 DEF Untouched
        <5>3. QED
          BY <4>1, <5>1, <5>2
      <4>5. cur' \notin applied'
        BY <4>1, <4>3 DEF Replaced
      <4>6. QED
        BY <3>1, <4>1, <4>2, <4>3, <4>4, <4>5 DEF WorkInv, Working
    <3>2. CASE ~(phase' = "validate")
      BY <1>12, <3>2 DEF Verify, Proceed, RaiseTo, WorkInv, Working
    <3>3. QED
      BY <3>1, <3>2
  <2>8. UndoInv'
    <3>1. CASE phase' = "requeue"
      <4>1. /\ phase = "verify" /\ UNCHANGED <<main, wal, pending, cur, applied, rec, before>>
            /\ cur \in Dbs /\ faults' = faults + 1
        BY <1>12, <3>1 DEF Verify, Proceed, RaiseTo, Fault, CurInv, AtOne
      <4>2. \A d \in Dbs : (Untouched(d)' <=> Untouched(d)) /\ (Replaced(d)' <=> Replaced(d))
        BY <4>1 DEF Untouched, Replaced, Content
      <4>3. QED
        BY <3>1, <4>1, <4>2 DEF WorkInv, Working, UndoInv, Undoing
    <3>2. CASE ~(phase' = "requeue")
      BY <1>12, <3>2 DEF Verify, Proceed, RaiseTo, UndoInv, Undoing
    <3>3. QED
      BY <3>1, <3>2
  <2>9. QED
    BY <2>1, <2>2, <2>3, <2>4, <2>5, <2>6, <2>7, <2>8
<1>13. ASSUME RequeueFailed PROVE IInv'
  <2>1. TypeFiles'
    BY <1>13 DEF RequeueFailed, Requeue, RaiseTo, Fault, Content, CurInv, AtOne
  <2>2. TypeStart'
    BY <1>13 DEF RequeueFailed, Requeue, RaiseTo, Fault, Content, CurInv, AtOne
  <2>3. TypeHistory'
    BY <1>13 DEF RequeueFailed, Requeue, RaiseTo, Fault, Content
  <2>4. CurInv'
    BY <1>13 DEF RequeueFailed, Requeue, RaiseTo, Fault, CurInv, AtOne
  <2>5. SecuredInv'
    BY <1>13 DEF RequeueFailed, Requeue, RaiseTo, Fault, SecuredInv, BackedUp, NothingLost, Content, CurInv, AtOne
  <2>6. NothingLost'
    BY <1>13 DEF RequeueFailed, Requeue, RaiseTo, Fault, NothingLost, Content, SecuredInv, BackedUp, CurInv, AtOne
  <2>7. WorkInv'
    BY <1>13 DEF RequeueFailed, Requeue, RaiseTo, Fault, WorkInv, Working, Untouched, Replaced, Content, CurInv, AtOne
  <2>8. UndoInv'
    <3>1. faults > before.faults /\ before' = before /\ phase = "requeue" /\ cur \in Dbs /\ cur' = cur
      BY <1>13 DEF RequeueFailed, RaiseTo, UndoInv, Undoing, CurInv, AtOne
    <3>2. CASE faults' # faults
      BY <1>13, <3>1, <3>2 DEF RequeueFailed, RaiseTo, Fault, UndoInv, Undoing
    <3>3. CASE faults' = faults
      <4>1. /\ UNCHANGED <<wal, applied, rec>>
            /\ pending' = [pending EXCEPT ![cur] = main[cur]]
            /\ main' = [main EXCEPT ![cur] = None]
            /\ phase' = IF rec[cur] # None THEN "recover" ELSE "undo"
        BY <1>13, <3>3 DEF RequeueFailed, Requeue, RaiseTo, Fault
      <4>2. \A d \in Dbs : d # cur => (Untouched(d)' <=> Untouched(d)) /\ (Replaced(d)' <=> Replaced(d))
        BY <3>1, <4>1 DEF Untouched, Replaced, Content
      <4>3. faults = before.faults + 1 => Replaced(cur)
        BY <3>1 DEF UndoInv, Undoing
      <4>4. faults = before.faults + 1 =>
              /\ main'[cur] = None /\ wal'[cur] = None /\ pending'[cur] = before.pending[cur]
              /\ rec'[cur] = before.content[cur]
        BY <3>1, <4>1, <4>3 DEF Replaced
      <4>5. faults = before.faults + 1 /\ rec[cur] = None => Untouched(cur)'
        BY <3>1, <4>1, <4>4 DEF Untouched, Content
      <4>6. QED
        BY <3>1, <3>3, <4>1, <4>2, <4>4, <4>5 DEF UndoInv, Undoing
    <3>4. QED
      BY <3>2, <3>3
  <2>9. QED
    BY <2>1, <2>2, <2>3, <2>4, <2>5, <2>6, <2>7, <2>8
<1>14. ASSUME Recover PROVE IInv'
  <2>1. TypeFiles'
    BY <1>14 DEF Recover, RollbackFromRecovery, Fault, Content, CurInv, AtOne
  <2>2. TypeStart'
    BY <1>14 DEF Recover, RollbackFromRecovery, Fault, Content, CurInv, AtOne
  <2>3. TypeHistory'
    BY <1>14 DEF Recover, RollbackFromRecovery, Fault, Content
  <2>4. CurInv'
    BY <1>14 DEF Recover, RollbackFromRecovery, Fault, CurInv, AtOne
  <2>5. SecuredInv'
    BY <1>14 DEF Recover, RollbackFromRecovery, Fault, SecuredInv, BackedUp, NothingLost, Content, CurInv, AtOne
  <2>6. NothingLost'
    BY <1>14 DEF Recover, RollbackFromRecovery, Fault, NothingLost, Content, SecuredInv, BackedUp, CurInv, AtOne
  <2>7. WorkInv'
    BY <1>14 DEF Recover, RollbackFromRecovery, Fault, WorkInv, Working, Untouched, Replaced, Content, CurInv, AtOne
  <2>8. UndoInv'
    BY <1>14 DEF Recover, RollbackFromRecovery, Fault, UndoInv, Undoing, WorkInv, Working, Untouched, Replaced, Content, CurInv, AtOne
  <2>9. QED
    BY <2>1, <2>2, <2>3, <2>4, <2>5, <2>6, <2>7, <2>8
<1>15. ASSUME Undo PROVE IInv'
  <2>1. TypeFiles'
    BY <1>15 DEF Undo, UnlinkSidecars, Requeue, Fault, Content
  <2>2. TypeStart'
    BY <1>15 DEF Undo, UnlinkSidecars, Requeue, Fault, Content, CurInv, AtOne
  <2>3. TypeHistory'
    BY <1>15 DEF Undo, UnlinkSidecars, Requeue, Fault, Content
  <2>4. CurInv'
    BY <1>15 DEF Undo, UnlinkSidecars, Requeue, Fault, CurInv, AtOne
  <2>5. SecuredInv'
    BY <1>15 DEF Undo, UnlinkSidecars, Requeue, Fault, SecuredInv, BackedUp, NothingLost, Content, CurInv, AtOne
  <2>6. NothingLost'
    BY <1>15 DEF Undo, UnlinkSidecars, Requeue, Fault, NothingLost, Content, SecuredInv, BackedUp, CurInv, AtOne
  <2>7. WorkInv'
    BY <1>15 DEF Undo, UnlinkSidecars, Requeue, Fault, WorkInv, Working, Untouched, Replaced, Content, CurInv, AtOne
  <2>8. UndoInv'
    <3>1. faults > before.faults /\ before' = before /\ phase = "undo"
      BY <1>15 DEF Undo, UndoInv, Undoing
    <3>2. CASE faults' # faults
      BY <1>15, <3>1, <3>2 DEF Undo, Fault, UndoInv, Undoing
    <3>3. CASE faults' = faults /\ applied = {}
      <4>1. UNCHANGED <<main, wal, pending, applied, rec>> /\ phase' = "failed"
        BY <1>15, <3>3 DEF Undo
      <4>2. \A d \in Dbs : Untouched(d)' <=> Untouched(d)
        BY <3>1, <4>1 DEF Untouched, Content
      <4>3. QED
        BY <3>1, <3>3, <4>1, <4>2 DEF UndoInv, Undoing
    <3>4. CASE faults' = faults /\ applied # {}
      <4>a. ~Fault
        BY <3>4 DEF Fault, TypeHistory
      <4>b. \E d \in applied :
              /\ applied' = applied \ {d} /\ cur' = d
              /\ UnlinkSidecars(d) /\ Requeue(d)
              /\ phase' = IF rec[d] # None THEN "reinstate" ELSE "undo"
              /\ UNCHANGED rec
        BY <1>15, <3>4, <4>a, Zenon DEF Undo
      <4>1. PICK d \in applied :
              /\ applied' = applied \ {d} /\ cur' = d /\ UNCHANGED rec
              /\ wal' = [wal EXCEPT ![d] = None]
              /\ pending' = [pending EXCEPT ![d] = main[d]]
              /\ main' = [main EXCEPT ![d] = None]
              /\ phase' = IF rec[d] # None THEN "reinstate" ELSE "undo"
        BY <4>b DEF UnlinkSidecars, Requeue
      <4>2. \A e \in Dbs : e # d => (Untouched(e)' <=> Untouched(e)) /\ (Replaced(e)' <=> Replaced(e))
        BY <3>1, <4>1 DEF Untouched, Replaced, Content
      <4>3. faults = before.faults + 1 => Replaced(d)
        BY <3>1 DEF UndoInv, Undoing
      <4>4. faults = before.faults + 1 =>
              /\ main'[d] = None /\ wal'[d] = None /\ pending'[d] = before.pending[d]
              /\ rec'[d] = before.content[d]
        BY <3>1, <4>1, <4>3 DEF Replaced
      <4>5. faults = before.faults + 1 /\ rec[d] = None => Untouched(d)'
        BY <3>1, <4>1, <4>4 DEF Untouched, Content
      <4>6. QED
        BY <3>1, <3>4, <4>1, <4>2, <4>4, <4>5 DEF UndoInv, Undoing
    <3>5. QED
      BY <3>2, <3>3, <3>4
  <2>9. QED
    BY <2>1, <2>2, <2>3, <2>4, <2>5, <2>6, <2>7, <2>8
<1>16. ASSUME Reinstate PROVE IInv'
  <2>1. TypeFiles'
    BY <1>16 DEF Reinstate, RollbackFromRecovery, Fault, Content, CurInv, AtOne
  <2>2. TypeStart'
    BY <1>16 DEF Reinstate, RollbackFromRecovery, Fault, Content, CurInv, AtOne
  <2>3. TypeHistory'
    BY <1>16 DEF Reinstate, RollbackFromRecovery, Fault, Content
  <2>4. CurInv'
    BY <1>16 DEF Reinstate, RollbackFromRecovery, Fault, CurInv, AtOne
  <2>5. SecuredInv'
    BY <1>16 DEF Reinstate, RollbackFromRecovery, Fault, SecuredInv, BackedUp, NothingLost, Content, CurInv, AtOne
  <2>6. NothingLost'
    BY <1>16 DEF Reinstate, RollbackFromRecovery, Fault, NothingLost, Content, SecuredInv, BackedUp, CurInv, AtOne
  <2>7. WorkInv'
    BY <1>16 DEF Reinstate, RollbackFromRecovery, Fault, WorkInv, Working, Untouched, Replaced, Content, CurInv, AtOne
  <2>8. UndoInv'
    BY <1>16 DEF Reinstate, RollbackFromRecovery, Fault, UndoInv, Undoing, WorkInv, Working, Untouched, Replaced, Content, CurInv, AtOne
  <2>9. QED
    BY <2>1, <2>2, <2>3, <2>4, <2>5, <2>6, <2>7, <2>8
<1>17. ASSUME UNCHANGED vars PROVE IInv'
  BY <1>17 DEF vars, CurInv, AtOne, SecuredInv, BackedUp, NothingLost, WorkInv, Working, UndoInv, Undoing,
     Untouched, Replaced, Content
<1>18. QED
  BY <1>1, <1>2, <1>3, <1>4, <1>5, <1>6, <1>7, <1>8, <1>9, <1>10, <1>11, <1>12, <1>13, <1>14, <1>15, <1>16, <1>17 DEF Next, Apply

LEMMA Invariance == Spec => []IInv
BY InitInv, StepInv, PTL DEF Spec

(* Every file holds a version and every phase handles a known database.     *)
THEOREM TypeCorrect == Spec => []TypeOK
<1>1. IInv => TypeOK
  BY DEF IInv, TypeOK, TypeFiles, TypeStart, TypeHistory
<1>2. QED
  BY <1>1, Invariance, PTL

(* The latest content of a database survives every failure and crash.       *)
THEOREM ContentSurvives == Spec => []NothingLost
<1>1. IInv => NothingLost
  BY DEF IInv
<1>2. QED
  BY <1>1, Invariance, PTL

(* After one failure a start that gives up has changed nothing.             *)
THEOREM OneFailureUndone == Spec => []OneFailureChangesNothing
<1>1. IInv => OneFailureChangesNothing
  <2> SUFFICES ASSUME IInv, phase = "failed", faults <= before.faults + 1, NEW d \in Dbs
               PROVE  Content(d) = before.content[d] /\ pending[d] = before.pending[d]
    BY DEF OneFailureChangesNothing
  <2>1. faults = before.faults + 1
    BY DEF IInv, TypeHistory, UndoInv, Undoing
  <2>2. QED
    BY <2>1 DEF IInv, UndoInv, Undoing, Untouched
<1>2. QED
  BY <1>1, Invariance, PTL

(* The bot only ever starts on exactly the candidates the start has found,  *)
(* and on the unchanged content of every other database.                    *)
THEOREM CandidatesInPlace == Spec => StartsOnCandidates
<1>1. IInv /\ [Next]_vars =>
        [(phase # "running" /\ phase' = "running") =>
           \A d \in Dbs :
             Content(d)' = IF before.pending[d] # None THEN before.pending[d]
                                                       ELSE before.content[d]]_vars
  <2> SUFFICES ASSUME IInv, Next, phase # "running", phase' = "running", NEW d \in Dbs
               PROVE  Content(d)' = IF before.pending[d] # None THEN before.pending[d]
                                                                ELSE before.content[d]
    BY DEF vars
  <2>1. \/ phase = "check" /\ Proceed /\ UNCHANGED <<files, applied>>
        \/ phase = "verify" /\ applied' = applied \cup {cur} /\ Proceed /\ UNCHANGED files
    BY DEF Next, Apply, Write, Checkpoint, StageDatabaseRestore, Stop, Crash, Start, CheckSet, ValidatePending,
           BackUp, Unlink, Replace, Verify, RequeueFailed, Recover, Undo, Reinstate, RaiseTo, start
  <2>2. Content(d)' = Content(d) /\ ~\E e \in Later : pending[e] # None
    BY <2>1 DEF Proceed, Content, files
  <2>3. CASE d \in applied \/ (phase = "verify" /\ d = cur)
    BY <2>1, <2>2, <2>3 DEF IInv, WorkInv, Working, Replaced, Content, None
  <2>4. CASE ~(d \in applied \/ (phase = "verify" /\ d = cur))
    <3>1. Untouched(d)
      BY <2>1, <2>4 DEF IInv, WorkInv, Working
    <3>2. before.pending[d] = None
      <4>1. CASE d > cur
        BY <2>2, <3>1, <4>1 DEF Later, Untouched
      <4>2. CASE d < cur
        BY <2>1, <2>4, <4>2 DEF IInv, WorkInv, Working
      <4>3. CASE d = cur
        BY <2>1, <2>4, <4>3, DatabaseRestoreAssumption DEF DatabaseRestoreAssumption, IInv, WorkInv, Working
      <4>4. QED
        BY <4>1, <4>2, <4>3, DatabaseRestoreAssumption DEF DatabaseRestoreAssumption, IInv, TypeStart
    <3>3. QED
      BY <2>2, <3>1, <3>2 DEF Untouched
  <2>5. QED
    BY <2>3, <2>4
<1>2. QED
  BY <1>1, Invariance, PTL DEF Spec, StartsOnCandidates
=============================================================================
