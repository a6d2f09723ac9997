------------------------- MODULE ShadowMigrationProofs -------------------------
(***************************************************************************)
(* Proofs about ShadowMigration: its inductive invariant, and from it the  *)
(* safety invariants of the migration, for any number of processes,        *)
(* releases, writes, crashes and failures.                                 *)
(***************************************************************************)
EXTENDS ShadowMigration, TLAPS

USE DEF LegacyDb, DATABASE_SCHEMA_VERSION

(***************************************************************************)
(* A place that is neither under the lock nor past the migration relies on *)
(* nothing.                                                                *)
(***************************************************************************)
LEMMA NoReliance ==
    ASSUME NEW l, l \notin Holding, l \notin Serving
    PROVE  Relies(l)
BY DEF Relies, Holding, Recovering, Migrating, Restoring, Serving

(***************************************************************************)
(* The lock belongs to one process, and while that one works, or has an    *)
(* interrupted activation to see to, nobody is past the migration.         *)
(***************************************************************************)
LEMMA HolderIsAlone ==
    ASSUME LockInv, NEW p \in Procs, NEW q \in Procs, pc[p] \in Owning, pc[q] \in Owning
    PROVE  p = q
BY DEF LockInv

LEMMA WorkerIsAlone ==
    ASSUME IndInv, NEW p \in Procs, pc[p] \in Working \/ (pc[p] \in Holding /\ Interrupted),
           NEW q \in Procs, q # p
    PROVE  pc[q] \notin Holding /\ pc[q] \notin Serving
<1>1. pc[p] \in Owning
  BY DEF Working, Owning, Holding, Recovering
<1>2. pc[q] \notin Owning
  BY <1>1, HolderIsAlone DEF IndInv
<1>3. pc[q] \notin Serving
  BY DEF IndInv, PlacesInv, Relies, Ready, Completed, Interrupted, Activation
<1> QED BY <1>2, <1>3 DEF Owning

(***************************************************************************)
(* A process under the lock that goes on under it keeps the lock's         *)
(* invariant, and so does one that has nothing to do with the lock.        *)
(***************************************************************************)
LEMMA HolderKeepsLock ==
    ASSUME MigrationTypeOK, LockInv, NEW p \in Procs, pc[p] \in Holding,
           NEW l \in Holding, Goto(p, l), UNCHANGED lock
    PROVE  LockInv'
<1>1. l \in Owning /\ l # "stale" /\ pc[p] \in Owning
  BY DEF Owning, Holding, Recovering, Migrating, Restoring
<1>2. pc' = [pc EXCEPT ![p] = l] /\ DOMAIN pc = Procs
  BY DEF Goto, MigrationTypeOK
<1> QED BY <1>1, <1>2 DEF LockInv, MigrationTypeOK, LockFile

LEMMA OthersKeepLock ==
    ASSUME MigrationTypeOK, LockInv, NEW p \in Procs, pc[p] \notin Owning,
           NEW l, l \notin Owning, l # "stale", Goto(p, l), UNCHANGED lock
    PROVE  LockInv'
<1>1. pc' = [pc EXCEPT ![p] = l] /\ DOMAIN pc = Procs
  BY DEF Goto, MigrationTypeOK
<1> QED BY <1>1 DEF LockInv, MigrationTypeOK, LockFile

(***************************************************************************)
(* A step of a working process: what remains to show is what it relies on  *)
(* at the place it goes to.                                                *)
(***************************************************************************)
LEMMA WorkerStep ==
    ASSUME IndInv, NEW p \in Procs, pc[p] \in Working \/ (pc[p] \in Holding /\ Interrupted),
           NEW l \in Holding, Goto(p, l), UNCHANGED lock, Relies(l)'
    PROVE  LockInv' /\ PlacesInv'
<1>1. pc[p] \in Holding
  BY DEF Working, Holding, Recovering
<1>2. LockInv'
  BY <1>1, HolderKeepsLock DEF IndInv
<1>3. pc' = [pc EXCEPT ![p] = l] /\ DOMAIN pc = Procs
  BY DEF Goto, IndInv, MigrationTypeOK
<1>4. \A q \in Procs : q # p => pc'[q] \notin Holding /\ pc'[q] \notin Serving
  BY <1>3, WorkerIsAlone
<1>5. \A q \in Procs : q # p => Relies(pc[q])'
  BY <1>3, <1>4, NoReliance DEF Relies, Holding, Recovering, Migrating, Restoring, Serving
<1>6. \A q \in Procs : pc'[q] \notin Serving
  BY <1>3, <1>4 DEF Holding, Recovering, Migrating, Restoring, Serving
<1> QED BY <1>2, <1>3, <1>5, <1>6 DEF PlacesInv

-----------------------------------------------------------------------------
(***************************************************************************)
(* What SQLite reads is a database whenever there is one.                  *)
(***************************************************************************)
LEMMA ReadableType ==
    ASSUME MigrationTypeOK, WalInv
    PROVE  /\ Readable \in Database \cup {None}
           /\ Readable = None <=> database = None
           /\ database # None => Readable.schema = database.schema /\ Readable.form = database.form
           /\ wal = None => Readable = database
           /\ Content(Readable) \in Database \cup {None}
           /\ Active \in Pair
BY NoneAssumption DEF MigrationTypeOK, WalInv, Readable, Content, Active, Database, Wal, Pair, Config

LEMMA UpgradedType ==
    ASSUME NEW pair \in Pair, pair.config # None, release \in 1..MaxRelease
    PROVE  /\ Upgraded(pair) \in Pair
           /\ Upgraded(pair).config # None /\ Upgraded(pair).database # None
           /\ [Upgraded(pair) EXCEPT !.database.form = "staged"] \in Pair
           /\ [Upgraded(pair) EXCEPT !.database.form = "staged"].config = Upgraded(pair).config
           /\ [Upgraded(pair) EXCEPT !.database.form = "staged"].database
                = [Upgraded(pair).database EXCEPT !.form = "staged"]
           /\ [Upgraded(pair).database EXCEPT !.form = "staged"] \in Database
BY NoneAssumption, MigrationAssumption DEF Upgraded, Pair, Config, Database

LEMMA StagedFresh == [[Fresh EXCEPT !.form = "staged"] EXCEPT !.form = "live"] = Fresh
<1>1. Fresh \in Database /\ Fresh.form = "live"
  BY MigrationAssumption DEF Fresh, Database
<1>2. ASSUME NEW d \in Database, d.form = "live"
      PROVE  [[d EXCEPT !.form = "staged"] EXCEPT !.form = "live"] = d
  BY <1>2 DEF Database
<1> QED BY <1>1, <1>2

LEMMA StagedContent ==
    ASSUME NEW d \in Database
    PROVE  [[[d EXCEPT !.schema = 1] EXCEPT !.form = "staged"] EXCEPT !.form = "live"]
             = [[d EXCEPT !.form = "live"] EXCEPT !.schema = 1]
BY DEF Database

(***************************************************************************)
(* A new phase is all that writeJournal changes.                           *)
(***************************************************************************)
LEMMA WriteJournalEffect ==
    ASSUME journal \in Journal, NEW ph \in Staging \cup Activation \cup {"completed"},
           writeJournal(ph)
    PROVE  /\ journal' \in Journal /\ journal' # None /\ journal'.phase = ph
           /\ journal'.source = journal.source /\ journal'.candidate = journal.candidate
BY NoneAssumption DEF writeJournal, Journal

(***************************************************************************)
(* While an activation stays interrupted, with its backup and candidate,   *)
(* only the files change, and nothing is said of them in between.          *)
(***************************************************************************)
LEMMA StaysInterrupted ==
    ASSUME IndInv, Interrupted, Interrupted', journal'.source = journal.source,
           journal'.candidate = journal.candidate, saved' = saved
    PROVE  InterruptedInv' /\ SavedInv' /\ CompletedInv'
<1>1. InterruptedInv'
  BY DEF IndInv, InterruptedInv, Content, Upgraded
<1>2. SavedInv' /\ CompletedInv'
  BY DEF SavedInv, CompletedInv, Completed, Interrupted, Activation
<1> QED BY <1>1, <1>2

LEMMA InterruptedJournal ==
    ASSUME IndInv, Interrupted
    PROVE  /\ journal \in Journal /\ journal # None
           /\ journal.source \in Pair /\ journal.candidate \in Pair
           /\ journal.source.config # None /\ journal.candidate.config # None
           /\ journal.candidate.database # None
           /\ journal.candidate.database.form = "staged"
           /\ journal.candidate.database \in Database
<1>1. /\ journal \in Journal /\ journal # None
      /\ journal.source \in Pair /\ journal.candidate \in Pair
      /\ journal.source.config # None
  BY DEF IndInv, MigrationTypeOK, Interrupted, InterruptedInv
<1>2. [Upgraded(journal.source).database EXCEPT !.form = "staged"] \in Database
  BY <1>1, UpgradedType DEF IndInv, MigrationTypeOK
<1>3. journal.candidate.database = [Upgraded(journal.source).database EXCEPT !.form = "staged"]
  BY DEF IndInv, InterruptedInv
<1>4. journal.candidate.config # None
  BY DEF IndInv, InterruptedInv
<1> QED BY <1>1, <1>2, <1>3, <1>4, NoneAssumption DEF Database

(***************************************************************************)
(* A step of a working process, all parts put together; then the same for  *)
(* a step of an activation that stays interrupted.                         *)
(***************************************************************************)
LEMMA WorkerInd ==
    ASSUME IndInv, NEW p \in Procs, pc[p] \in Working \/ (pc[p] \in Holding /\ Interrupted),
           NEW l \in Holding, Goto(p, l), UNCHANGED <<release, lock, crashes>>,
           config' \in Config \cup {None}, database' \in Database \cup {None},
           wal' \in Wal \cup {None}, journal' \in Journal \cup {None}, saved' \in Pair,
           onArchive' \in [Procs -> {"decide", "release_failed"}], failures' \in 0..MaxFailures,
           WalInv', InterruptedInv', SavedInv', CompletedInv', Relies(l)'
    PROVE  IndInv'
<1>1. LockInv' /\ PlacesInv'
  BY WorkerStep
<1>2. pc' \in [Procs -> {"down"} \cup Acquiring \cup Holding \cup Serving]
  BY DEF Goto, IndInv, MigrationTypeOK
<1>3. MigrationTypeOK'
  BY <1>2 DEF IndInv, MigrationTypeOK
<1> QED BY <1>1, <1>3 DEF IndInv

LEMMA InterruptedStep ==
    ASSUME IndInv, NEW p \in Procs, pc[p] \in Working \/ pc[p] \in Holding, Interrupted,
           NEW l \in Holding, Goto(p, l), UNCHANGED <<release, lock, crashes, saved>>,
           config' \in Config \cup {None}, database' \in Database \cup {None},
           wal' \in {wal, None},
           journal' \in Journal, Interrupted', journal'.source = journal.source,
           journal'.candidate = journal.candidate,
           onArchive' \in [Procs -> {"decide", "release_failed"}], failures' \in 0..MaxFailures,
           wal' = None \/ database' = database, Relies(l)'
    PROVE  IndInv'
<1>1. InterruptedInv' /\ SavedInv' /\ CompletedInv'
  BY StaysInterrupted
<1>2. WalInv'
  BY DEF WalInv, IndInv
<1>3. wal' \in Wal \cup {None} /\ saved' \in Pair
  BY DEF IndInv, MigrationTypeOK
<1> QED BY <1>1, <1>2, <1>3, WorkerInd

(* What a step leaves unchanged keeps its type. *)
LEMMA Kept ==
    ASSUME IndInv
    PROVE  /\ config \in Config \cup {None} /\ database \in Database \cup {None}
           /\ wal \in Wal \cup {None} /\ journal \in Journal \cup {None} /\ saved \in Pair
           /\ onArchive \in [Procs -> {"decide", "release_failed"}] /\ failures \in 0..MaxFailures
           /\ release \in 1..MaxRelease
BY DEF IndInv, MigrationTypeOK

LEMMA AtPlace ==
    ASSUME IndInv, NEW p \in Procs
    PROVE  Relies(pc[p])
BY DEF IndInv, PlacesInv

-----------------------------------------------------------------------------
(* The steps of an interrupted activation. *)

LEMMA RevalidateInd ==
    ASSUME IndInv, NEW p \in Procs, Revalidate(p)
    PROVE  IndInv'
<1>1. pc[p] = "revalidate" /\ pc[p] \in Working /\ Interrupted /\ activeMatchesCandidate
  BY AtPlace DEF Revalidate, Working, Relies
<1>2. CASE CanonicalConfig
  <2>1. Goto(p, "complete") /\ writeJournal("active_validated") /\ "complete" \in Holding
    BY <1>2 DEF Revalidate, Holding, Recovering
  <2>2. /\ journal' \in Journal /\ journal' # None /\ journal'.phase = "active_validated"
        /\ journal'.source = journal.source /\ journal'.candidate = journal.candidate
    BY <1>1, <2>1, InterruptedJournal, WriteJournalEffect DEF Activation
  <2>3. UNCHANGED <<release, lock, crashes, failures, config, database, wal, onArchive, saved>>
    BY DEF Revalidate, Unlocked
  <2>4. Interrupted'
    BY <2>2 DEF Interrupted, Activation
  <2>5. Relies("complete")'
    BY <1>1, <1>2, <2>2, <2>3, <2>4 DEF Relies, activeMatchesCandidate, CanonicalConfig, Restoring, Serving
  <2> QED
    BY <1>1, <2>1, <2>2, <2>3, <2>4, <2>5, Kept, InterruptedStep
<1>3. CASE ~CanonicalConfig
  <2>1. Goto(p, "release_failed") /\ "release_failed" \in Holding
    BY <1>3 DEF Revalidate, Holding
  <2>2. UNCHANGED <<release, lock, crashes, failures, config, database, wal, journal, onArchive, saved>>
    BY <1>3 DEF Revalidate, Unlocked
  <2>3. Interrupted'
    BY <1>1, <2>2 DEF Interrupted
  <2>4. Relies("release_failed")'
    BY DEF Relies, Restoring, Serving
  <2> QED
    BY <1>1, <2>1, <2>2, <2>3, <2>4, Kept, InterruptedJournal, InterruptedStep
<1> QED BY <1>2, <1>3

LEMMA ReplaceConfigInd ==
    ASSUME IndInv, NEW p \in Procs, ReplaceConfig(p)
    PROVE  IndInv'
<1>1. pc[p] = "config" /\ pc[p] \in Working /\ Phase("activating")
      /\ journal.candidate.config.schema = release
  BY AtPlace DEF ReplaceConfig, Working, Migrating, Relies
<1>2. Interrupted
  BY <1>1 DEF Phase, Interrupted, Activation
<1>3. config' = journal.candidate.config /\ Goto(p, "sidecars") /\ "sidecars" \in Holding
      /\ UNCHANGED <<release, lock, crashes, failures, database, wal, journal, onArchive, saved>>
  BY DEF ReplaceConfig, Unlocked, Holding, Migrating
<1>4. config' \in Config /\ config' # None
  BY <1>2, <1>3, InterruptedJournal DEF Pair
<1>5. Relies("sidecars")' /\ Interrupted'
  BY <1>1, <1>2, <1>3, <1>4 DEF Relies, Phase, Restoring, Serving, Interrupted
<1> QED
  BY <1>1, <1>2, <1>3, <1>4, <1>5, Kept, InterruptedJournal, InterruptedStep

LEMMA RemoveSidecarsInd ==
    ASSUME IndInv, NEW p \in Procs, RemoveSidecars(p)
    PROVE  IndInv'
<1>1. pc[p] = "sidecars" /\ pc[p] \in Working /\ Relies("sidecars")
  BY AtPlace DEF RemoveSidecars, Working, Migrating
<1>2. Interrupted
  BY <1>1 DEF Relies, Phase, Interrupted, Activation
<1>3. wal' = None /\ Goto(p, "database") /\ "database" \in Holding
      /\ UNCHANGED <<release, lock, crashes, failures, config, database, journal, onArchive, saved>>
  BY DEF RemoveSidecars, Unlocked, Holding, Migrating
<1>4. Relies("database")' /\ Interrupted'
  BY <1>1, <1>2, <1>3 DEF Relies, Phase, Restoring, Serving, Interrupted
<1> QED
  BY <1>1, <1>2, <1>3, <1>4, Kept, InterruptedJournal, InterruptedStep

LEMMA ReplaceDatabaseInd ==
    ASSUME IndInv, NEW p \in Procs, ReplaceDatabase(p)
    PROVE  IndInv'
<1>1. pc[p] = "database" /\ pc[p] \in Working /\ Relies("database")
  BY AtPlace DEF ReplaceDatabase, Working, Migrating
<1>2. Interrupted /\ wal = None
  BY <1>1 DEF Relies, Phase, Interrupted, Activation
<1>3. database' = journal.candidate.database /\ Goto(p, "activated") /\ "activated" \in Holding
      /\ UNCHANGED <<release, lock, crashes, failures, config, wal, journal, onArchive, saved>>
  BY DEF ReplaceDatabase, Unlocked, Holding, Migrating
<1>4. Relies("activated")' /\ Interrupted'
  BY <1>1, <1>2, <1>3 DEF Relies, Phase, Restoring, Serving, Interrupted
<1> QED
  BY <1>1, <1>2, <1>3, <1>4, Kept, InterruptedJournal, InterruptedStep

LEMMA MarkActiveInd ==
    ASSUME IndInv, NEW p \in Procs, MarkActive(p)
    PROVE  IndInv'
<1>1. pc[p] = "activated" /\ pc[p] \in Working /\ Relies("activated")
  BY AtPlace DEF MarkActive, Mark, Working, Migrating
<1>2. Interrupted
  BY <1>1 DEF Relies, Phase, Interrupted, Activation
<1>3. writeJournal("active_validated") /\ Goto(p, "validate") /\ "validate" \in Holding
      /\ UNCHANGED <<release, lock, crashes, failures, config, database, wal, onArchive, saved>>
  BY DEF MarkActive, Mark, Unlocked, Holding, Migrating
<1>4. /\ journal' \in Journal /\ journal' # None /\ journal'.phase = "active_validated"
      /\ journal'.source = journal.source /\ journal'.candidate = journal.candidate
  BY <1>2, <1>3, InterruptedJournal, WriteJournalEffect DEF Activation
<1>5. Interrupted'
  BY <1>4 DEF Interrupted, Activation
<1>6. journal.candidate # None
  BY <1>2, InterruptedJournal, NoneAssumption
<1>7. Relies("validate")'
  BY <1>1, <1>3, <1>4, <1>5, <1>6 DEF Relies, Phase, Restoring, Serving, activeMatchesCandidate
<1> QED
  BY <1>1, <1>2, <1>3, <1>4, <1>5, <1>7, Kept, InterruptedStep

LEMMA RestoreConfigInd ==
    ASSUME IndInv, NEW p \in Procs, RestoreConfig(p)
    PROVE  IndInv'
<1> DEFINE l == IF journal.source.database = None /\ database = None
                THEN "archive" ELSE "restore_sidecars"
<1>1. pc[p] = "restore_config" /\ pc[p] \in Working /\ Phase("recovery_required")
  BY AtPlace DEF RestoreConfig, Working, Restoring, Relies
<1>2. Interrupted
  BY <1>1 DEF Phase, Interrupted, Activation
<1>3. config' = journal.source.config /\ Goto(p, l) /\ l \in Holding
      /\ UNCHANGED <<release, lock, crashes, failures, database, wal, journal, onArchive, saved>>
  BY DEF RestoreConfig, Unlocked, Holding, Restoring
<1>4. config' \in Config /\ config' # None
  BY <1>2, <1>3, InterruptedJournal DEF Pair
<1>5. l = "archive" => wal = None /\ database = journal.source.database
  BY DEF IndInv, WalInv
<1>6. Relies(l)' /\ Interrupted'
  BY <1>1, <1>2, <1>3, <1>5 DEF Relies, Phase, Restoring, Serving, Interrupted
<1> QED
  BY <1>1, <1>2, <1>3, <1>4, <1>6, Kept, InterruptedJournal, InterruptedStep

LEMMA RestoreSidecarsInd ==
    ASSUME IndInv, NEW p \in Procs, RestoreSidecars(p)
    PROVE  IndInv'
<1>1. pc[p] = "restore_sidecars" /\ pc[p] \in Working /\ Phase("recovery_required")
      /\ config = journal.source.config
  BY AtPlace DEF RestoreSidecars, Working, Restoring, Relies
<1>2. Interrupted
  BY <1>1 DEF Phase, Interrupted, Activation
<1>3. wal' = None /\ Goto(p, "restore_database") /\ "restore_database" \in Holding
      /\ UNCHANGED <<release, lock, crashes, failures, config, database, journal, onArchive, saved>>
  BY DEF RestoreSidecars, Unlocked, Holding, Restoring
<1>4. Relies("restore_database")' /\ Interrupted'
  BY <1>1, <1>2, <1>3 DEF Relies, Phase, Restoring, Serving, Interrupted
<1> QED
  BY <1>1, <1>2, <1>3, <1>4, Kept, InterruptedJournal, InterruptedStep

LEMMA RestoreDatabaseInd ==
    ASSUME IndInv, NEW p \in Procs, RestoreDatabase(p)
    PROVE  IndInv'
<1>1. pc[p] = "restore_database" /\ pc[p] \in Working /\ Phase("recovery_required")
      /\ config = journal.source.config /\ wal = None
  BY AtPlace DEF RestoreDatabase, Working, Restoring, Relies
<1>2. Interrupted
  BY <1>1 DEF Phase, Interrupted, Activation
<1>3. database' = journal.source.database /\ Goto(p, "archive") /\ "archive" \in Holding
      /\ UNCHANGED <<release, lock, crashes, failures, config, wal, journal, onArchive, saved>>
  BY DEF RestoreDatabase, Unlocked, Holding, Restoring
<1>4. database' \in Database \cup {None}
  BY <1>2, <1>3, InterruptedJournal DEF Pair
<1>5. Relies("archive")' /\ Interrupted'
  BY <1>1, <1>2, <1>3 DEF Relies, Phase, Restoring, Serving, Interrupted
<1> QED
  BY <1>1, <1>2, <1>3, <1>4, <1>5, Kept, InterruptedJournal, InterruptedStep

LEMMA ArchiveJournalInd ==
    ASSUME IndInv, NEW p \in Procs, ArchiveJournal(p)
    PROVE  IndInv'
<1>1. pc[p] = "archive" /\ pc[p] \in Working /\ Phase("recovery_required")
      /\ config = journal.source.config /\ database = journal.source.database /\ wal = None
  BY AtPlace DEF ArchiveJournal, Working, Restoring, Relies
<1>2. Interrupted
  BY <1>1 DEF Phase, Interrupted, Activation
<1>3. journal' = None /\ Goto(p, onArchive[p])
      /\ UNCHANGED <<release, lock, crashes, failures, config, database, wal, onArchive, saved>>
  BY DEF ArchiveJournal, Unlocked
<1>4. onArchive[p] \in {"decide", "release_failed"} /\ onArchive[p] \in Holding
  BY Kept DEF Holding, Recovering
<1>5. config = saved.config /\ Content(database) = saved.database
  BY <1>1, <1>2 DEF IndInv, InterruptedInv
<1>6. Active' = saved'
  <2>1. Readable' = database
    BY <1>1, <1>3 DEF Readable
  <2>2. saved = [config |-> saved.config, database |-> saved.database]
    BY Kept DEF Pair
  <2> QED BY <1>3, <1>5, <2>1, <2>2 DEF Active, Content
<1>7. InterruptedInv' /\ SavedInv' /\ CompletedInv' /\ WalInv'
  BY <1>1, <1>3, <1>6 DEF InterruptedInv, SavedInv, CompletedInv, WalInv, Interrupted, Completed
<1>8. Relies(onArchive[p])'
  BY <1>3, <1>4 DEF Relies, Restoring, Serving
<1> QED
  BY <1>1, <1>3, <1>4, <1>7, <1>8, Kept, WorkerInd

(***************************************************************************)
(* Both files are the candidate: what was saved, in the new schemas.       *)
(***************************************************************************)
LEMMA CompleteInd ==
    ASSUME IndInv, NEW p \in Procs, Complete(p)
    PROVE  IndInv'
<1>1. /\ pc[p] \in {"complete", "validate"} /\ pc[p] \in Working
      /\ Interrupted /\ activeMatchesCandidate
  BY AtPlace DEF Complete, Working, Relies, Migrating
<1>2. config # None /\ config.schema = release
  BY <1>1, AtPlace, InterruptedJournal DEF Relies, activeMatchesCandidate, CanonicalConfig
<1>3. writeJournal("completed") /\ saved' = Upgraded(saved) /\ Goto(p, "release_ok")
      /\ "release_ok" \in Holding
      /\ UNCHANGED <<release, lock, crashes, failures, config, database, wal, onArchive>>
  BY DEF Complete, Unlocked, Holding
<1>4. /\ journal' \in Journal /\ journal' # None /\ journal'.phase = "completed"
      /\ journal'.source = journal.source /\ journal'.candidate = journal.candidate
  BY <1>1, <1>3, InterruptedJournal, WriteJournalEffect
<1>5. /\ database = [Upgraded(journal.source).database EXCEPT !.form = "staged"]
      /\ database # None /\ database \in Database /\ database.form = "staged"
  BY <1>1, InterruptedJournal DEF activeMatchesCandidate, IndInv, InterruptedInv
<1>6. wal = None /\ Readable = database
  BY <1>5 DEF IndInv, WalInv, Readable
<1>7. config = [saved.config EXCEPT !.schema = release] /\ saved.config # None
  BY <1>1, <1>2, InterruptedJournal DEF activeMatchesCandidate, IndInv, InterruptedInv
<1>8. saved' \in Pair
  BY <1>3, <1>7, Kept, UpgradedType
<1>9. Content(database) = Upgraded(saved).database
  <2>1. journal.source \in Pair /\ saved.database = Content(journal.source.database)
    BY <1>1, InterruptedJournal DEF IndInv, InterruptedInv
  <2>2. CASE journal.source.database = None
    <3>1. saved.database = None
      BY <2>1, <2>2 DEF Content
    <3>2. Upgraded(saved).database = Fresh
      BY <3>1 DEF Upgraded, Fresh
    <3>3. Upgraded(journal.source).database = Fresh
      BY <2>2 DEF Upgraded, Fresh
    <3>4. Content(database) = [database EXCEPT !.form = "live"]
      BY <1>5 DEF Content
    <3>5. [[Fresh EXCEPT !.form = "staged"] EXCEPT !.form = "live"] = Fresh
      BY StagedFresh
    <3>6. database = [Fresh EXCEPT !.form = "staged"]
      BY <1>5, <3>3
    <3>7. Content(database) = Fresh
      BY <3>4, <3>5, <3>6
    <3> QED BY <3>2, <3>7
  <2>3. CASE journal.source.database # None
    <3>1. journal.source.database \in Database
      BY <2>1, <2>3 DEF Pair
    <3>2. saved.database = [journal.source.database EXCEPT !.form = "live"] /\ saved.database # None
      BY <2>1, <2>3, <3>1, NoneAssumption DEF Content, Database
    <3>3. Upgraded(saved).database = [saved.database EXCEPT !.schema = DATABASE_SCHEMA_VERSION]
      BY <3>2 DEF Upgraded
    <3>4. Upgraded(journal.source).database
            = [journal.source.database EXCEPT !.schema = DATABASE_SCHEMA_VERSION]
      BY <2>3 DEF Upgraded
    <3>5. Content(database) = [database EXCEPT !.form = "live"]
      BY <1>5 DEF Content
    <3> QED BY <1>5, <3>1, <3>2, <3>3, <3>4, <3>5, StagedContent
  <2> QED BY <2>2, <2>3
<1>10. Active' = saved'
  <2>1. Readable' = database
    BY <1>3, <1>6 DEF Readable
  <2>2. Active' = [config |-> config, database |-> Content(database)]
    BY <1>3, <2>1 DEF Active, Content
  <2> QED BY <1>3, <1>7, <1>9, <2>2 DEF Upgraded
<1>11. InterruptedInv' /\ SavedInv' /\ CompletedInv' /\ WalInv'
  BY <1>1, <1>3, <1>4, <1>6, <1>10, InterruptedJournal
  DEF InterruptedInv, SavedInv, CompletedInv, WalInv, Interrupted, Completed, Activation
<1>12. database.schema = DATABASE_SCHEMA_VERSION
  <2>1. Upgraded(journal.source).database \in Database
        /\ Upgraded(journal.source).database.schema = DATABASE_SCHEMA_VERSION
    BY <1>1, InterruptedJournal, Kept, UpgradedType, NoneAssumption DEF Upgraded, Pair, Database
  <2> QED BY <1>5, <2>1 DEF Database
<1>13. Relies("release_ok")'
  BY <1>2, <1>3, <1>4, <1>5, <1>12
  DEF Relies, Restoring, Serving, Ready, Completed, Missing, CanonicalConfig, CanonicalDatabase
<1> QED
  BY <1>1, <1>3, <1>4, <1>8, <1>11, <1>13, Kept, WorkerInd

-----------------------------------------------------------------------------
(***************************************************************************)
(* Before the activation only the journal changes.                         *)
(***************************************************************************)
LEMMA StagingStep ==
    ASSUME IndInv, NEW p \in Procs, pc[p] \in Working, ~Interrupted,
           NEW l \in Holding, Goto(p, l),
           UNCHANGED <<release, lock, crashes, config, database, wal, saved>>,
           journal' \in Journal \cup {None}, ~Interrupted', ~Completed',
           onArchive' \in [Procs -> {"decide", "release_failed"}], failures' \in 0..MaxFailures,
           Relies(l)'
    PROVE  IndInv'
<1>1. Active' = saved'
  BY DEF IndInv, SavedInv, Active, Content, Readable
<1>2. InterruptedInv' /\ SavedInv' /\ CompletedInv' /\ WalInv'
  BY <1>1 DEF InterruptedInv, SavedInv, CompletedInv, WalInv, IndInv
<1> QED BY <1>2, Kept, WorkerInd

LEMMA SupersedeInd ==
    ASSUME IndInv, NEW p \in Procs, Supersede(p)
    PROVE  IndInv'
<1>1. pc[p] = "supersede" /\ pc[p] \in Working /\ Completed /\ config # None
  BY AtPlace DEF Supersede, Working, Relies
<1>2. journal' = None /\ Goto(p, "begin") /\ "begin" \in Holding
      /\ UNCHANGED <<release, lock, crashes, failures, config, database, wal, onArchive, saved>>
  BY DEF Supersede, Unlocked, Holding, Migrating
<1>3. ~Interrupted /\ ~Interrupted' /\ ~Completed'
  BY <1>1, <1>2 DEF Interrupted, Completed, Activation
<1>4. Relies("begin")'
  BY <1>1, <1>2 DEF Relies, Restoring, Serving
<1> QED BY <1>1, <1>2, <1>3, <1>4, Kept, StagingStep

LEMMA BeginInd ==
    ASSUME IndInv, NEW p \in Procs, Begin(p)
    PROVE  IndInv'
<1>1. pc[p] = "begin" /\ pc[p] \in Working /\ journal = None /\ config # None
  BY AtPlace DEF Begin, Working, Migrating, Relies
<1>2. /\ journal' = [phase |-> "prepared", source |-> None, candidate |-> None]
      /\ Goto(p, "backup") /\ "backup" \in Holding
      /\ UNCHANGED <<release, lock, crashes, failures, config, database, wal, onArchive, saved>>
  BY DEF Begin, Unlocked, Holding, Migrating
<1>3. journal' \in Journal /\ journal' # None /\ journal'.phase = "prepared"
  BY <1>2, NoneAssumption DEF Journal, Staging
<1>4. ~Interrupted /\ ~Interrupted' /\ ~Completed'
  BY <1>1, <1>3 DEF Interrupted, Completed, Activation
<1>5. Relies("backup")'
  BY <1>1, <1>2, <1>3 DEF Relies, Phase, Restoring, Serving
<1> QED BY <1>1, <1>2, <1>3, <1>4, <1>5, Kept, StagingStep

LEMMA BackUpInd ==
    ASSUME IndInv, NEW p \in Procs, BackUp(p)
    PROVE  IndInv'
<1> DEFINE copy == [config |-> config,
                    database |-> IF database = None THEN None
                                 ELSE [Readable EXCEPT !.form = "snapshot"]]
<1>1. pc[p] = "backup" /\ pc[p] \in Working /\ Phase("prepared") /\ config # None
  BY AtPlace DEF BackUp, Working, Migrating, Relies
<1>2. /\ journal' = [journal EXCEPT !.phase = "backup_verified", !.source = copy]
      /\ Goto(p, "stage") /\ "stage" \in Holding
      /\ UNCHANGED <<release, lock, crashes, failures, config, database, wal, onArchive, saved>>
  BY DEF BackUp, Unlocked, Holding, Migrating
<1>3. journal \in Journal
  BY <1>1, Kept DEF Phase
<1>4. /\ copy \in Pair /\ copy.config = config
      /\ Content(copy.database) = Content(Readable)
  <2>1. CASE database = None
    BY <2>1, Kept, ReadableType DEF IndInv, Pair, Content
  <2>2. CASE database # None
    <3>1. Readable \in Database /\ Readable # None
      BY <2>2, ReadableType DEF IndInv
    <3>2. [Readable EXCEPT !.form = "snapshot"] \in Database
          /\ [[Readable EXCEPT !.form = "snapshot"] EXCEPT !.form = "live"]
               = [Readable EXCEPT !.form = "live"]
      BY <3>1 DEF Database
    <3> QED BY <2>2, <3>1, <3>2, Kept, NoneAssumption DEF Pair, Content
  <2> QED BY <2>1, <2>2
<1>5. journal' \in Journal /\ journal' # None
      /\ journal'.phase = "backup_verified" /\ journal'.source = copy
  BY <1>2, <1>3, <1>4, NoneAssumption DEF Journal, Staging
<1>6. ~Interrupted /\ ~Interrupted' /\ ~Completed'
  BY <1>1, <1>5 DEF Phase, Interrupted, Completed, Activation
<1>7. Copied'
  <2>1. Content(Readable)' = Content(Readable) /\ Content(copy.database)' = Content(copy.database)
    BY <1>2 DEF Content, Readable
  <2> QED BY <1>1, <1>2, <1>4, <1>5, <2>1 DEF Copied, Content
<1>8. Relies("stage")'
  BY <1>5, <1>7 DEF Relies, Phase, Restoring, Serving
<1> QED BY <1>1, <1>2, <1>5, <1>6, <1>8, Kept, StagingStep

(* A new phase, or a candidate: the backup stays what it is. *)
LEMMA StaysCopied ==
    ASSUME Copied, journal'.source = journal.source, UNCHANGED <<config, database, wal>>
    PROVE  Copied'
BY DEF Copied, Content, Readable

LEMMA StageInd ==
    ASSUME IndInv, NEW p \in Procs, Stage(p)
    PROVE  IndInv'
<1> DEFINE made == [Upgraded(journal.source) EXCEPT !.database.form = "staged"]
<1>1. pc[p] = "stage" /\ pc[p] \in Working /\ Phase("backup_verified") /\ Copied
  BY AtPlace DEF Stage, Working, Migrating, Relies
<1>2. /\ journal' = [journal EXCEPT !.phase = "staged", !.candidate = made]
      /\ Goto(p, "staged") /\ "staged" \in Holding
      /\ UNCHANGED <<release, lock, crashes, failures, config, database, wal, onArchive, saved>>
  BY DEF Stage, Unlocked, Holding, Migrating
<1>3. journal \in Journal /\ made \in Pair
  BY <1>1, Kept, UpgradedType DEF Phase, Copied
<1>4. /\ journal' \in Journal /\ journal' # None /\ journal'.phase = "staged"
      /\ journal'.source = journal.source /\ journal'.candidate = made
  <2> HIDE DEF made
  <2> QED BY <1>2, <1>3, NoneAssumption DEF Journal, Staging
<1>5. ~Interrupted /\ ~Interrupted' /\ ~Completed'
  BY <1>1, <1>4 DEF Phase, Interrupted, Completed, Activation
<1>6. Staged'
  BY <1>2, <1>3, <1>4 DEF Staged, Upgraded
<1>7. Relies("staged")'
  BY <1>1, <1>2, <1>4, <1>6, StaysCopied DEF Relies, Phase, Restoring, Serving
<1> QED BY <1>1, <1>2, <1>4, <1>5, <1>7, Kept, StagingStep

LEMMA MarkStagedInd ==
    ASSUME IndInv, NEW p \in Procs, MarkStaged(p)
    PROVE  IndInv'
<1>1. pc[p] = "staged" /\ pc[p] \in Working /\ Phase("staged") /\ Copied /\ Staged
  BY AtPlace DEF MarkStaged, Mark, Working, Migrating, Relies
<1>2. /\ writeJournal("staged_validated") /\ Goto(p, "activate") /\ "activate" \in Holding
      /\ UNCHANGED <<release, lock, crashes, failures, config, database, wal, onArchive, saved>>
  BY DEF MarkStaged, Mark, Unlocked, Holding, Migrating
<1>3. /\ journal' \in Journal /\ journal' # None /\ journal'.phase = "staged_validated"
      /\ journal'.source = journal.source /\ journal'.candidate = journal.candidate
  BY <1>1, <1>2, Kept, WriteJournalEffect DEF Phase, Staging
<1>4. ~Interrupted /\ ~Interrupted' /\ ~Completed'
  BY <1>1, <1>3 DEF Phase, Interrupted, Completed, Activation
<1>5. Staged'
  BY <1>1, <1>2, <1>3 DEF Staged, Upgraded
<1>6. Relies("activate")'
  BY <1>1, <1>2, <1>3, <1>5, StaysCopied DEF Relies, Phase, Restoring, Serving
<1> QED BY <1>1, <1>2, <1>3, <1>4, <1>6, Kept, StagingStep

(***************************************************************************)
(* From here on the backup is what was saved.                              *)
(***************************************************************************)
LEMMA ActivateInd ==
    ASSUME IndInv, NEW p \in Procs, Activate(p)
    PROVE  IndInv'
<1>1. /\ pc[p] = "activate" /\ pc[p] \in Working
      /\ Phase("staged_validated") /\ Copied /\ Staged
  BY AtPlace DEF Activate, Mark, Working, Migrating, Relies
<1>2. /\ writeJournal("activating") /\ Goto(p, "config") /\ "config" \in Holding
      /\ UNCHANGED <<release, lock, crashes, failures, config, database, wal, onArchive, saved>>
  BY DEF Activate, Mark, Unlocked, Holding, Migrating
<1>3. /\ journal' \in Journal /\ journal' # None /\ journal'.phase = "activating"
      /\ journal'.source = journal.source /\ journal'.candidate = journal.candidate
  BY <1>1, <1>2, Kept, WriteJournalEffect DEF Phase, Activation
<1>4. ~Interrupted
  BY <1>1 DEF Phase, Interrupted, Activation
<1>5. journal.source.config = saved.config /\ Content(journal.source.database) = saved.database
  BY <1>1, <1>4 DEF IndInv, SavedInv, Active, Copied
<1>6. /\ journal.source \in Pair /\ journal.candidate \in Pair /\ journal.source.config # None
      /\ journal.candidate.config = Upgraded(journal.source).config
      /\ journal.candidate.config # None
      /\ journal.candidate.database = [Upgraded(journal.source).database EXCEPT !.form = "staged"]
  BY <1>1, Kept, UpgradedType DEF Copied, Staged
<1>7. /\ journal.candidate.config.schema = release
      /\ journal.candidate.config =
           [journal.source.config EXCEPT !.schema = journal.candidate.config.schema]
  <2>1. journal.source.config \in Config
    BY <1>6 DEF Pair
  <2> QED BY <1>6, <2>1 DEF Upgraded, Config
<1>8. InterruptedInv'
  BY <1>2, <1>3, <1>5, <1>6, <1>7 DEF InterruptedInv, Upgraded, Content
<1>9. SavedInv' /\ CompletedInv' /\ WalInv'
  BY <1>2, <1>3 DEF IndInv, SavedInv, CompletedInv, WalInv, Interrupted, Completed, Activation
<1>10. Relies("config")'
  BY <1>1, <1>2, <1>3, <1>7 DEF Relies, Copied, Phase, Restoring, Serving
<1> QED BY <1>1, <1>2, <1>3, <1>8, <1>9, <1>10, Kept, WorkerInd

-----------------------------------------------------------------------------
(***************************************************************************)
(* A step that leaves the files and the journal alone: only what is relied *)
(* on where it goes, and who is past the migration, remain to show.        *)
(***************************************************************************)
LEMMA PlaceStep ==
    ASSUME IndInv, NEW p \in Procs,
           NEW l \in {"down"} \cup Acquiring \cup Holding \cup Serving, Goto(p, l),
           UNCHANGED <<release, config, database, wal, journal, onArchive, saved>>,
           lock' \in LockFile \cup {None}, LockInv',
           crashes' \in 0..MaxCrashes, failures' \in 0..MaxFailures,
           Relies(l),
           l \in Serving => \A q \in Procs : q # p => pc[q] \notin Working,
           l \in Working => \A q \in Procs : q # p => pc[q] \notin Serving
    PROVE  IndInv'
<1>1. pc' = [pc EXCEPT ![p] = l] /\ DOMAIN pc = Procs
  BY DEF Goto, IndInv, MigrationTypeOK
<1>2. MigrationTypeOK'
  BY <1>1 DEF IndInv, MigrationTypeOK
<1>3. WalInv' /\ InterruptedInv' /\ SavedInv' /\ CompletedInv'
  BY DEF IndInv, WalInv, InterruptedInv, SavedInv, CompletedInv, Interrupted, Completed,
         Active, Readable, Content, Upgraded
<1>4. ASSUME NEW q \in Procs PROVE Relies(pc[q])'
  <2>1. Relies(pc'[q])
    BY <1>1, AtPlace
  <2> QED
    BY <2>1 DEF Relies, Phase, Copied, Staged, Completed, Interrupted, activeMatchesCandidate,
         CanonicalConfig, CanonicalDatabase, Ready, Missing, Readable, Content, Upgraded
<1>5. \A q, r \in Procs : pc'[q] \in Serving => pc'[r] \notin Working
  <2>1. ~(l \in Serving /\ l \in Working)
    BY DEF Serving, Working, Migrating, Restoring
  <2> QED BY <1>1, <2>1 DEF IndInv, PlacesInv
<1> QED BY <1>2, <1>3, <1>4, <1>5 DEF IndInv, PlacesInv

-----------------------------------------------------------------------------
(* The lock protocol. *)

LEMMA BootInd ==
    ASSUME IndInv, NEW p \in Procs, Boot(p)
    PROVE  IndInv'
<1> DEFINE l == IF config = None /\ database = None /\ journal = None
                THEN "init_config" ELSE "acquire"
<1>1. /\ pc[p] = "down" /\ Goto(p, l)
      /\ UNCHANGED <<release, config, database, wal, journal, onArchive, saved, lock, crashes, failures>>
  BY DEF Boot, disk
<1>2. LockInv'
  BY <1>1, OthersKeepLock
  DEF IndInv, Owning, Holding, Recovering, Migrating, Restoring
<1>3. Relies(l)
  BY DEF Relies, Ready, Restoring, Serving
<1>4. l \in Serving => \A q \in Procs : pc[q] \notin Working
  <2>1. ASSUME l \in Serving, NEW q \in Procs, pc[q] \in Working PROVE FALSE
    <3>1. config = None /\ journal = None
      BY <2>1 DEF Serving
    <3>2. Relies(pc[q])
      BY AtPlace
    <3> QED
      BY <2>1, <3>1, <3>2
      DEF Relies, Working, Migrating, Restoring, Phase, Completed, Interrupted
  <2> QED BY <2>1
<1>5. l \notin Working /\ l \in {"down"} \cup Acquiring \cup Holding \cup Serving
  BY DEF Working, Migrating, Restoring, Acquiring, Serving
<1> HIDE DEF l
<1> QED BY <1>1, <1>2, <1>3, <1>4, <1>5, PlaceStep DEF IndInv, MigrationTypeOK

(* A place of the lock protocol relies on nothing, and is not work. *)
LEMMA LockPlace ==
    ASSUME NEW l \in {"down", "recover", "release_failed"} \cup Acquiring
    PROVE  /\ Relies(l) /\ l \notin Serving /\ l \notin Working
           /\ l \in {"down"} \cup Acquiring \cup Holding \cup Serving
BY DEF Relies, Acquiring, Holding, Recovering, Migrating, Restoring, Serving, Working

LEMMA CreateLockInd ==
    ASSUME IndInv, NEW p \in Procs, CreateLock(p)
    PROVE  IndInv'
<1>1. /\ lock = None /\ lock' = NewLock(p) /\ Goto(p, "write_pid")
      /\ UNCHANGED <<release, config, database, wal, journal, onArchive, saved, crashes, failures>>
  BY DEF CreateLock
<1>2. pc' = [pc EXCEPT ![p] = "write_pid"] /\ DOMAIN pc = Procs
  BY <1>1 DEF Goto, IndInv, MigrationTypeOK
<1>3. lock' \in LockFile /\ lock' # None /\ lock'.creator = p /\ ~lock'.dead
      /\ ~lock'.old /\ lock'.pid = None
  <2>1. NewLock(p) \in LockFile
    BY DEF NewLock, LockFile
  <2>2. /\ NewLock(p).creator = p /\ NewLock(p).pid = None
        /\ NewLock(p).dead = FALSE /\ NewLock(p).old = FALSE
    BY DEF NewLock
  <2> QED BY <1>1, <2>1, <2>2, NoneAssumption
<1>4. \A q \in Procs : pc[q] \notin Owning /\ pc[q] # "stale"
  BY <1>1 DEF IndInv, LockInv
<1>5. LockInv'
  BY <1>2, <1>3, <1>4 DEF LockInv, Owning
<1> QED BY <1>1, <1>3, <1>5, LockPlace, PlaceStep DEF Acquiring, IndInv, MigrationTypeOK

LEMMA LockRefusedInd ==
    ASSUME IndInv, NEW p \in Procs, LockRefused(p)
    PROVE  IndInv'
<1>1. /\ pc[p] \in {"create", "acquire"} /\ Goto(p, "down")
      /\ UNCHANGED <<release, config, database, wal, journal, onArchive, saved, lock, crashes, failures>>
  BY DEF LockRefused, disk
<1>2. LockInv'
  BY <1>1, OthersKeepLock DEF IndInv, Owning, Holding, Recovering, Migrating, Restoring
<1> QED BY <1>1, <1>2, LockPlace, PlaceStep DEF Acquiring, IndInv, MigrationTypeOK

(***************************************************************************)
(* A lock that is found stale is that of a dead process, which is what the *)
(* probe of the pid and the age of a lock without one stand for.           *)
(***************************************************************************)
LEMMA FindStaleLockInd ==
    ASSUME IndInv, NEW p \in Procs, FindStaleLock(p), ~TakeoversOverlap
    PROVE  IndInv'
<1>1. /\ pc[p] = "acquire" /\ lock # None /\ LockIsStale /\ Goto(p, "stale")
      /\ \A q \in Procs : pc[q] # "stale"
      /\ UNCHANGED <<release, config, database, wal, journal, onArchive, saved, lock, crashes, failures>>
  BY DEF FindStaleLock, disk
<1>2. lock.dead
  BY <1>1 DEF LockIsStale, HolderAlive, IndInv, LockInv, MigrationTypeOK, LockFile,
              Owning, Holding, Recovering, Migrating, Restoring
<1>3. pc' = [pc EXCEPT ![p] = "stale"] /\ DOMAIN pc = Procs
  BY <1>1 DEF Goto, IndInv, MigrationTypeOK
<1>4. LockInv'
  BY <1>1, <1>2, <1>3 DEF IndInv, LockInv, Owning, Holding, Recovering, Migrating, Restoring
<1> QED BY <1>1, <1>4, LockPlace, PlaceStep DEF Acquiring, IndInv, MigrationTypeOK

LEMMA MoveStaleLockInd ==
    ASSUME IndInv, NEW p \in Procs, MoveStaleLock(p), ~TakeoversOverlap
    PROVE  IndInv'
<1>1. pc[p] = "stale" /\ lock # None /\ lock.dead
  BY DEF MoveStaleLock, IndInv, LockInv
<1>2. /\ lock' = None /\ Goto(p, "create")
      /\ UNCHANGED <<release, config, database, wal, journal, onArchive, saved, crashes, failures>>
  BY <1>1 DEF MoveStaleLock
<1>3. pc' = [pc EXCEPT ![p] = "create"] /\ DOMAIN pc = Procs
  BY <1>2 DEF Goto, IndInv, MigrationTypeOK
<1>4. \A q \in Procs : pc[q] \notin Owning /\ (pc[q] = "stale" => q = p)
  BY <1>1 DEF IndInv, LockInv
<1>5. LockInv'
  BY <1>2, <1>3, <1>4 DEF LockInv, Owning, Holding, Recovering, Migrating, Restoring
<1> QED BY <1>2, <1>5, LockPlace, PlaceStep DEF Acquiring, IndInv, MigrationTypeOK

LEMMA WritePidInd ==
    ASSUME IndInv, NEW p \in Procs, WritePid(p)
    PROVE  IndInv'
<1>1. pc[p] = "write_pid" /\ lock \in LockFile /\ lock # None /\ lock.creator = p /\ ~lock.dead
  BY DEF WritePid, Owning, IndInv, LockInv, MigrationTypeOK
<1>2. /\ lock' = [lock EXCEPT !.pid = p] /\ Goto(p, "recover")
      /\ UNCHANGED <<release, config, database, wal, journal, onArchive, saved, crashes, failures>>
  BY <1>1 DEF WritePid
<1>3. pc' = [pc EXCEPT ![p] = "recover"] /\ DOMAIN pc = Procs
  BY <1>2 DEF Goto, IndInv, MigrationTypeOK
<1>4. /\ lock' \in LockFile /\ lock' # None /\ lock'.creator = p /\ lock'.pid = p
      /\ ~lock'.dead /\ lock'.old = lock.old
  BY <1>1, <1>2, NoneAssumption DEF LockFile
<1>5. "recover" \in Owning /\ "recover" # "stale"
  BY DEF Owning, Holding, Recovering
<1>6. LockInv'
  BY <1>1, <1>3, <1>4, <1>5 DEF IndInv, LockInv
<1> QED BY <1>2, <1>4, <1>6, LockPlace, PlaceStep DEF IndInv, MigrationTypeOK

LEMMA ReleaseInd ==
    ASSUME IndInv, NEW p \in Procs, Release(p)
    PROVE  IndInv'
<1> DEFINE l == IF pc[p] = "release_ok" THEN "init_config" ELSE "down"
<1>1. /\ pc[p] \in {"release_ok", "release_failed"} /\ lock' = None /\ Goto(p, l)
      /\ UNCHANGED <<release, config, database, wal, journal, onArchive, saved, crashes, failures>>
  BY DEF Release
<1>2. pc' = [pc EXCEPT ![p] = l] /\ DOMAIN pc = Procs
  BY <1>1 DEF Goto, IndInv, MigrationTypeOK
<1>3. pc[p] \in Owning
  BY <1>1 DEF Owning, Holding
<1>4. \A q \in Procs : pc[q] # "stale" /\ (q # p => pc[q] \notin Owning)
  BY <1>3 DEF IndInv, LockInv
<1>5. l \notin Owning /\ l # "stale" /\ l \notin Working
      /\ l \in {"down"} \cup Acquiring \cup Holding \cup Serving
  BY DEF Owning, Holding, Recovering, Migrating, Restoring, Serving, Working
<1>6. LockInv'
  BY <1>1, <1>2, <1>4, <1>5 DEF LockInv
<1>7. Relies(l)
  BY <1>1, AtPlace DEF Relies, Restoring, Serving
<1>8. \A q \in Procs : q # p => pc[q] \notin Working
  BY <1>4 DEF Owning, Holding, Recovering, Working
<1> HIDE DEF l
<1> QED BY <1>1, <1>5, <1>6, <1>7, <1>8, PlaceStep DEF IndInv, MigrationTypeOK

LEMMA CrashInd ==
    ASSUME IndInv, NEW p \in Procs, CrashAt(p)
    PROVE  IndInv'
<1>1. /\ crashes < MaxCrashes /\ crashes' = crashes + 1 /\ Goto(p, "down")
      /\ lock' = IF lock # None /\ lock.creator = p THEN [lock EXCEPT !.dead = TRUE] ELSE lock
      /\ UNCHANGED <<release, config, database, wal, journal, onArchive, saved, failures>>
  BY DEF CrashAt
<1>2. pc' = [pc EXCEPT ![p] = "down"] /\ DOMAIN pc = Procs
  BY <1>1 DEF Goto, IndInv, MigrationTypeOK
<1>3. crashes' \in 0..MaxCrashes
  BY <1>1, MigrationAssumption DEF IndInv, MigrationTypeOK
<1>4. "down" \notin Owning
  BY DEF Owning, Holding, Recovering, Migrating, Restoring
<1>5. CASE lock # None /\ lock.creator = p
  <2>1. /\ lock' \in LockFile /\ lock' # None /\ lock'.creator = p /\ lock'.dead
        /\ lock'.pid = lock.pid
    BY <1>1, <1>5, NoneAssumption DEF LockFile, IndInv, MigrationTypeOK
  <2>2. LockInv'
    BY <1>2, <1>4, <1>5, <2>1 DEF IndInv, LockInv
  <2> QED BY <1>1, <1>3, <2>1, <2>2, LockPlace, PlaceStep DEF IndInv, MigrationTypeOK
<1>6. CASE ~(lock # None /\ lock.creator = p)
  <2>1. lock' = lock /\ pc[p] \notin Owning
    BY <1>1, <1>6 DEF IndInv, LockInv
  <2>2. LockInv'
    BY <1>1, <1>4, <2>1, OthersKeepLock DEF IndInv
  <2> QED BY <1>1, <1>3, <2>1, <2>2, LockPlace, PlaceStep DEF IndInv, MigrationTypeOK
<1> QED BY <1>5, <1>6

LEMMA LockAgesInd ==
    ASSUME IndInv, LockAges
    PROVE  IndInv'
<1>1. /\ lock # None /\ lock.pid = None /\ lock.dead /\ lock' = [lock EXCEPT !.old = TRUE]
      /\ UNCHANGED <<release, config, database, wal, journal, pc, onArchive, saved, crashes, failures>>
  BY DEF LockAges
<1>2. /\ lock' \in LockFile /\ lock' # None /\ lock'.creator = lock.creator
      /\ lock'.pid = lock.pid /\ lock'.dead = lock.dead
  BY <1>1, NoneAssumption DEF LockFile, IndInv, MigrationTypeOK
<1>3. LockInv'
  BY <1>1, <1>2 DEF IndInv, LockInv
<1>4. MigrationTypeOK'
  BY <1>1, <1>2 DEF IndInv, MigrationTypeOK
<1>5. WalInv' /\ InterruptedInv' /\ SavedInv' /\ CompletedInv' /\ PlacesInv'
  BY <1>1 DEF IndInv, WalInv, InterruptedInv, SavedInv, CompletedInv, PlacesInv, Relies,
         Active, Phase, Copied, Staged, Completed, Interrupted, activeMatchesCandidate,
         CanonicalConfig, CanonicalDatabase, Ready, Missing, Readable, Content, Upgraded
<1> QED BY <1>3, <1>4, <1>5 DEF IndInv

-----------------------------------------------------------------------------
(***************************************************************************)
(* The decision: it goes on to migrate only what a process past the        *)
(* migration would not have been let through with.                         *)
(***************************************************************************)
LEMMA DecideInd ==
    ASSUME IndInv, NEW p \in Procs, Decide(p)
    PROVE  IndInv'
<1> DEFINE l == IF (Completed /\ Missing) \/ Conflict THEN "release_failed"
                ELSE IF config = None THEN (IF database = None THEN "release_ok" ELSE "release_failed")
                ELSE IF CanonicalConfig /\ (database = None \/ CanonicalDatabase) THEN "release_ok"
                ELSE IF Completed THEN "supersede" ELSE "begin"
<1>1. /\ pc[p] = "decide" /\ Goto(p, l)
      /\ UNCHANGED <<release, config, database, wal, journal, onArchive, saved, lock, crashes, failures>>
  BY DEF Decide, Unlocked
<1>2. pc[p] \in Holding /\ l \in Holding
  BY <1>1 DEF Holding, Recovering, Migrating
<1>3. LockInv'
  BY <1>1, <1>2, HolderKeepsLock DEF IndInv
<1>4. journal = None \/ Completed
  BY <1>1, AtPlace DEF Relies
<1>5. l = "release_ok" => Ready
  BY <1>4 DEF Ready, Missing, Completed
<1>6. Relies(l)
  BY <1>4, <1>5 DEF Relies, Restoring, Serving
<1>7. l \in Working => ~Ready
  BY <1>4 DEF Working, Migrating, Restoring, Ready, CanonicalDatabase
<1>8. l \notin Serving
  BY DEF Serving
<1>9. \A q \in Procs : pc[q] \in Serving => Ready
  BY AtPlace DEF Relies
<1> HIDE DEF l
<1> QED BY <1>1, <1>2, <1>3, <1>6, <1>7, <1>8, <1>9, PlaceStep DEF IndInv, MigrationTypeOK

LEMMA RecoverInd ==
    ASSUME IndInv, NEW p \in Procs, Recover(p)
    PROVE  IndInv'
<1>1. /\ pc[p] = "recover" /\ pc[p] \in Holding
      /\ UNCHANGED <<release, lock, crashes, failures, config, database, wal, saved>>
  BY DEF Recover, Unlocked, Holding, Recovering
<1>2. CASE Interrupted /\ activeMatchesCandidate
  <2>1. Goto(p, "revalidate") /\ UNCHANGED <<journal, onArchive>> /\ "revalidate" \in Holding
    BY <1>2 DEF Recover, Holding, Recovering
  <2>2. Relies("revalidate")' /\ Interrupted'
    BY <1>1, <1>2, <2>1 DEF Relies, Restoring, Serving, Interrupted, activeMatchesCandidate
  <2> QED BY <1>1, <1>2, <2>1, <2>2, Kept, InterruptedJournal, InterruptedStep
<1>3. CASE Interrupted /\ ~activeMatchesCandidate
  <2>1. /\ Goto(p, "restore_config") /\ writeJournal("recovery_required")
        /\ onArchive' = [onArchive EXCEPT ![p] = "decide"] /\ "restore_config" \in Holding
    BY <1>3 DEF Recover, Holding, Restoring
  <2>2. /\ journal' \in Journal /\ journal' # None /\ journal'.phase = "recovery_required"
        /\ journal'.source = journal.source /\ journal'.candidate = journal.candidate
    BY <1>3, <2>1, InterruptedJournal, WriteJournalEffect DEF Activation
  <2>3. onArchive' \in [Procs -> {"decide", "release_failed"}]
    BY <2>1, Kept
  <2>4. Relies("restore_config")' /\ Interrupted'
    BY <2>2 DEF Relies, Phase, Restoring, Serving, Interrupted, Activation
  <2> QED BY <1>1, <1>3, <2>1, <2>2, <2>3, <2>4, Kept, InterruptedStep
<1>4. CASE ~Interrupted
  <2>1. /\ Goto(p, "decide") /\ UNCHANGED onArchive /\ "decide" \in Holding /\ "decide" \notin Working
        /\ journal' = IF Completed THEN journal ELSE None
    BY <1>4 DEF Recover, Holding, Recovering, Working, Migrating, Restoring
  <2>2. pc' = [pc EXCEPT ![p] = "decide"] /\ DOMAIN pc = Procs
    BY <2>1 DEF Goto, IndInv, MigrationTypeOK
  <2>3. LockInv'
    BY <1>1, <2>1, HolderKeepsLock DEF IndInv
  <2>4. MigrationTypeOK'
    BY <1>1, <2>1, <2>2 DEF IndInv, MigrationTypeOK
  <2>5. ~Interrupted' /\ (Completed' => Completed /\ journal' = journal)
    BY <1>4, <2>1 DEF Interrupted, Completed
  <2>6. Active' = Active
    BY <1>1 DEF Active, Readable, Content
  <2>7. WalInv' /\ InterruptedInv' /\ SavedInv' /\ CompletedInv'
    BY <1>1, <1>4, <2>5, <2>6 DEF IndInv, WalInv, InterruptedInv, SavedInv, CompletedInv
  <2>8. Ready => Ready'
    BY <1>1, <2>1 DEF Ready, Missing, Completed, CanonicalConfig, CanonicalDatabase
  <2>9. ASSUME NEW q \in Procs PROVE Relies(pc[q])'
    <3>1. CASE q = p
      BY <2>1, <2>2, <3>1 DEF Relies, Completed, Restoring, Serving
    <3>2. CASE q # p
      <4>1. pc'[q] = pc[q] /\ pc[q] \notin Holding
        BY <1>1, <2>2, <3>2, HolderIsAlone DEF IndInv, Owning
      <4>2. Relies(pc[q])
        BY AtPlace
      <4> QED
        BY <1>1, <2>8, <4>1, <4>2 DEF Relies, Holding, Recovering, Migrating, Restoring, Serving
    <3> QED BY <3>1, <3>2
  <2>10. \A q, r \in Procs : pc'[q] \in Serving => pc'[r] \notin Working
    BY <2>1, <2>2 DEF IndInv, PlacesInv, Serving
  <2> QED BY <2>3, <2>4, <2>7, <2>9, <2>10 DEF IndInv, PlacesInv
<1> QED BY <1>2, <1>3, <1>4

LEMMA FailsInd ==
    ASSUME IndInv, NEW p \in Procs, Fails(p)
    PROVE  IndInv'
<1>1. /\ failures' \in 0..MaxFailures
      /\ UNCHANGED <<release, lock, crashes, config, database, wal, saved>>
  BY MigrationAssumption DEF Fails, IndInv, MigrationTypeOK
<1>2. CASE pc[p] \in Migrating /\ Interrupted /\ writeJournal("recovery_required")
           /\ onArchive' = [onArchive EXCEPT ![p] = "release_failed"] /\ Goto(p, "restore_config")
  <2>1. pc[p] \in Working /\ "restore_config" \in Holding
    BY <1>2 DEF Working, Holding, Restoring
  <2>2. /\ journal' \in Journal /\ journal' # None /\ journal'.phase = "recovery_required"
        /\ journal'.source = journal.source /\ journal'.candidate = journal.candidate
    BY <1>2, InterruptedJournal, WriteJournalEffect DEF Activation
  <2>3. onArchive' \in [Procs -> {"decide", "release_failed"}]
    BY <1>2, Kept
  <2>4. Relies("restore_config")' /\ Interrupted'
    BY <2>2 DEF Relies, Phase, Restoring, Serving, Interrupted, Activation
  <2> QED BY <1>1, <1>2, <2>1, <2>2, <2>3, <2>4, Kept, InterruptedStep
<1>3. CASE /\ pc[p] \in Recovering \cup Restoring \/ (pc[p] \in Migrating /\ ~Interrupted)
           /\ Goto(p, "release_failed") /\ UNCHANGED <<journal, onArchive>>
  <2>1. pc[p] \in Holding /\ "release_failed" \in Holding
    BY <1>3 DEF Holding
  <2>2. LockInv'
    BY <1>1, <1>3, <2>1, HolderKeepsLock DEF IndInv
  <2> QED BY <1>1, <1>3, <2>2, LockPlace, PlaceStep DEF IndInv, MigrationTypeOK
<1> QED BY <1>2, <1>3 DEF Fails

-----------------------------------------------------------------------------
(***************************************************************************)
(* Past the migration: the journal stays, nobody works under the lock, and *)
(* the files stay in the schemas of the release.                           *)
(***************************************************************************)
LEMMA ServingIsReady ==
    ASSUME IndInv, NEW p \in Procs, pc[p] \in Serving
    PROVE  /\ Ready /\ ~Interrupted /\ Active = saved
           /\ \A q \in Procs : pc[q] \notin Working
<1>1. Ready
  BY AtPlace DEF Relies
<1>2. ~Interrupted
  BY <1>1 DEF Ready, Interrupted, Completed, Activation
<1> QED BY <1>1, <1>2 DEF IndInv, SavedInv, PlacesInv

LEMMA ServingStep ==
    ASSUME IndInv, NEW p \in Procs, pc[p] \in Serving,
           NEW l \in {"down"} \cup Serving, pc' = [pc EXCEPT ![p] = l],
           UNCHANGED <<release, journal, lock, onArchive, crashes, failures>>,
           config' \in Config \cup {None}, database' \in Database \cup {None},
           wal' \in Wal \cup {None}, saved' \in Pair,
           WalInv', Active' = saved', Relies(l)',
           config # None => config' # None,
           database # None => database' # None,
           database # None /\ database.form = "live" => database'.form = "live",
           Ready'
    PROVE  IndInv'
<1>1. l \notin Owning /\ l # "stale" /\ l \notin Working /\ pc[p] \notin Owning
  BY DEF Owning, Holding, Recovering, Migrating, Restoring, Serving, Working
<1>2. LockInv'
  BY <1>1, OthersKeepLock DEF IndInv, Goto
<1>3. MigrationTypeOK'
  BY DEF IndInv, MigrationTypeOK
<1>4. ~Interrupted /\ \A q \in Procs : pc[q] \notin Working
  BY ServingIsReady
<1>5. InterruptedInv' /\ SavedInv' /\ CompletedInv'
  BY <1>4 DEF IndInv, InterruptedInv, SavedInv, CompletedInv, Interrupted, Completed
<1>6. DOMAIN pc = Procs
  BY DEF IndInv, MigrationTypeOK
<1>7. ASSUME NEW q \in Procs PROVE Relies(pc[q])'
  <2>1. CASE q = p
    BY <1>6, <2>1
  <2>2. CASE q # p
    <3>1. pc'[q] = pc[q] /\ pc[q] \notin Working
      BY <1>4, <1>6, <2>2
    <3>2. Relies(pc[q])
      BY AtPlace
    <3> QED
      BY <3>1, <3>2
      DEF Relies, Working, Migrating, Restoring, Serving, Completed
  <2> QED BY <2>1, <2>2
<1>8. \A q \in Procs : pc'[q] \notin Working
  BY <1>1, <1>4, <1>6
<1> QED BY <1>2, <1>3, <1>5, <1>7, <1>8 DEF IndInv, PlacesInv

LEMMA InitConfigInd ==
    ASSUME IndInv, NEW p \in Procs, InitConfig(p)
    PROVE  IndInv'
<1>1. /\ pc[p] = "init_config" /\ pc[p] \in Serving /\ "open_database" \in Serving
      /\ pc' = [pc EXCEPT ![p] = "open_database"]
      /\ config' = IF config = None THEN [schema |-> release, edits |-> 0] ELSE config
      /\ saved' = IF config = None THEN [saved EXCEPT !.config = config'] ELSE saved
      /\ UNCHANGED <<release, journal, lock, onArchive, crashes, failures, database, wal>>
  BY DEF InitConfig, Others, Serving, Goto
<1>2. Ready /\ Active = saved
  BY <1>1, ServingIsReady
<1>3. [schema |-> release, edits |-> 0] \in Config
  BY Kept, MigrationAssumption DEF Config
<1>4. config' \in Config /\ config' # None
  BY <1>1, <1>3, Kept, NoneAssumption
<1>5. Ready'
  BY <1>1, <1>2, <1>4 DEF Ready, Completed, Missing, CanonicalConfig, CanonicalDatabase
<1>6. Active' = saved' /\ saved' \in Pair
  BY <1>1, <1>2, <1>4, Kept DEF Active, Readable, Content, Pair
<1>7. WalInv'
  BY <1>1 DEF IndInv, WalInv
<1>8. Relies("open_database")'
  BY <1>4, <1>5 DEF Relies, Restoring
<1> QED BY <1>1, <1>4, <1>5, <1>6, <1>7, <1>8, Kept, ServingStep

LEMMA OpenDatabaseInd ==
    ASSUME IndInv, NEW p \in Procs, OpenDatabase(p)
    PROVE  IndInv'
<1>1. /\ pc[p] = "open_database" /\ pc[p] \in Serving /\ "running" \in Serving
      /\ pc' = [pc EXCEPT ![p] = "running"]
      /\ database' = IF database = None THEN Fresh ELSE [Readable EXCEPT !.form = "live"]
      /\ wal' = None
      /\ saved' = IF database = None THEN [saved EXCEPT !.database = Fresh] ELSE saved
      /\ UNCHANGED <<release, journal, lock, onArchive, crashes, failures, config>>
  BY DEF OpenDatabase, Others, Serving, Goto
<1>2. Ready /\ Active = saved /\ config # None
  BY <1>1, ServingIsReady, AtPlace DEF Relies
<1>3. Fresh \in Database /\ Fresh.schema = 1 /\ Fresh.form = "live"
  BY MigrationAssumption DEF Fresh, Database
<1>4. database # None => /\ Readable \in Database /\ Readable.schema = database.schema
                         /\ [Readable EXCEPT !.form = "live"] \in Database
                         /\ [Readable EXCEPT !.form = "live"].schema = database.schema
                         /\ [Readable EXCEPT !.form = "live"].form = "live"
  BY ReadableType, NoneAssumption DEF IndInv, Database
<1>5. database' \in Database /\ database' # None /\ database'.form = "live"
  BY <1>1, <1>3, <1>4, NoneAssumption
<1>6. database'.schema = 1
  BY <1>1, <1>2, <1>3, <1>4 DEF Ready, CanonicalDatabase
<1>7. Ready'
  BY <1>1, <1>2, <1>5, <1>6 DEF Ready, Completed, Missing, CanonicalConfig, CanonicalDatabase
<1>8. Content(database') = database'
  BY <1>5 DEF Content, Database
<1>9. Active' = [config |-> config, database |-> database']
  BY <1>1, <1>8 DEF Active, Readable, Content
<1>10. saved = [config |-> config, database |-> Content(Readable)]
  BY <1>2 DEF Active
<1>11. Active' = saved'
  <2>1. CASE database = None
    BY <1>1, <1>9, <1>10, <2>1
  <2>2. CASE database # None
    <3>1. Content(Readable) = [Readable EXCEPT !.form = "live"]
      BY <1>4, <2>2, NoneAssumption DEF Content
    <3> QED BY <1>1, <1>9, <1>10, <2>2, <3>1
  <2> QED BY <2>1, <2>2
<1>12. saved' \in Pair
  BY <1>5, <1>9, <1>11, Kept DEF Pair
<1>13. WalInv'
  BY <1>1 DEF WalInv
<1>14. Relies("running")'
  BY <1>1, <1>2, <1>5, <1>7 DEF Relies, Restoring
<1> QED BY <1>1, <1>2, <1>5, <1>7, <1>11, <1>12, <1>13, <1>14, Kept, ServingStep

LEMMA EditConfigInd ==
    ASSUME IndInv, NEW p \in Procs, EditConfig(p)
    PROVE  IndInv'
<1>1. /\ pc[p] = "running" /\ pc[p] \in Serving /\ config.edits < MaxWrites
      /\ config' = [config EXCEPT !.edits = @ + 1]
      /\ saved' = [saved EXCEPT !.config = config']
      /\ UNCHANGED <<release, journal, lock, onArchive, crashes, failures, database, wal, pc>>
  BY DEF EditConfig, Others, Serving
<1>2. Ready /\ Active = saved /\ Relies("running") /\ config # None
  BY <1>1, ServingIsReady, AtPlace DEF Relies
<1>3. config' \in Config /\ config' # None /\ config'.schema = config.schema
  BY <1>1, <1>2, Kept, NoneAssumption, MigrationAssumption DEF Config
<1>4. Ready'
  BY <1>1, <1>2, <1>3 DEF Ready, Completed, Missing, CanonicalConfig, CanonicalDatabase
<1>5. Active' = saved' /\ saved' \in Pair
  BY <1>1, <1>2, <1>3, Kept DEF Active, Readable, Content, Pair
<1>6. WalInv'
  BY <1>1 DEF IndInv, WalInv
<1>7. Relies("running")'
  BY <1>1, <1>2, <1>3, <1>4 DEF Relies, Restoring, Serving
<1>8. pc' = [pc EXCEPT ![p] = "running"]
  BY <1>1 DEF IndInv, MigrationTypeOK
<1> QED BY <1>1, <1>3, <1>4, <1>5, <1>6, <1>7, <1>8, Kept, ServingStep

LEMMA CommitInd ==
    ASSUME IndInv, NEW p \in Procs, Commit(p)
    PROVE  IndInv'
<1>1. /\ pc[p] = "running" /\ pc[p] \in Serving /\ Readable.rows < MaxWrites
      /\ wal' = [of |-> database, rows |-> Readable.rows + 1]
      /\ saved' = [saved EXCEPT !.database.rows = Readable.rows + 1]
      /\ UNCHANGED <<release, journal, lock, onArchive, crashes, failures, config, database, pc>>
  BY DEF Commit, Others, Serving
<1>2. /\ Ready /\ Active = saved /\ Relies("running") /\ config # None
      /\ database \in Database /\ database # None /\ database.form = "live"
  BY <1>1, ServingIsReady, AtPlace, Kept DEF Relies
<1>3. /\ Readable \in Database /\ Readable # None /\ Readable.schema = database.schema
      /\ Readable.form = "live"
  BY <1>2, ReadableType DEF IndInv
<1>4. wal' \in Wal /\ wal' # None
  BY <1>1, <1>2, <1>3, NoneAssumption, MigrationAssumption DEF Wal, Database
<1>5. WalInv'
  BY <1>1, <1>2 DEF WalInv
<1>6. Readable' = [database EXCEPT !.rows = Readable.rows + 1]
  BY <1>1, <1>2, <1>4 DEF Readable
<1>7. Readable' = [Readable EXCEPT !.rows = Readable.rows + 1]
  BY <1>2, <1>3, <1>6 DEF Database
<1>8. Readable' \in Database /\ Readable' # None /\ Readable'.form = "live"
  BY <1>1, <1>3, <1>7, NoneAssumption, MigrationAssumption DEF Database
<1>9. Content(Readable) = Readable /\ Content(Readable)' = Readable'
  BY <1>3, <1>8 DEF Content, Database
<1>10. saved = [config |-> config, database |-> Readable]
       /\ Active' = [config |-> config, database |-> Readable']
  BY <1>1, <1>2, <1>9 DEF Active
<1>11. Active' = saved' /\ saved' \in Pair
  BY <1>1, <1>7, <1>8, <1>10, Kept DEF Pair
<1>12. Ready'
  BY <1>1, <1>2 DEF Ready, Completed, Missing, CanonicalConfig, CanonicalDatabase
<1>13. Relies("running")'
  BY <1>1, <1>2, <1>12 DEF Relies, Restoring, Serving
<1>14. pc' = [pc EXCEPT ![p] = "running"]
  BY <1>1 DEF IndInv, MigrationTypeOK
<1> QED BY <1>1, <1>4, <1>5, <1>11, <1>12, <1>13, <1>14, Kept, ServingStep

LEMMA StopInd ==
    ASSUME IndInv, NEW p \in Procs, Stop(p)
    PROVE  IndInv'
<1>1. /\ pc[p] = "running" /\ pc[p] \in Serving
      /\ pc' = [pc EXCEPT ![p] = "down"]
      /\ database' = Readable /\ wal' = None
      /\ UNCHANGED <<release, journal, lock, onArchive, crashes, failures, config, saved>>
  BY DEF Stop, Others, Serving, Goto
<1>2. /\ Ready /\ Active = saved /\ Relies("running") /\ config # None
      /\ database \in Database /\ database # None /\ database.form = "live"
  BY <1>1, ServingIsReady, AtPlace, Kept DEF Relies
<1>3. /\ Readable \in Database /\ Readable # None /\ Readable.schema = database.schema
      /\ Readable.form = "live"
  BY <1>2, ReadableType DEF IndInv
<1>4. Active' = Active
  <2>1. Readable' = Readable
    BY <1>1 DEF Readable
  <2> QED BY <1>1, <2>1 DEF Active, Content
<1>5. Ready'
  BY <1>1, <1>2, <1>3 DEF Ready, Completed, Missing, CanonicalConfig, CanonicalDatabase
<1>6. WalInv'
  BY <1>1 DEF WalInv
<1>7. Relies("down")'
  BY DEF Relies, Restoring, Serving
<1> QED BY <1>1, <1>2, <1>3, <1>4, <1>5, <1>6, <1>7, Kept, ServingStep

-----------------------------------------------------------------------------
(***************************************************************************)
(* What the operator does while Guardian is down.                          *)
(***************************************************************************)
LEMMA OperatorStep ==
    ASSUME IndInv, AllDown, UNCHANGED <<pc, onArchive, lock, crashes>>,
           release' \in 1..MaxRelease, failures' \in 0..MaxFailures,
           config' \in Config \cup {None}, database' \in Database \cup {None},
           wal' \in Wal \cup {None}, journal' \in Journal \cup {None}, saved' \in Pair,
           WalInv', InterruptedInv', SavedInv', CompletedInv'
    PROVE  IndInv'
<1>1. MigrationTypeOK' /\ LockInv'
  BY DEF IndInv, MigrationTypeOK, LockInv
<1>2. PlacesInv'
  BY DEF AllDown, PlacesInv, Relies, Serving, Restoring
<1> QED BY <1>1, <1>2 DEF IndInv

LEMMA DeployInd ==
    ASSUME IndInv, Deploy
    PROVE  IndInv'
<1>1. /\ AllDown /\ release < MaxRelease /\ release' = release + 1
      /\ UNCHANGED <<pc, onArchive, lock, crashes, config, database, wal, journal, saved, failures>>
  BY DEF Deploy, Idling
<1>2. release' \in 1..MaxRelease
  BY <1>1, Kept, MigrationAssumption
<1>3. WalInv' /\ InterruptedInv' /\ SavedInv' /\ CompletedInv'
  BY <1>1 DEF IndInv, WalInv, InterruptedInv, SavedInv, CompletedInv, Interrupted, Completed,
         Active, Readable, Content, Upgraded
<1> QED BY <1>1, <1>2, <1>3, Kept, OperatorStep

LEMMA LoseInd ==
    ASSUME IndInv, Lose
    PROVE  IndInv'
<1>1. /\ AllDown /\ failures' \in 0..MaxFailures
      /\ \/ config' = None /\ UNCHANGED <<database, wal>>
         \/ database' = None /\ wal' = None /\ UNCHANGED config
      /\ saved' = IF Interrupted THEN saved
                  ELSE [config |-> IF config' = None THEN None ELSE saved.config,
                        database |-> IF database' = None THEN None ELSE saved.database]
      /\ UNCHANGED <<pc, onArchive, lock, crashes, release, journal>>
  BY MigrationAssumption DEF Lose, Idling, IndInv, MigrationTypeOK
<1>2. /\ config' \in Config \cup {None} /\ database' \in Database \cup {None}
      /\ wal' \in Wal \cup {None} /\ saved' \in Pair
  BY <1>1, Kept DEF Pair
<1>3. WalInv' /\ CompletedInv'
  BY <1>1 DEF IndInv, WalInv, CompletedInv, Completed
<1>4. InterruptedInv'
  BY <1>1 DEF IndInv, InterruptedInv, Interrupted, Content, Upgraded
<1>5. SavedInv'
  <2> SUFFICES ASSUME ~Interrupted' PROVE Active' = saved'
    BY DEF SavedInv
  <2>1. ~Interrupted /\ Active = saved
    BY <1>1 DEF Interrupted, IndInv, SavedInv
  <2>2. saved.config = config /\ saved.database = Content(Readable)
    BY <2>1 DEF Active
  <2>3. CASE config' = None /\ UNCHANGED <<database, wal>>
    <3>1. Content(Readable)' = Content(Readable)
      BY <2>3 DEF Content, Readable
    <3>2. database = None => Content(Readable) = None
      BY DEF Content, Readable
    <3> QED BY <1>1, <2>1, <2>2, <2>3, <3>1, <3>2 DEF Active
  <2>4. CASE database' = None /\ wal' = None /\ UNCHANGED config
    <3>1. Content(Readable)' = None
      BY <2>4 DEF Content, Readable
    <3> QED BY <1>1, <2>1, <2>2, <2>4, <3>1 DEF Active
  <2> QED BY <1>1, <2>3, <2>4
<1> QED BY <1>1, <1>2, <1>3, <1>4, <1>5, Kept, OperatorStep

LEMMA RestoreLegacyInd ==
    ASSUME IndInv, RestoreLegacy
    PROVE  IndInv'
<1>1. /\ AllDown /\ Completed
      /\ config' = journal.source.config
      /\ database' = journal.source.database /\ wal' = None
      /\ saved' = [config |-> config', database |-> Content(database')]
      /\ UNCHANGED <<pc, onArchive, lock, crashes, release, journal, failures>>
  BY DEF RestoreLegacy, Idling
<1>2. config' \in Config \cup {None} /\ database' \in Database \cup {None}
  BY <1>1 DEF IndInv, CompletedInv, Pair
<1>3. Content(database') \in Database \cup {None}
  BY <1>2 DEF Content, Database
<1>4. saved' \in Pair
  BY <1>1, <1>2, <1>3 DEF Pair
<1>5. Readable' = database' /\ Active' = saved'
  BY <1>1 DEF Active, Readable, Content
<1>6. WalInv' /\ InterruptedInv' /\ SavedInv' /\ CompletedInv'
  BY <1>1, <1>5
  DEF IndInv, WalInv, InterruptedInv, SavedInv, CompletedInv, Interrupted, Completed, Activation
<1> QED BY <1>1, <1>2, <1>4, <1>6, Kept, OperatorStep

LEMMA ArchiveByHandInd ==
    ASSUME IndInv, ArchiveByHand
    PROVE  IndInv'
<1>1. /\ AllDown /\ Completed /\ journal' = None
      /\ UNCHANGED <<pc, onArchive, lock, crashes, release, config, database, wal, saved, failures>>
  BY DEF ArchiveByHand, Idling
<1>2. Active' = saved'
  BY <1>1 DEF IndInv, SavedInv, Active, Readable, Content, Interrupted, Completed, Activation
<1>3. WalInv' /\ InterruptedInv' /\ SavedInv' /\ CompletedInv'
  BY <1>1, <1>2 DEF IndInv, WalInv, InterruptedInv, SavedInv, CompletedInv, Interrupted, Completed
<1> QED BY <1>1, <1>3, Kept, OperatorStep

-----------------------------------------------------------------------------
LEMMA InitInd ==
    ASSUME Init
    PROVE  IndInv
<1>1. /\ release \in 1..MaxRelease
      /\ config \in Config \cup {None} /\ database \in Database \cup {None}
      /\ database # None => database.form = "live"
  BY MigrationAssumption DEF Init, Config, Database
<1>2. /\ wal \in Wal \cup {None} /\ WalInv
      /\ journal = None /\ lock = None
      /\ pc = [p \in Procs |-> "down"]
      /\ onArchive = [p \in Procs |-> "decide"]
      /\ saved = Active /\ crashes = 0 /\ failures = 0
  BY <1>1, MigrationAssumption, NoneAssumption DEF Init, Wal, WalInv
<1>3. Readable \in Database \cup {None}
  BY <1>1, <1>2, NoneAssumption DEF WalInv, Readable, Database, Wal
<1>4. Active \in Pair
  BY <1>1, <1>3 DEF Active, Content, Pair, Database
<1>5. MigrationTypeOK
  BY <1>1, <1>2, <1>4, MigrationAssumption DEF MigrationTypeOK
<1>6. LockInv
  BY <1>2 DEF LockInv, Owning, Holding, Recovering, Migrating, Restoring
<1>7. InterruptedInv /\ SavedInv /\ CompletedInv
  BY <1>2 DEF InterruptedInv, SavedInv, CompletedInv, Interrupted, Completed
<1>8. PlacesInv
  BY <1>2 DEF PlacesInv, Relies, Restoring, Serving
<1> QED BY <1>2, <1>5, <1>6, <1>7, <1>8 DEF IndInv

LEMMA NextInd ==
    ASSUME ~TakeoversOverlap, IndInv, Next
    PROVE  IndInv'
<1>1. ASSUME NEW p \in Procs, Proceed(p) PROVE IndInv'
  <2>1. CASE Boot(p) \/ Lock(p)
    BY <2>1, BootInd, CreateLockInd, LockRefusedInd, FindStaleLockInd, MoveStaleLockInd,
       WritePidInd, ReleaseInd DEF Lock
  <2>2. CASE Recover(p) \/ Revalidate(p) \/ Complete(p) \/ Decide(p) \/ Supersede(p)
    BY <2>2, RecoverInd, RevalidateInd, CompleteInd, DecideInd, SupersedeInd
  <2>3. CASE Migrate(p)
    BY <2>3, BeginInd, BackUpInd, StageInd, MarkStagedInd, ActivateInd, ReplaceConfigInd,
       RemoveSidecarsInd, ReplaceDatabaseInd, MarkActiveInd DEF Migrate
  <2>4. CASE Restore(p)
    BY <2>4, RestoreConfigInd, RestoreSidecarsInd, RestoreDatabaseInd, ArchiveJournalInd DEF Restore
  <2>5. CASE InitConfig(p) \/ OpenDatabase(p)
    BY <2>5, InitConfigInd, OpenDatabaseInd
  <2> QED BY <1>1, <2>1, <2>2, <2>3, <2>4, <2>5 DEF Proceed
<1>2. ASSUME NEW p \in Procs, Fails(p) \/ EditConfig(p) \/ Commit(p) \/ Stop(p) \/ CrashAt(p)
      PROVE  IndInv'
  BY <1>2, FailsInd, EditConfigInd, CommitInd, StopInd, CrashInd
<1>3. ASSUME LockAges \/ Deploy \/ Lose \/ RestoreLegacy \/ ArchiveByHand PROVE IndInv'
  BY <1>3, LockAgesInd, DeployInd, LoseInd, RestoreLegacyInd, ArchiveByHandInd
<1> QED BY <1>1, <1>2, <1>3 DEF Next

LEMMA StutterInd ==
    ASSUME IndInv, UNCHANGED vars
    PROVE  IndInv'
<1>1. MigrationTypeOK' /\ LockInv' /\ WalInv'
  BY DEF vars, disk, IndInv, MigrationTypeOK, LockInv, WalInv
<1>2. InterruptedInv' /\ SavedInv' /\ CompletedInv'
  BY DEF vars, disk, IndInv, InterruptedInv, SavedInv, CompletedInv, Interrupted, Completed,
         Active, Readable, Content, Upgraded
<1>3. ASSUME NEW p \in Procs PROVE Relies(pc[p])'
  <2>1. Relies(pc[p])
    BY AtPlace
  <2> QED
    BY <2>1 DEF vars, disk, Relies, Phase, Copied, Staged, Completed, Interrupted,
         activeMatchesCandidate, CanonicalConfig, CanonicalDatabase, Ready, Missing,
         Readable, Content, Upgraded
<1>4. PlacesInv'
  BY <1>3 DEF vars, IndInv, PlacesInv
<1> QED BY <1>1, <1>2, <1>4 DEF IndInv

(***************************************************************************)
(* As long as two takeovers of one stale lock do not overlap, the lock,    *)
(* the journal and the two files stay in agreement, through crashes,       *)
(* failures, new releases and what the operator does.                      *)
(***************************************************************************)
THEOREM IndInvHolds ==
    ASSUME ~TakeoversOverlap
    PROVE  Spec => []IndInv
<1>1. Init => IndInv
  BY InitInd
<1>2. IndInv /\ [Next]_vars => IndInv'
  BY NextInd, StutterInd
<1> QED BY <1>1, <1>2, PTL DEF Spec

(***************************************************************************)
(* performMigration, restoreFromBackup, recoverIncompleteJournal: whatever *)
(* was saved is in the active files or in the backup of the activation     *)
(* that is under way, at every instant a crash may pick.                   *)
(***************************************************************************)
THEOREM SavedIsKept ==
    ASSUME ~TakeoversOverlap
    PROVE  Spec => []NothingLost
<1>1. IndInv => NothingLost
  BY DEF IndInv, InterruptedInv, SavedInv, NothingLost
<1> QED BY <1>1, IndInvHolds, PTL

(***************************************************************************)
(* runGuardianShadowMigration returns only with both files in the schemas  *)
(* of the release, and no other boot undoes that afterwards.               *)
(***************************************************************************)
THEOREM StartsUniform ==
    ASSUME ~TakeoversOverlap
    PROVE  Spec => []NeverStartsMixed
<1>1. IndInv => NeverStartsMixed
  BY ServingIsReady DEF NeverStartsMixed, Ready
<1> QED BY <1>1, IndInvHolds, PTL

(***************************************************************************)
(* The check on a completed journal before anything else: a process that   *)
(* is let through over one finds both files.                               *)
(***************************************************************************)
THEOREM NeverTakenForNew ==
    ASSUME ~TakeoversOverlap
    PROVE  Spec => []NoFreshInstallOverMigrated
<1>1. IndInv => NoFreshInstallOverMigrated
  BY ServingIsReady DEF NoFreshInstallOverMigrated, Ready, Completed
<1> QED BY <1>1, IndInvHolds, PTL
=============================================================================
