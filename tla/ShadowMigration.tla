---------------------------- MODULE ShadowMigration ----------------------------
(***************************************************************************)
(* The shadow migration that runs at the start of every boot:              *)
(* src/migration/shadow.ts and files.ts, with the lock file, the journal   *)
(* and the two files they protect.                                         *)
(*                                                                         *)
(* Every write the code makes atomic (temporary file and rename, unlink)   *)
(* is one step, and the process may die between any two.  Backups and      *)
(* staged files lie in directories of their own, are never rewritten, and  *)
(* stand in the journal that names them.  While the lock is exclusive the  *)
(* journal in memory is the one on disk, so one variable serves for both.  *)
(***************************************************************************)
EXTENDS Naturals

CONSTANTS
    Procs,            \* Guardian processes that may boot at the same time
    None,             \* no file, no journal, no pid
    MaxRelease,       \* bound: CONFIG_SCHEMA_VERSION of the last release deployed
    MaxWrites,        \* bound: configuration edits, and commits, while running
    MaxCrashes,       \* bound
    MaxFailures,      \* bound: steps that throw
    TakeoversOverlap, \* bound: may two boots have found the same stale lock; the code lets them
    ReusedPids        \* a restarted process has the pid it had before (containers)

ASSUME MigrationAssumption ==
    /\ None \notin Procs
    /\ MaxRelease \in Nat \ {0, 1} /\ MaxWrites \in Nat \ {0}
    /\ {MaxCrashes, MaxFailures} \subseteq Nat
    /\ {TakeoversOverlap, ReusedPids} \subseteq BOOLEAN

VARIABLES
    release,   \* CONFIG_SCHEMA_VERSION of the installed release
    config,    \* config.json
    database,  \* qqadmin.db, the main file
    wal,       \* its -wal and -shm
    journal,   \* migration-state.json
    lock,      \* migration.lock
    pc,        \* per process: where its boot is
    onArchive, \* per process: what follows a restored source
    saved,     \* the pair last saved by a release that ran (history)
    crashes, failures

disk == <<config, database, wal, journal, lock>>
vars == <<release, disk, pc, onArchive, saved, crashes, failures>>

(***************************************************************************)
(* A configuration has a schema and a number of edits; a database has a    *)
(* schema, a number of committed rows and a form, which tells files of     *)
(* equal content and different bytes apart.  A WAL extends one main file.  *)
(***************************************************************************)
LegacyDb == 0
DATABASE_SCHEMA_VERSION == 1

Config == [schema : 0..MaxRelease, edits : 0..MaxWrites]
Database == [schema : {LegacyDb, DATABASE_SCHEMA_VERSION}, rows : 0..MaxWrites,
             form : {"live", "snapshot", "staged"}]
Wal == [of : Database, rows : 0..MaxWrites]
Pair == [config : Config \cup {None}, database : Database \cup {None}]

Staging == {"prepared", "backup_verified", "staged", "staged_validated"}
Activation == {"activating", "active_validated", "recovery_required"}
Journal == [phase : Staging \cup Activation \cup {"completed"},
            source : Pair \cup {None}, candidate : Pair \cup {None}]

(* An exclusive create, which the pid is then written to.  `dead' and `old' are *)
(* what the probe of the pid and the age of the file tell.                      *)
LockFile == [creator : Procs, pid : Procs \cup {None}, dead : BOOLEAN, old : BOOLEAN]

ASSUME NoneAssumption ==
    /\ None \notin Config /\ None \notin Database /\ None \notin Wal
    /\ None \notin Pair /\ None \notin Journal /\ None \notin LockFile

(* Where a boot is: the lock protocol, then what runs under the lock. *)
Acquiring == {"acquire", "stale", "create", "write_pid"}
Recovering == {"recover", "revalidate", "complete", "decide", "supersede"}
Migrating == {"begin", "backup", "stage", "staged", "activate", "config", "sidecars",
              "database", "activated", "validate"}
Restoring == {"restore_config", "restore_sidecars", "restore_database", "archive"}
Holding == Recovering \cup Migrating \cup Restoring \cup {"release_ok", "release_failed"}
Serving == {"init_config", "open_database", "running"}

MigrationTypeOK ==
    /\ release \in 1..MaxRelease
    /\ config \in Config \cup {None} /\ database \in Database \cup {None}
    /\ wal \in Wal \cup {None} /\ journal \in Journal \cup {None}
    /\ lock \in LockFile \cup {None}
    /\ pc \in [Procs -> {"down"} \cup Acquiring \cup Holding \cup Serving]
    /\ onArchive \in [Procs -> {"decide", "release_failed"}]
    /\ saved \in Pair
    /\ crashes \in 0..MaxCrashes /\ failures \in 0..MaxFailures

-----------------------------------------------------------------------------
(* What SQLite reads: a WAL belongs to the main file it was written for. *)
Torn == [schema |-> LegacyDb, rows |-> 0, form |-> "torn"]
Readable ==
    IF wal = None \/ database = None THEN database
    ELSE IF wal.of = database THEN [database EXCEPT !.rows = wal.rows] ELSE Torn

(* The content of a database, whatever file holds it. *)
Content(d) == IF d = None THEN None ELSE [d EXCEPT !.form = "live"]
Active == [config |-> config, database |-> Content(Readable)]

Completed == journal # None /\ journal.phase = "completed"
Interrupted == journal # None /\ journal.phase \in Activation

CanonicalConfig == config # None /\ config.schema = release
CanonicalDatabase == database # None /\ database.schema = DATABASE_SCHEMA_VERSION

activeMatchesCandidate ==
    /\ journal.candidate # None
    /\ config = journal.candidate.config /\ database = journal.candidate.database

Goto(p, l) == pc' = [pc EXCEPT ![p] = l]

writeJournal(phase) == journal' = [journal EXCEPT !.phase = phase]

-----------------------------------------------------------------------------
(***************************************************************************)
(* An installation found at the first boot of this release: nothing, the   *)
(* files of an older release with or without a WAL (that release may have  *)
(* been killed), or a database whose configuration is missing.             *)
(***************************************************************************)
Init ==
    /\ release = 2
    /\ config \in {None, [schema |-> 0, edits |-> 0]}
    /\ database \in {None, [schema |-> LegacyDb, rows |-> 0, form |-> "live"],
                     [schema |-> DATABASE_SCHEMA_VERSION, rows |-> 0, form |-> "live"]}
    /\ wal \in {None} \cup (IF database = None THEN {} ELSE {[of |-> database, rows |-> 1]})
    /\ journal = None /\ lock = None
    /\ pc = [p \in Procs |-> "down"]
    /\ onArchive = [p \in Procs |-> "decide"]
    /\ saved = Active
    /\ crashes = 0 /\ failures = 0

-----------------------------------------------------------------------------
(***************************************************************************)
(* runGuardianShadowMigration before the lock: an empty installation needs *)
(* none, and a database without its configuration is refused.              *)
(***************************************************************************)
Boot(p) ==
    /\ pc[p] = "down"
    /\ \/ config # None \/ journal # None
       \/ database = None
    /\ Goto(p, IF config = None /\ database = None /\ journal = None
               THEN "init_config" ELSE "acquire")
    /\ UNCHANGED <<release, disk, onArchive, saved, crashes, failures>>

NewLock(p) == [creator |-> p, pid |-> None, dead |-> FALSE, old |-> FALSE]

(* process.kill(pid, 0) succeeds, for the caller's own pid too. *)
HolderAlive ==
    /\ lock.pid # None
    /\ IF ReusedPids THEN pc[lock.pid] # "down" ELSE ~lock.dead

NeverStale == FALSE
LockIsStale == IF lock.pid = None THEN lock.old ELSE ~HolderAlive

CreateLock(p) ==
    /\ pc[p] \in {"acquire", "create"} /\ lock = None
    /\ lock' = NewLock(p)
    /\ Goto(p, "write_pid")
    /\ UNCHANGED <<release, config, database, wal, journal, onArchive, saved, crashes, failures>>

(* Another boot holds the lock, or took it first: this boot fails. *)
LockRefused(p) ==
    /\ lock # None
    /\ pc[p] = "create" \/ (pc[p] = "acquire" /\ ~LockIsStale)
    /\ Goto(p, "down")
    /\ UNCHANGED <<release, disk, onArchive, saved, crashes, failures>>

FindStaleLock(p) ==
    /\ pc[p] = "acquire" /\ lock # None /\ LockIsStale
    /\ TakeoversOverlap \/ \A q \in Procs : pc[q] # "stale"
    /\ Goto(p, "stale")
    /\ UNCHANGED <<release, disk, onArchive, saved, crashes, failures>>

MoveStaleLock(p) ==
    /\ pc[p] = "stale"
    /\ lock' = None
    /\ Goto(p, IF lock = None THEN "down" ELSE "create")
    /\ UNCHANGED <<release, config, database, wal, journal, onArchive, saved, crashes, failures>>

WritePid(p) ==
    /\ pc[p] = "write_pid"
    /\ lock' = IF lock # None /\ lock.creator = p THEN [lock EXCEPT !.pid = p] ELSE lock
    /\ Goto(p, "recover")
    /\ UNCHANGED <<release, config, database, wal, journal, onArchive, saved, crashes, failures>>

(* A lock without a pid counts as abandoned after 30 s; its writer is dead by then. *)
LockAges ==
    /\ lock # None /\ lock.pid = None /\ lock.dead /\ ~lock.old
    /\ lock' = [lock EXCEPT !.old = TRUE]
    /\ UNCHANGED <<release, config, database, wal, journal, pc, onArchive, saved, crashes, failures>>

Release(p) ==
    /\ pc[p] \in {"release_ok", "release_failed"}
    /\ lock' = None
    /\ Goto(p, IF pc[p] = "release_ok" THEN "init_config" ELSE "down")
    /\ UNCHANGED <<release, config, database, wal, journal, onArchive, saved, crashes, failures>>

-----------------------------------------------------------------------------
Unlocked == <<release, lock, crashes, failures>>

(***************************************************************************)
(* recoverIncompleteJournal.  A staging that never finished is put aside.  *)
(* An interrupted activation is completed when both active files are the   *)
(* candidate, and otherwise undone from the backup.                        *)
(***************************************************************************)
Recover(p) ==
    /\ pc[p] = "recover"
    /\ \/ /\ ~Interrupted
          /\ journal' = IF Completed THEN journal ELSE None
          /\ Goto(p, "decide")
          /\ UNCHANGED onArchive
       \/ /\ Interrupted /\ activeMatchesCandidate
          /\ Goto(p, "revalidate")
          /\ UNCHANGED <<journal, onArchive>>
       \/ /\ Interrupted /\ ~activeMatchesCandidate
          /\ writeJournal("recovery_required")
          /\ onArchive' = [onArchive EXCEPT ![p] = "decide"]
          /\ Goto(p, "restore_config")
    /\ UNCHANGED <<Unlocked, config, database, wal, saved>>

(* validateActiveCandidate; a candidate of an older release is not valid any more. *)
Revalidate(p) ==
    /\ pc[p] = "revalidate"
    /\ IF CanonicalConfig
       THEN writeJournal("active_validated") /\ Goto(p, "complete")
       ELSE Goto(p, "release_failed") /\ UNCHANGED journal
    /\ UNCHANGED <<Unlocked, config, database, wal, onArchive, saved>>

(* What was saved is now saved in the schemas of this release. *)
Upgraded(pair) ==
    [config |-> [pair.config EXCEPT !.schema = release],
     database |-> IF pair.database = None
                  THEN [schema |-> DATABASE_SCHEMA_VERSION, rows |-> 0, form |-> "live"]
                  ELSE [pair.database EXCEPT !.schema = DATABASE_SCHEMA_VERSION]]

Complete(p) ==
    /\ pc[p] \in {"complete", "validate"}
    /\ writeJournal("completed")
    /\ saved' = Upgraded(saved)
    /\ Goto(p, "release_ok")
    /\ UNCHANGED <<Unlocked, config, database, wal, onArchive>>

(***************************************************************************)
(* The rest of runGuardianShadowMigration under the lock.                  *)
(***************************************************************************)
completedJournalProvesPreviousConfigGeneration ==
    /\ Completed
    /\ config.schema = release - 1 /\ CanonicalDatabase
    /\ journal.candidate.config.schema = config.schema

Missing == config = None \/ database = None
Conflict ==
    /\ Completed /\ config # None
    /\ ~CanonicalConfig \/ ~CanonicalDatabase
    /\ ~(~CanonicalConfig /\ completedJournalProvesPreviousConfigGeneration)

DecideByConfigOnly(p) ==
    /\ pc[p] = "decide"
    /\ Goto(p, IF config = None \/ CanonicalConfig THEN "release_ok" ELSE "begin")
    /\ UNCHANGED <<Unlocked, config, database, wal, journal, onArchive, saved>>

Decide(p) ==
    /\ pc[p] = "decide"
    /\ Goto(p,
         IF (Completed /\ Missing) \/ Conflict THEN "release_failed"
         ELSE IF config = None THEN (IF database = None THEN "release_ok" ELSE "release_failed")
         ELSE IF CanonicalConfig /\ (database = None \/ CanonicalDatabase) THEN "release_ok"
         ELSE IF Completed THEN "supersede" ELSE "begin")
    /\ UNCHANGED <<Unlocked, config, database, wal, journal, onArchive, saved>>

Supersede(p) ==
    /\ pc[p] = "supersede"
    /\ journal' = None
    /\ Goto(p, "begin")
    /\ UNCHANGED <<Unlocked, config, database, wal, onArchive, saved>>

-----------------------------------------------------------------------------
(***************************************************************************)
(* performMigration.                                                       *)
(***************************************************************************)
Begin(p) ==
    /\ pc[p] = "begin"
    /\ journal' = [phase |-> "prepared", source |-> None, candidate |-> None]
    /\ Goto(p, "backup")
    /\ UNCHANGED <<Unlocked, config, database, wal, onArchive, saved>>

BackUpMainFileOnly(p) ==
    /\ pc[p] = "backup"
    /\ journal' = [journal EXCEPT !.phase = "backup_verified",
                     !.source = [config |-> config,
                                 database |-> IF database = None THEN None
                                              ELSE [database EXCEPT !.form = "snapshot"]]]
    /\ Goto(p, "stage")
    /\ UNCHANGED <<Unlocked, config, database, wal, onArchive, saved>>

(* createBackups: SQLite's own snapshot includes what is in the WAL. *)
BackUp(p) ==
    /\ pc[p] = "backup"
    /\ journal' = [journal EXCEPT !.phase = "backup_verified",
                     !.source = [config |-> config,
                                 database |-> IF database = None THEN None
                                              ELSE [Readable EXCEPT !.form = "snapshot"]]]
    /\ Goto(p, "stage")
    /\ UNCHANGED <<Unlocked, config, database, wal, onArchive, saved>>

Stage(p) ==
    /\ pc[p] = "stage"
    /\ LET next == Upgraded(journal.source) IN
       journal' = [journal EXCEPT !.phase = "staged",
                     !.candidate = [next EXCEPT !.database.form = "staged"]]
    /\ Goto(p, "staged")
    /\ UNCHANGED <<Unlocked, config, database, wal, onArchive, saved>>

(* Journal entries with nothing else: staged_validated, activating, active_validated. *)
Mark(p, at, phase, next) ==
    /\ pc[p] = at
    /\ writeJournal(phase)
    /\ Goto(p, next)
    /\ UNCHANGED <<Unlocked, config, database, wal, onArchive, saved>>

MarkStaged(p) == Mark(p, "staged", "staged_validated", "activate")
Activate(p) == Mark(p, "activate", "activating", "config")
MarkActive(p) == Mark(p, "activated", "active_validated", "validate")

ReplaceConfig(p) ==
    /\ pc[p] = "config"
    /\ config' = journal.candidate.config
    /\ Goto(p, "sidecars")
    /\ UNCHANGED <<Unlocked, database, wal, journal, onArchive, saved>>

(* "A WAL belongs to the former main database and must never accompany the replacement." *)
RemoveSidecars(p) ==
    /\ pc[p] = "sidecars"
    /\ wal' = None
    /\ Goto(p, "database")
    /\ UNCHANGED <<Unlocked, config, database, journal, onArchive, saved>>

ReplaceDatabase(p) ==
    /\ pc[p] = "database"
    /\ database' = journal.candidate.database
    /\ Goto(p, "activated")
    /\ UNCHANGED <<Unlocked, config, wal, journal, onArchive, saved>>

-----------------------------------------------------------------------------
(***************************************************************************)
(* restoreFromBackup and the archiving of the journal after it.  The check *)
(* that a database which was absent before is the candidate cannot fail:   *)
(* nothing but the migration creates one while it is interrupted.          *)
(***************************************************************************)
RestoreConfig(p) ==
    /\ pc[p] = "restore_config"
    /\ config' = journal.source.config
    /\ Goto(p, IF journal.source.database = None /\ database = None
               THEN "archive" ELSE "restore_sidecars")
    /\ UNCHANGED <<Unlocked, database, wal, journal, onArchive, saved>>

RestoreSidecars(p) ==
    /\ pc[p] = "restore_sidecars"
    /\ wal' = None
    /\ Goto(p, "restore_database")
    /\ UNCHANGED <<Unlocked, config, database, journal, onArchive, saved>>

RestoreDatabase(p) ==
    /\ pc[p] = "restore_database"
    /\ database' = journal.source.database
    /\ Goto(p, "archive")
    /\ UNCHANGED <<Unlocked, config, wal, journal, onArchive, saved>>

ArchiveJournal(p) ==
    /\ pc[p] = "archive"
    /\ journal' = None
    /\ Goto(p, onArchive[p])
    /\ UNCHANGED <<Unlocked, config, database, wal, onArchive, saved>>

(***************************************************************************)
(* A step throws: an I/O error, a validation.  performMigration's handler  *)
(* restores the source once activation has begun, and leaves the journal   *)
(* for the next boot before that and when the restoration fails too.       *)
(***************************************************************************)
Fails(p) ==
    /\ failures < MaxFailures
    /\ failures' = failures + 1
    /\ \/ /\ pc[p] \in Migrating /\ Interrupted
          /\ writeJournal("recovery_required")
          /\ onArchive' = [onArchive EXCEPT ![p] = "release_failed"]
          /\ Goto(p, "restore_config")
       \/ /\ pc[p] \in Recovering \cup Restoring \/ (pc[p] \in Migrating /\ ~Interrupted)
          /\ Goto(p, "release_failed")
          /\ UNCHANGED <<journal, onArchive>>
    /\ UNCHANGED <<release, lock, crashes, config, database, wal, saved>>

-----------------------------------------------------------------------------
(***************************************************************************)
(* After the migration, without the lock: configManager.init and           *)
(* openDatabase create what is absent, then Guardian runs and saves.       *)
(***************************************************************************)
Others == <<release, journal, lock, onArchive, crashes, failures>>

InitConfig(p) ==
    /\ pc[p] = "init_config"
    /\ config' = IF config = None THEN [schema |-> release, edits |-> 0] ELSE config
    /\ saved' = IF config = None THEN [saved EXCEPT !.config = config'] ELSE saved
    /\ Goto(p, "open_database")
    /\ UNCHANGED <<Others, database, wal>>

Fresh == [schema |-> DATABASE_SCHEMA_VERSION, rows |-> 0, form |-> "live"]

OpenDatabase(p) ==
    /\ pc[p] = "open_database"
    /\ database' = IF database = None THEN Fresh ELSE [Readable EXCEPT !.form = "live"]
    /\ wal' = None
    /\ saved' = IF database = None THEN [saved EXCEPT !.database = Fresh] ELSE saved
    /\ Goto(p, "running")
    /\ UNCHANGED <<Others, config>>

EditConfig(p) ==
    /\ pc[p] = "running" /\ config.edits < MaxWrites
    /\ config' = [config EXCEPT !.edits = @ + 1]
    /\ saved' = [saved EXCEPT !.config = config']
    /\ UNCHANGED <<Others, database, wal, pc>>

Commit(p) ==
    /\ pc[p] = "running" /\ Readable.rows < MaxWrites
    /\ wal' = [of |-> database, rows |-> Readable.rows + 1]
    /\ saved' = [saved EXCEPT !.database.rows = Readable.rows + 1]
    /\ UNCHANGED <<Others, config, database, pc>>

(* An orderly stop closes the database, which empties the WAL into it. *)
Stop(p) ==
    /\ pc[p] = "running"
    /\ database' = Readable /\ wal' = None
    /\ Goto(p, "down")
    /\ UNCHANGED <<Others, config, saved>>

(* The process dies; its lock file and its WAL stay behind. *)
CrashAt(p) ==
    /\ pc[p] # "down" /\ crashes < MaxCrashes
    /\ crashes' = crashes + 1
    /\ lock' = IF lock # None /\ lock.creator = p THEN [lock EXCEPT !.dead = TRUE] ELSE lock
    /\ Goto(p, "down")
    /\ UNCHANGED <<release, config, database, wal, journal, onArchive, saved, failures>>

-----------------------------------------------------------------------------
(***************************************************************************)
(* What the operator does while Guardian is down: install the next         *)
(* release, lose a file, or go back to the files of before the migration.  *)
(***************************************************************************)
AllDown == \A p \in Procs : pc[p] = "down"
Idling == <<pc, onArchive, lock, crashes>>

Deploy ==
    /\ AllDown /\ release < MaxRelease
    /\ release' = release + 1
    /\ UNCHANGED <<Idling, config, database, wal, journal, saved, failures>>

Lose ==
    /\ AllDown /\ failures < MaxFailures
    /\ failures' = failures + 1
    /\ \/ config' = None /\ UNCHANGED <<database, wal>>
       \/ database' = None /\ wal' = None /\ UNCHANGED config
    /\ saved' = IF Interrupted THEN saved
                ELSE [config |-> IF config' = None THEN None ELSE saved.config,
                      database |-> IF database' = None THEN None ELSE saved.database]
    /\ UNCHANGED <<Idling, release, journal>>

RestoreLegacy ==
    /\ AllDown /\ Completed
    /\ config' = journal.source.config
    /\ database' = journal.source.database /\ wal' = None
    /\ saved' = [config |-> config', database |-> Content(database')]
    /\ UNCHANGED <<Idling, release, journal, failures>>

(* "or archive the journal before intentionally rerunning migration" *)
ArchiveByHand ==
    /\ AllDown /\ Completed
    /\ journal' = None
    /\ UNCHANGED <<Idling, release, config, database, wal, saved, failures>>

-----------------------------------------------------------------------------
Lock(p) == CreateLock(p) \/ LockRefused(p) \/ FindStaleLock(p) \/ MoveStaleLock(p) \/ WritePid(p) \/ Release(p)
Migrate(p) ==
    \/ Begin(p) \/ BackUp(p) \/ Stage(p) \/ MarkStaged(p) \/ Activate(p)
    \/ ReplaceConfig(p) \/ RemoveSidecars(p) \/ ReplaceDatabase(p) \/ MarkActive(p)
Restore(p) == RestoreConfig(p) \/ RestoreSidecars(p) \/ RestoreDatabase(p) \/ ArchiveJournal(p)
Proceed(p) ==
    \/ Boot(p) \/ Lock(p)
    \/ Recover(p) \/ Revalidate(p) \/ Complete(p) \/ Decide(p) \/ Supersede(p)
    \/ Migrate(p) \/ Restore(p)
    \/ InitConfig(p) \/ OpenDatabase(p)

Next ==
    \/ \E p \in Procs : \/ Proceed(p) \/ Fails(p)
                        \/ EditConfig(p) \/ Commit(p) \/ Stop(p) \/ CrashAt(p)
    \/ LockAges
    \/ Deploy \/ Lose \/ RestoreLegacy \/ ArchiveByHand

Spec == Init /\ [][Next]_vars

(* A process that boots goes on, and a supervisor boots one that is down. *)
FairSpec == Spec /\ WF_vars(LockAges) /\ \A p \in Procs : WF_vars(Proceed(p))

-----------------------------------------------------------------------------
(***************************************************************************)
(* "A single-instance migration lock" (docs/architecture/migration.md:166):*)
(* one process at a time works under it.  The code does not keep this: of  *)
(* two boots that find the same stale lock, the second moves away the lock *)
(* the first has created meanwhile (files.ts:246-248).                     *)
(***************************************************************************)
MigrationsExclusive == \A p, q \in Procs : pc[p] \in Holding /\ pc[q] \in Holding => p = q

(***************************************************************************)
(* Nothing that was saved is lost: the active files hold it, in the WAL    *)
(* too, or an activation is under way and its backup does.  Whenever an    *)
(* activation is not under way the two files are of one generation.        *)
(***************************************************************************)
NothingLost ==
    IF Interrupted
    THEN /\ journal.source.config = saved.config
         /\ Content(journal.source.database) = saved.database
    ELSE Active = saved

(***************************************************************************)
(* "It never starts with mixed storage": past the migration, both files    *)
(* are in the schemas of this release and no activation is unfinished.     *)
(***************************************************************************)
NeverStartsMixed ==
    (\E p \in Procs : pc[p] \in Serving) =>
        /\ ~Interrupted
        /\ config # None => CanonicalConfig
        /\ database # None => CanonicalDatabase

(***************************************************************************)
(* An installation that completed a migration is never taken for a new     *)
(* one: a boot that meets a missing file does not get to the managers,     *)
(* which would create it blank.                                            *)
(***************************************************************************)
NoFreshInstallOverMigrated ==
    Completed /\ (\E p \in Procs : pc[p] \in Serving) => ~Missing

(***************************************************************************)
(* The states only an operator gets out of.  The last one is an activation *)
(* that was interrupted when both files were in place, met by the next     *)
(* release: it is neither valid any more nor restored.                     *)
(***************************************************************************)
Refused ==
    \/ ~Interrupted /\ config = None /\ database # None
    \/ Completed /\ Missing
    \/ Conflict
    \/ Interrupted /\ activeMatchesCandidate /\ ~CanonicalConfig

(***************************************************************************)
(* Once crashes and failures stop, a Guardian that is restarted comes up:  *)
(* whatever was interrupted is completed or undone and done again.         *)
(***************************************************************************)
BootsInTheEnd == AllDown /\ ~Refused ~> Refused \/ \E p \in Procs : pc[p] = "running"

(* "A stale lock is recoverable on next startup." *)
StaleLockRecovers == (lock # None /\ lock.dead) ~> (lock = None \/ ~lock.dead)

-----------------------------------------------------------------------------
(***************************************************************************)
(* The inductive invariant.  The lock file belongs to whoever works under  *)
(* it; a WAL belongs to its database; an interrupted activation has a      *)
(* backup of what was saved and a candidate made of it; and each place in  *)
(* the migration relies on a state of the disk that nobody else disturbs.  *)
(***************************************************************************)
Owning == {"write_pid"} \cup Holding

LockInv ==
    /\ \A p \in Procs :
         /\ pc[p] \in Owning => lock # None /\ lock.creator = p /\ ~lock.dead
         /\ pc[p] = "stale" => lock # None /\ lock.dead
    /\ ~TakeoversOverlap => \A p, q \in Procs : pc[p] = "stale" /\ pc[q] = "stale" => p = q
    /\ lock # None =>
         /\ lock.old => lock.dead
         /\ ~lock.dead => pc[lock.creator] \in Owning
         /\ lock.pid # None => lock.pid = lock.creator

WalInv == wal # None => database # None /\ database.form = "live" /\ wal.of = database

InterruptedInv ==
    Interrupted =>
        /\ journal.source \in Pair /\ journal.candidate \in Pair
        /\ journal.source.config # None /\ journal.candidate.config # None
        /\ journal.source.config = saved.config
        /\ Content(journal.source.database) = saved.database
        /\ journal.candidate.config =
             [journal.source.config EXCEPT !.schema = journal.candidate.config.schema]
        /\ journal.candidate.database =
             [Upgraded(journal.source).database EXCEPT !.form = "staged"]

(* A staged journal that goes on: its source is what is active, its candidate made of it. *)
Copied ==
    /\ journal.source \in Pair
    /\ config # None /\ journal.source.config = config
    /\ Content(journal.source.database) = Content(Readable)
Staged ==
    /\ journal.candidate \in Pair
    /\ journal.candidate = [Upgraded(journal.source) EXCEPT !.database.form = "staged"]

Phase(ph) == journal # None /\ journal.phase = ph

(* What a process that is let through finds. *)
Ready ==
    /\ journal = None \/ (Completed /\ ~Missing)
    /\ config # None => CanonicalConfig
    /\ database # None => CanonicalDatabase

Working == Migrating \cup Restoring \cup {"revalidate", "complete", "supersede"}

Relies(l) ==
    /\ l = "decide" => journal = None \/ Completed
    /\ l = "begin" => journal = None /\ config # None
    /\ l = "supersede" => Completed /\ config # None
    /\ l = "backup" => Phase("prepared") /\ config # None
    /\ l = "stage" => Phase("backup_verified") /\ Copied
    /\ l = "staged" => Phase("staged") /\ Copied /\ Staged
    /\ l = "activate" => Phase("staged_validated") /\ Copied /\ Staged
    /\ l \in {"config", "sidecars", "database", "activated"} => Phase("activating") /\ config # None
    /\ l \in {"sidecars", "database", "activated"} => config = journal.candidate.config
    /\ l \in {"database", "activated"} => wal = None
    /\ l = "activated" => database = journal.candidate.database
    /\ l = "validate" => Phase("active_validated")
    /\ l \in {"revalidate", "validate", "complete"} => Interrupted /\ activeMatchesCandidate
    /\ l \in {"config", "sidecars", "database", "activated", "validate"} =>
         journal.candidate.config.schema = release
    /\ l = "complete" => CanonicalConfig
    /\ l \in Restoring => Phase("recovery_required")
    /\ l \in Restoring \ {"restore_config"} => config = journal.source.config
    /\ l = "restore_database" => wal = None
    /\ l = "archive" => database = journal.source.database /\ wal = None
    /\ l \in {"release_ok"} \cup Serving => Ready
    /\ l \in {"open_database", "running"} => config # None
    /\ l = "running" => database # None /\ database.form = "live"

SavedInv == ~Interrupted => Active = saved

CompletedInv == Completed => journal.source \in Pair /\ journal.candidate \in Pair /\ journal.source.config # None

PlacesInv ==
    /\ \A p \in Procs : Relies(pc[p])
    /\ \A p, q \in Procs : pc[p] \in Serving => pc[q] \notin Working

IndInv ==
    /\ MigrationTypeOK
    /\ LockInv /\ WalInv /\ InterruptedInv /\ SavedInv /\ CompletedInv /\ PlacesInv
=============================================================================
