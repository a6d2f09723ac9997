------------------------------ MODULE SelfUpdate ------------------------------
(***************************************************************************)
(* The plugin updates itself: src/modules/update/index.ts, archive.ts and  *)
(* apply.ts, and the /update routes of src/api/index.ts.                   *)
(*                                                                         *)
(* An archive stands for its bytes and for their digest.  GitHub may       *)
(* republish a release between any two requests.  Every network call and   *)
(* the hash of the stored file is an await; replacing the runtime files is *)
(* one turn of the event loop, in which a write may fail or the process    *)
(* may die.                                                                *)
(***************************************************************************)
EXTENDS Naturals, FiniteSets, Sequences
LOCAL INSTANCE FiniteSetsExt

CONSTANTS
    Requests,
    Versions,       \* release versions
    Files,          \* NAPCAT_UPDATE_FILES
    Archives,       \* what a release may carry
    MaxOutput,      \* MAX_ARCHIVE_OUTPUT_BYTES
    MaxEvents,      \* bound of the model: changes on GitHub and on disk, crashes
    Nil

(* An archive: the version its manifests name, the attestation GitHub has  *)
(* for its digest, and its entries as the central directory lists them.    *)
Entry == [name : Files, local : Files, start : Nat, size : Nat, sound : BOOLEAN]

ASSUME SelfUpdateAssumption ==
    /\ 0 \notin Versions /\ {MaxOutput, MaxEvents} \subseteq Nat
    /\ \A a \in Archives :
          /\ a.attested \in {"verified", "none", "mismatch"} /\ a.directory \in Nat
          /\ \A i \in DOMAIN a.entries : a.entries[i] \in Entry

VARIABLES
    published,     \* GitHub: per version its archive and checksum assets
    updateRequest, \* POST /update/download and /update/install under way
    updateLock,    \* locks.update()
    stored,        \* per version: update-<v>.zip and its .unverified neighbour
    plugin,        \* per runtime file: the version it is of
    applying,      \* applyNapCatUpdateArchive under way
    backups,       \* complete copies below update-backups
    outcome,       \* history: how the last application ended
    events         \* history: what MaxEvents counts

updateVars == <<published, updateRequest, updateLock, stored, plugin, applying, backups, outcome, events>>

NotStored == [final |-> Nil, unverified |-> Nil]

UpdateTypeOK ==
    /\ \A v \in Versions : {stored[v].final, stored[v].unverified} \subseteq Archives \cup {Nil}
    /\ updateLock \in Requests \cup {Nil}
    /\ plugin \in [Files -> Versions \cup {0}]
    /\ backups \subseteq [Files -> Versions \cup {0}]

-----------------------------------------------------------------------------
(* parseNapCatUpdateArchive: exactly the runtime files, once each, with    *)
(* supported headers and whole payloads that do not overlap.               *)
End(e) == e.start + e.size

ExpectedNames(a) ==
    /\ Len(a.entries) = Cardinality(Files)
    /\ {a.entries[i].name : i \in DOMAIN a.entries} = Files

SoundEntries(a) ==
    \A i \in DOMAIN a.entries :
        LET e == a.entries[i] IN e.sound /\ e.local = e.name /\ End(e) <= a.directory

Disjoint(a) ==
    \A i, j \in DOMAIN a.entries :
        i # j => \/ End(a.entries[i]) <= a.entries[j].start
                 \/ End(a.entries[j]) <= a.entries[i].start

Parses(a) ==
    /\ ExpectedNames(a) /\ SoundEntries(a) /\ Disjoint(a)
    /\ MapThenSumSet(LAMBDA i : a.entries[i].size, DOMAIN a.entries) <= MaxOutput

ManifestsMatch(a, v) == a.release = v

-----------------------------------------------------------------------------
(* Requests. *)
Idle == applying = Nil    \* between two turns of the event loop

At(h, stage) == Idle /\ updateRequest[h] # Nil /\ updateRequest[h].at = stage

Finish(h) == updateRequest' = [updateRequest EXCEPT ![h] = Nil]

GiveUp(h) == Finish(h) /\ updateLock' = Nil

Go(h, stage) == updateRequest' = [updateRequest EXCEPT ![h].at = stage]

Store(h, slot, a) == stored' = [stored EXCEPT ![updateRequest[h].version][slot] = a]

(* selectReleaseAssetPair: exactly one archive and one checksum of the     *)
(* expected names, or the release is not for automatic installation.       *)
Selectable(assets) == assets.archive # Nil /\ assets.checksum # Nil

(* fetchReleases, and the release of the version asked for.                *)
Resolve(h) ==
    /\ Idle /\ updateRequest[h] = Nil
    /\ \E v \in Versions, op \in {"download", "install"} :
          /\ Selectable(published[v])
          /\ updateRequest' = [updateRequest EXCEPT ![h] =
                [op |-> op, version |-> v, at |-> "queued", expected |-> Nil, digest |-> Nil]]
    /\ UNCHANGED <<published, updateLock, stored, plugin, applying, backups, outcome, events>>

(* The update lock.  An artifact of an earlier download, finished or not,  *)
(* has to be removed by hand.                                              *)
BeginDownload(h) ==
    /\ At(h, "queued") /\ updateLock = Nil
    /\ IF stored[updateRequest[h].version] # NotStored THEN Finish(h) /\ UNCHANGED updateLock
       ELSE Go(h, "archive") /\ updateLock' = h
    /\ UNCHANGED <<published, stored, plugin, applying, backups, outcome, events>>

ArchiveArrives(h) ==
    /\ At(h, "archive")
    /\ published[updateRequest[h].version].archive # Nil
    /\ Store(h, "unverified", published[updateRequest[h].version].archive)
    /\ Go(h, "checksum")
    /\ UNCHANGED <<published, updateLock, plugin, applying, backups, outcome, events>>

Abandon(h) ==
    /\ At(h, "archive") \/ At(h, "checksum")
    /\ GiveUp(h)
    /\ Store(h, "unverified", Nil)
    /\ UNCHANGED <<published, plugin, applying, backups, outcome, events>>

ChecksumArrives(h) ==
    /\ At(h, "checksum")
    /\ published[updateRequest[h].version].checksum # Nil
    /\ updateRequest' = [updateRequest EXCEPT ![h] =
          [@ EXCEPT !.at = "hash", !.expected = published[updateRequest[h].version].checksum]]
    /\ UNCHANGED <<published, updateLock, stored, plugin, applying, backups, outcome, events>>

ChecksumMatches(h) == stored[updateRequest[h].version].unverified = updateRequest[h].expected

Hashed(h) ==
    /\ At(h, "hash")
    /\ IF ChecksumMatches(h)
       THEN /\ updateRequest' = [updateRequest EXCEPT ![h].at = "attestation", ![h].digest = updateRequest[h].expected]
            /\ UNCHANGED <<updateLock, stored>>
       ELSE GiveUp(h) /\ Store(h, "unverified", Nil)
    /\ UNCHANGED <<published, plugin, applying, backups, outcome, events>>

(* Only an attestation for another repository stops the update; none, or   *)
(* an API that does not answer, is logged.                                 *)
AttestationAccepted(a, reachable) == ~reachable \/ a.attested # "mismatch"

Attested(h) ==
    /\ At(h, "attestation")
    /\ \E reachable \in BOOLEAN :
          LET v == updateRequest[h].version IN
          IF AttestationAccepted(updateRequest[h].digest, reachable)
          THEN /\ stored' = [stored EXCEPT ![v] = [final |-> @.unverified, unverified |-> Nil]]
               /\ updateLock' = Nil
               /\ IF updateRequest[h].op = "install" THEN Go(h, "install") ELSE Finish(h)
          ELSE GiveUp(h) /\ Store(h, "unverified", Nil)
    /\ UNCHANGED <<published, plugin, applying, backups, outcome, events>>

(* installUpdate takes the lock again, and what it finds may have changed. *)
InstallsWhatItFinds(h, a) == a # Nil

UnchangedSinceVerified(h, a) == a # Nil /\ a = updateRequest[h].digest

(* The complete copy comes first; when it cannot be made, nothing is       *)
(* replaced and the copy is removed.                                       *)
NoBackup == UNCHANGED backups

Backup == backups' = backups \cup {plugin}

BeginInstall(h) ==
    LET a == stored[updateRequest[h].version].final IN
    /\ At(h, "install") /\ updateLock = Nil
    /\ UnchangedSinceVerified(h, a)
    /\ Parses(a) /\ ManifestsMatch(a, updateRequest[h].version)
    /\ Backup
    /\ applying' = [archive |-> a, left |-> Files, replaced |-> {}, old |-> plugin,
                    phase |-> "replacing", damaged |-> FALSE]
    /\ Finish(h)
    /\ UNCHANGED <<published, updateLock, stored, plugin, outcome, events>>

(* Digest, layout, manifest, directory or backup is refused. *)
InstallRefused(h) ==
    /\ At(h, "install") /\ updateLock = Nil
    /\ Finish(h)
    /\ UNCHANGED <<published, updateLock, stored, plugin, applying, backups, outcome, events>>

-----------------------------------------------------------------------------
(* applyNapCatUpdateArchive. *)
ReplaceFile ==
    /\ ~Idle /\ applying.phase = "replacing"
    /\ \E f \in applying.left :
          /\ plugin' = [plugin EXCEPT ![f] = applying.archive.release]
          /\ applying' = [applying EXCEPT !.left = @ \ {f}, !.replaced = @ \cup {f}]
    /\ UNCHANGED <<published, updateRequest, updateLock, stored, backups, outcome, events>>

ReplaceFails ==
    /\ ~Idle /\ applying.phase = "replacing" /\ applying.left # {}
    /\ applying' = [applying EXCEPT !.phase = "restoring"]
    /\ UNCHANGED <<published, updateRequest, updateLock, stored, plugin, backups, outcome, events>>

RestoreFile ==
    /\ ~Idle /\ applying.phase = "restoring"
    /\ \E f \in applying.replaced, written \in BOOLEAN :
          /\ plugin' = IF written THEN [plugin EXCEPT ![f] = applying.old[f]] ELSE plugin
          /\ applying' = [applying EXCEPT !.replaced = @ \ {f}, !.damaged = @ \/ ~written]
    /\ UNCHANGED <<published, updateRequest, updateLock, stored, backups, outcome, events>>

Report == IF applying.damaged THEN "incomplete" ELSE "restored"

ApplyEnds ==
    /\ ~Idle
    /\ \/ applying.phase = "replacing" /\ applying.left = {} /\ outcome' = "installed"
       \/ applying.phase = "restoring" /\ applying.replaced = {} /\ outcome' = Report
    /\ applying' = Nil
    /\ UNCHANGED <<published, updateRequest, updateLock, stored, plugin, backups, events>>

-----------------------------------------------------------------------------
(* GitHub, the disk and the process. *)
Event == events < MaxEvents /\ events' = events + 1

Republish ==
    /\ Event /\ Idle
    /\ \E v \in Versions, a \in Archives :
          published' = [published EXCEPT ![v] = [archive |-> a, checksum |-> a]]
    /\ UNCHANGED <<updateRequest, updateLock, stored, plugin, applying, backups, outcome>>

(* The checksum asset is removed, and replaced after the archive asset. *)
RepublishChecksum ==
    /\ Event /\ Idle
    /\ \E v \in Versions, a \in Archives \cup {Nil} :
          published' = [published EXCEPT ![v].checksum = a]
    /\ UNCHANGED <<updateRequest, updateLock, stored, plugin, applying, backups, outcome>>

(* An operator removes an artifact, or restores another copy of it. *)
ArtifactChanges ==
    /\ Event /\ Idle
    /\ \E v \in Versions, a \in Archives \cup {Nil} :
          /\ stored[v].final # Nil
          /\ stored' = [stored EXCEPT ![v].final = a]
    /\ UNCHANGED <<published, updateRequest, updateLock, plugin, applying, backups, outcome>>

UpdateCrash ==
    /\ Event
    /\ updateRequest' = [h \in Requests |-> Nil] /\ updateLock' = Nil
    /\ applying' = Nil
    /\ outcome' = IF Idle THEN outcome ELSE "crashed"
    /\ UNCHANGED <<published, stored, plugin, backups>>

UpdateInit ==
    /\ \E v \in Versions, a \in Archives :
          published = [w \in Versions |-> IF w = v THEN [archive |-> a, checksum |-> a]
                                          ELSE [archive |-> Nil, checksum |-> Nil]]
    /\ updateRequest = [h \in Requests |-> Nil] /\ updateLock = Nil
    /\ stored = [v \in Versions |-> NotStored]
    /\ plugin = [f \in Files |-> 0] /\ applying = Nil /\ backups = {}
    /\ outcome = "none" /\ events = 0

UpdateNext ==
    \/ ReplaceFile \/ ReplaceFails \/ RestoreFile \/ ApplyEnds
    \/ Republish \/ RepublishChecksum \/ ArtifactChanges \/ UpdateCrash
    \/ \E h \in Requests :
          \/ Resolve(h) \/ BeginDownload(h) \/ ArchiveArrives(h) \/ Abandon(h)
          \/ ChecksumArrives(h) \/ Hashed(h) \/ Attested(h)
          \/ BeginInstall(h) \/ InstallRefused(h)

UpdateSpec == UpdateInit /\ [][UpdateNext]_updateVars

-----------------------------------------------------------------------------
Uniform(files) == \E v \in Versions \cup {0} : \A f \in Files : files[f] = v

(* An install applies the archive whose checksum it has verified itself,   *)
(* however often the release was republished or the stored file replaced   *)
(* between verification and the second lock.                               *)
AppliesWhatItVerified ==
    [][\A h \in Requests :
          (Idle /\ applying' # Nil /\ updateRequest'[h] # updateRequest[h]) =>
             applying'.archive = updateRequest[h].digest]_updateVars

(* A file is replaced by the update only when a complete backup holds what *)
(* it replaces, so that any mixture of versions a crash or an incomplete   *)
(* rollback leaves can be restored as a whole.                             *)
MixIsRecoverable == Uniform(plugin) \/ \E b \in backups : Uniform(b)

(* The result of an application is true: "installed" means that every file *)
(* is of the release, "restored" that every file is what it was before the *)
(* first one was replaced; anything else is reported as incomplete.        *)
(* (applyNapCatUpdateArchive)                                              *)
ReportsTruly ==
    ~Idle /\ applying' = Nil =>
        /\ outcome' = "installed" => plugin = [f \in Files |-> applying.archive.release]
        /\ outcome' = "restored" => plugin = applying.old

ResultIsTrue == [][ReportsTruly]_updateVars

-----------------------------------------------------------------------------
(* Strengthening: while the files are being replaced a backup holds all of *)
(* what they were, and it is known which file is of which version.         *)
Asset == Archives \cup {Nil}

UpdateRequest ==
    [op : {"download", "install"}, version : Versions,
     at : {"queued", "archive", "checksum", "hash", "attestation", "install"},
     expected : Asset, digest : Asset]

Applying ==
    [archive : Archives, left : SUBSET Files, replaced : SUBSET Files,
     old : [Files -> Versions \cup {0}], phase : {"replacing", "restoring"}, damaged : BOOLEAN]

ASSUME NilAssumption == Nil \notin Applying

ApplyingSound ==
    /\ applying \in Applying /\ applying.archive.release \in Versions
    /\ applying.old \in backups /\ \E b \in backups : Uniform(b)
    /\ applying.phase = "replacing" =>
          /\ applying.left = Files \ applying.replaced /\ ~applying.damaged
          /\ \A f \in applying.replaced : plugin[f] = applying.archive.release
    /\ ~applying.damaged =>
          \A f \in Files \ applying.replaced : plugin[f] = applying.old[f]

UpdateInd ==
    /\ UpdateTypeOK /\ MixIsRecoverable
    /\ published \in [Versions -> [archive : Asset, checksum : Asset]]
    /\ stored \in [Versions -> [final : Asset, unverified : Asset]]
    /\ updateRequest \in [Requests -> UpdateRequest \cup {Nil}]
    /\ ~Idle => ApplyingSound
=============================================================================
