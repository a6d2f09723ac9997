------------------------------- MODULE Lifecycle -------------------------------
(***************************************************************************)
(* Guardian's composition root, src/lifecycle.ts: boot, teardown and the   *)
(* cleanup both use, composed with the curfew scheduler, which boot waits  *)
(* for when it starts and cleanup when it stops.                           *)
(*                                                                         *)
(* The code between two awaits of boot is one step.  Of cleanup, whose     *)
(* only step that waits is stopCurfewModule, the steps before it are one   *)
(* step and those after it another.                                        *)
(***************************************************************************)
EXTENDS Curfew

CONSTANT SavesDuringCleanup  \* may the configuration be saved while a cleanup runs

ASSUME LifecycleAssumption == SavesDuringCleanup \in BOOLEAN

VARIABLES
    state,      \* idle, booting, running or stopping
    boot,       \* what boot's task awaits, and whether teardown invalidated it
    cleanup,    \* per owner: none, waiting for the curfew's stop, or done
    timers,     \* interval timers that are armed
    listeners,  \* modules whose listeners are on the event bus
    db,         \* the database is open
    host        \* the runtime host is set

resourceVars == <<timers, listeners, db, host>>
vars == <<curfewVars, state, boot, cleanup, resourceVars>>

NoBoot == [pc |-> "none", stale |-> FALSE]
Owners == {"boot", "teardown"}
Periodic == {"audit", "captcha", "sync", "intel", "statistics", "monitor"}

LifecycleTypeOK ==
    /\ CurfewTypeOK
    /\ state \in {"idle", "booting", "running", "stopping"}
    /\ boot \in [pc : {"none", "migrating", "curfew", "admin", "groups", "cleaning"},
                 stale : BOOLEAN]
    /\ cleanup \in [Owners -> {"none", "curfew", "done"}]
    /\ timers \subseteq Periodic
    /\ listeners \subseteq {"audit", "captcha", "sync", "intel"}
    /\ db \in BOOLEAN /\ host \in BOOLEAN

LifecycleInit ==
    /\ CurfewInit
    /\ state = "idle" /\ boot = NoBoot
    /\ cleanup = [o \in Owners |-> "none"]
    /\ timers = {} /\ listeners = {} /\ db = FALSE /\ host = FALSE

-----------------------------------------------------------------------------
(* Cleanup.                                                                *)

(* stopAuditModule ... intelService.stop, of the timers armed by then, and  *)
(* the start of the curfew's stop. *)
CleanupBegins(owner, armed) ==
    /\ timers' = armed \ {"audit", "captcha", "sync", "intel"}
    /\ StopCurfewModule
    /\ cleanup' = [cleanup EXCEPT ![owner] = "curfew"]

(* stopMonitorModule ... clearRuntimeHost. *)
CleanupEnds(owner) ==
    /\ cleanup[owner] = "curfew" /\ stopping = "no"
    /\ timers' = timers \ {"statistics", "monitor"}
    /\ listeners' = {} /\ db' = FALSE /\ host' = FALSE
    /\ cleanup' = [cleanup EXCEPT ![owner] = "done"]
    /\ UNCHANGED <<curfewVars, state, boot>>

-----------------------------------------------------------------------------
(* Boot.                                                                   *)

(* boot() while idle, up to the storage migration; otherwise it returns,   *)
(* joins the task under way or throws. *)
Boot ==
    /\ state = "idle"
    /\ state' = "booting" /\ host' = TRUE
    /\ boot' = [pc |-> "migrating", stale |-> FALSE]
    /\ UNCHANGED <<curfewVars, cleanup, timers, listeners, db>>

(* openDatabase, the audit module, and the start of the curfew module. *)
BootOpens ==
    /\ boot.pc = "migrating" /\ ~boot.stale
    /\ boot' = [boot EXCEPT !.pc = "curfew"]
    /\ db' = TRUE
    /\ timers' = timers \cup {"audit"} /\ listeners' = listeners \cup {"audit"}
    /\ InitCurfewModule
    /\ UNCHANGED <<state, cleanup, host>>

(* initCurfewModule has returned: the next modules start before the        *)
(* generation is checked, even beside a cleanup that closed the database;  *)
(* reloading the risk rules, before intel starts, throws then. *)
BootStartsModules ==
    /\ boot.pc = "curfew" /\ starting = "no"
    /\ \E throws \in BOOLEAN :
        LET started == {"statistics", "monitor", "captcha"}
        IN  /\ db \/ throws
            /\ listeners' = listeners \cup {"captcha"} \cup (IF throws THEN {} ELSE {"intel"})
            /\ IF throws \/ boot.stale
               THEN /\ boot' = [boot EXCEPT !.pc = "cleaning"]
                    /\ CleanupBegins("boot", timers \cup started)
               ELSE /\ boot' = [boot EXCEPT !.pc = "admin"]
                    /\ timers' \in {timers \cup started, timers \cup started \cup {"intel"}}
                    /\ UNCHANGED <<curfewVars, cleanup>>
    /\ UNCHANGED <<state, db, host>>

BootBootstraps ==
    /\ boot.pc = "admin" /\ ~boot.stale
    /\ boot' = [boot EXCEPT !.pc = "groups"]
    /\ UNCHANGED <<curfewVars, state, cleanup, resourceVars>>

-----------------------------------------------------------------------------
(* A saved configuration: ConfigChanged re-arms the timers of the modules  *)
(* that listen, as the new configuration has them, and schedules a tick.   *)
Rearm ==
    /\ \E t \in SUBSET (listeners \cap {"intel", "sync"}) :
           timers' = (timers \ (listeners \cap {"intel", "sync"})) \cup t
    /\ IF running THEN ScheduleTick ELSE UNCHANGED curfewVars

ConfigSaved ==
    /\ state # "idle" /\ (SavesDuringCleanup \/ \A o \in Owners : cleanup[o] = "none")
    /\ Rearm
    /\ UNCHANGED <<state, boot, cleanup, listeners, db, host>>

(* bootstrapGroups saves what it found, though a teardown may have begun. *)
BootSavesGroups ==
    /\ boot.pc = "groups"
    /\ Rearm
    /\ UNCHANGED <<state, boot, cleanup, listeners, db, host>>

(* initApprovalSync, and the end of boot. *)
BootCompletes ==
    /\ boot.pc = "groups" /\ ~boot.stale
    /\ timers' \in {timers, timers \cup {"sync"}}
    /\ listeners' = listeners \cup {"sync"}
    /\ state' = "running" /\ boot' = NoBoot
    /\ UNCHANGED <<curfewVars, cleanup, db, host>>

(* What boot awaits rejects, or finds that teardown has begun. *)
BootFails ==
    /\ boot.pc \in {"migrating", "admin", "groups"}
    /\ boot' = [boot EXCEPT !.pc = "cleaning"]
    /\ CleanupBegins("boot", timers)
    /\ UNCHANGED <<state, listeners, db, host>>

(* The failed task's cleanup is over. *)
BootEnds ==
    /\ boot.pc = "cleaning" /\ cleanup["boot"] = "done"
    /\ state' = IF state = "booting" /\ ~boot.stale THEN "idle" ELSE state
    /\ boot' = NoBoot
    /\ cleanup' = [cleanup EXCEPT !["boot"] = "none"]
    /\ UNCHANGED <<curfewVars, resourceVars>>

-----------------------------------------------------------------------------
(* Teardown.                                                               *)

Teardown ==
    /\ state \in {"booting", "running"}
    /\ state' = "stopping"
    /\ boot' = IF boot.pc = "none" THEN boot ELSE [boot EXCEPT !.stale = TRUE]
    /\ CleanupBegins("teardown", timers)
    /\ UNCHANGED <<listeners, db, host>>

(* A mutant: teardown does not wait for the boot it interrupted. *)
TeardownReturns ==
    /\ state = "stopping" /\ cleanup["teardown"] = "done"
    /\ state' = "idle"
    /\ cleanup' = [cleanup EXCEPT !["teardown"] = "none"]
    /\ UNCHANGED <<curfewVars, boot, resourceVars>>

TeardownEnds ==
    /\ state = "stopping" /\ cleanup["teardown"] = "done" /\ boot = NoBoot
    /\ state' = "idle"
    /\ cleanup' = [cleanup EXCEPT !["teardown"] = "none"]
    /\ UNCHANGED <<curfewVars, boot, resourceVars>>

-----------------------------------------------------------------------------
LifecycleStep == /\ CurfewStep
        /\ UNCHANGED <<state, boot, cleanup, resourceVars>>

(* What boot and teardown await settles in the end. *)
Progress ==
    \/ BootOpens \/ BootStartsModules \/ BootBootstraps \/ BootCompletes \/ BootFails \/ BootEnds
    \/ \E owner \in Owners : CleanupEnds(owner)
    \/ TeardownEnds
    \/ Inevitable /\ UNCHANGED <<state, boot, cleanup, resourceVars>>

LifecycleNext ==
    \/ Boot \/ BootOpens \/ BootStartsModules \/ BootBootstraps \/ BootSavesGroups
    \/ BootCompletes \/ BootFails \/ BootEnds
    \/ ConfigSaved
    \/ Teardown \/ TeardownEnds
    \/ \E owner \in Owners : CleanupEnds(owner)
    \/ LifecycleStep

LifecycleFairness ==
    /\ WF_vars(Progress)
    /\ WF_vars(ScheduleTick /\ UNCHANGED <<state, boot, cleanup, resourceVars>>)

LifecycleSpec == LifecycleInit /\ [][LifecycleNext]_vars
LifecycleFairSpec == LifecycleSpec /\ LifecycleFairness

-----------------------------------------------------------------------------
(***************************************************************************)
(* Properties.                                                             *)
(***************************************************************************)

(* Once idle again nothing that boot started is left: no timer, listener,  *)
(* database, host, curfew scheduler, or task still under way, however boot *)
(* and teardown overlapped. *)
IdleIsClean ==
    state = "idle" =>
        /\ boot = NoBoot /\ \A o \in Owners : cleanup[o] = "none"
        /\ timers = {} /\ listeners = {} /\ ~db /\ ~host
        /\ ~running /\ tick = NoTick /\ starting = "no" /\ stopping = "no"

(* A whole-group mute of the curfew does not outlive Guardian, unless the  *)
(* last action on that group failed or was not answered. *)
NoMuteOutlivesGuardian == state = "idle" => \A g \in muted : failed[g] # "none"

(* Teardown ends, also when it interrupts a boot and OneBot is silent.     *)
StopsInTheEnd == state = "stopping" ~> state = "idle"

(* While Guardian runs and a group's window is open, the curfew does not   *)
(* give up on it: the group is muted, or muting it is tried again and      *)
(* again.  The exception is a group whose last lifting was done but not    *)
(* answered: Guardian still takes it for muted. *)
CurfewKeepsTrying ==
    \A g \in Groups :
        <>[](state = "running" /\ want[g] = "on") =>
            []<>(\/ g \in muted
                 \/ tick.pc = "calling" /\ tick.job.group = g
                 \/ failed[g] = "lift")

(* Said of cleanup by src/lifecycle.ts:59: it stops every resource that    *)
(* boot acquired. *)
CleanupStopsEverything == state = "idle" => timers = {}

(***************************************************************************)
(* Strengthening.                                                          *)
(***************************************************************************)

(* The state, boot's task and the two cleanups. *)
TasksCoherent ==
    /\ state \in {"idle", "running"} => boot.pc = "none" /\ cleanup["teardown"] = "none"
    /\ state = "booting" => boot.pc # "none" /\ ~boot.stale /\ cleanup["teardown"] = "none"
    /\ state = "stopping" => cleanup["teardown"] # "none" /\ (boot.pc # "none" => boot.stale)
    /\ boot.pc = "cleaning" <=> cleanup["boot"] # "none"
    /\ boot.pc = "none" => ~boot.stale

(* Guardian runs, or a boot is yet to complete or to clean up. *)
Underway == state = "running" \/ boot.pc \in {"migrating", "curfew", "admin", "groups"}

Waiting == \E o \in Owners : cleanup[o] = "curfew"

(* A tick runs while the scheduler does, or while a stop waits for it.     *)
SchedulerCoherent ==
    /\ stopping # "no" => ~running
    /\ tick.pc # "none" => running \/ stopping = "draining"

(* Whatever the curfew does, somebody will stop it, or waits until it has. *)
CurfewOwned ==
    /\ starting # "no" => boot.pc = "curfew"
    /\ running => Underway
    /\ stopping # "no" => starting \in {"stopping", "overtaken"} \/ Waiting

(* What the second half of a cleanup releases, and what its first half.    *)
HeldIsOwed ==
    timers \cap {"statistics", "monitor"} # {} \/ listeners # {} \/ db \/ host =>
        Underway \/ Waiting

ArmedIsOwed == timers \cap {"audit", "captcha", "sync", "intel"} # {} => Underway

(* A mute whose last action was answered is recorded, and a stop lifts it. *)
MutesKnown ==
    /\ (\E g \in Groups : applied[g] = "on") => running \/ stopping # "no"
    /\ \A g \in muted : failed[g] = "none" =>
          applied[g] = "on" /\ (stopping = "lifting" => g \in lifting)

LifecycleIndInv ==
    /\ LifecycleTypeOK
    /\ TasksCoherent /\ SchedulerCoherent /\ CurfewOwned
    /\ HeldIsOwed /\ MutesKnown
=============================================================================
