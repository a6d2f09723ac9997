-------------------------------- MODULE Curfew --------------------------------
(***************************************************************************)
(* The curfew scheduler of src/modules/curfew/index.ts: a tick drives each *)
(* group to the whole-group mute its window asks for, one OneBot action at *)
(* a time; a stop waits for the tick and lifts the mutes Guardian holds.   *)
(*                                                                         *)
(* What a group's window, its settings and the clock ask for is the one    *)
(* value want[g], which a tick reads once when it starts.  A OneBot action *)
(* ends in one of three ways: done, refused, or done with its answer lost. *)
(***************************************************************************)
EXTENDS FiniteSets

CONSTANT Groups  \* the groups of config.approval.groups

ASSUME CurfewAssumption == IsFiniteSet(Groups)

VARIABLES
    want,      \* per group: "on" in its window, "off" outside, "none" without curfew
    muted,     \* the whole-group mutes Guardian caused, as QQ has them
    applied,   \* _lastApplied
    running,   \* _running
    tick,      \* _tickPromise: the transitions it has yet to make
    stopping,  \* _stopPromise
    lifting,   \* the groups whose lifting unmuteManagedGroups awaits
    starting,  \* initCurfewModule
    failed     \* history: the last action on the group, if it failed or had no answer

curfewVars == <<want, muted, applied, running, tick, stopping, lifting, starting, failed>>

Jobs == [group : Groups, on : BOOLEAN]
NoTick == [pc |-> "none", jobs |-> {}, stale |-> FALSE]

CurfewTypeOK ==
    /\ want \in [Groups -> {"on", "off", "none"}]
    /\ muted \subseteq Groups
    /\ applied \in [Groups -> {"none", "on", "off"}]
    /\ running \in BOOLEAN
    /\ tick \in [pc : {"none"}, jobs : {{}}, stale : {FALSE}] \cup
                [pc : {"ready", "announcing"}, jobs : SUBSET Jobs, stale : BOOLEAN] \cup
                [pc : {"calling"}, jobs : SUBSET Jobs, stale : BOOLEAN, job : Jobs]
    /\ stopping \in {"no", "draining", "lifting"}
    /\ lifting \subseteq Groups
    /\ starting \in {"no", "stopping", "overtaken", "ticking"}
    /\ failed \in [Groups -> {"none", "mute", "lift"}]

CurfewInit ==
    /\ want \in [Groups -> {"on", "off", "none"}]
    /\ muted = {}
    /\ failed = [g \in Groups |-> "none"]
    /\ applied = [g \in Groups |-> "none"]
    /\ running = FALSE /\ tick = NoTick
    /\ stopping = "no" /\ lifting = {} /\ starting = "no"

-----------------------------------------------------------------------------
(* The tick.                                                               *)

(* The transitions a tick that starts now has to make. *)
Due == {j \in Jobs : /\ j.on <=> want[j.group] = "on"
                     /\ IF want[j.group] = "none" THEN applied[j.group] = "on"
                        ELSE applied[j.group] # want[j.group]}

(* scheduleTick: a tick that is under way is joined.  Groups without       *)
(* curfew that Guardian has not muted are noted as off.                    *)
StartTick ==
    IF tick.pc # "none" THEN UNCHANGED <<tick, applied>>
    ELSE /\ tick' = IF Due = {} THEN NoTick
                    ELSE [pc |-> "ready", jobs |-> Due, stale |-> FALSE]
         /\ applied' = [g \in Groups |-> IF want[g] = "none" /\ applied[g] # "on"
                                         THEN "off" ELSE applied[g]]

(* The interval, or a ConfigChanged event. *)
ScheduleTick ==
    /\ running
    /\ StartTick
    /\ UNCHANGED <<want, muted, running, stopping, lifting, starting, failed>>

(* The tick ends; an init that awaits it returns. *)
EndTick ==
    /\ tick' = NoTick
    /\ starting' = IF starting = "ticking" THEN "no" ELSE starting

(* The loop of tick() and the first half of applyState, up to the action. *)
TickCalls ==
    /\ tick.pc = "ready"
    /\ IF tick.stale \/ tick.jobs = {}
       THEN EndTick
       ELSE \E j \in tick.jobs :
                /\ tick' = [pc |-> "calling", job |-> j, jobs |-> tick.jobs \ {j}, stale |-> FALSE]
                /\ UNCHANGED starting
    /\ UNCHANGED <<want, muted, applied, running, stopping, lifting, failed>>

(* The action was done: recorded even by a tick that is no longer current, *)
(* which announces nothing. *)
TickCallDone(g) ==
    /\ tick.pc = "calling" /\ tick.job.group = g
    /\ LET on == tick.job.on
           announces == ~tick.stale /\ (IF on THEN applied[g] # "none" ELSE applied[g] = "on")
       IN  /\ muted' = IF on THEN muted \cup {g} ELSE muted \ {g}
           /\ applied' = [applied EXCEPT ![g] = IF on THEN "on" ELSE "off"]
           /\ tick' = [pc |-> IF announces THEN "announcing" ELSE "ready",
                       jobs |-> tick.jobs, stale |-> tick.stale]
    /\ failed' = [failed EXCEPT ![g] = "none"]
    /\ UNCHANGED <<want, running, stopping, lifting, starting>>

(* A mutant: the state is recorded though the action failed. *)
TickCallFailsRecorded(g) ==
    /\ tick.pc = "calling" /\ tick.job.group = g
    /\ muted' \in {muted, IF tick.job.on THEN muted \cup {g} ELSE muted \ {g}}
    /\ tick' = [pc |-> "ready", jobs |-> tick.jobs, stale |-> tick.stale]
    /\ failed' = [failed EXCEPT ![g] = IF tick.job.on THEN "mute" ELSE "lift"]
    /\ applied' = [applied EXCEPT ![g] = IF tick.job.on THEN "on" ELSE "off"]
    /\ UNCHANGED <<want, running, stopping, lifting, starting>>

(* The action failed, or its answer was lost: nothing is recorded. *)
TickCallFails(g) ==
    /\ tick.pc = "calling" /\ tick.job.group = g
    /\ muted' \in {muted, IF tick.job.on THEN muted \cup {g} ELSE muted \ {g}}
    /\ tick' = [pc |-> "ready", jobs |-> tick.jobs, stale |-> tick.stale]
    /\ failed' = [failed EXCEPT ![g] = IF tick.job.on THEN "mute" ELSE "lift"]
    /\ UNCHANGED <<want, applied, running, stopping, lifting, starting>>

(* send_group_msg settles, one way or the other. *)
TickAnnounced ==
    /\ tick.pc = "announcing"
    /\ tick' = [tick EXCEPT !.pc = "ready"]
    /\ UNCHANGED <<want, muted, applied, running, stopping, lifting, starting, failed>>

-----------------------------------------------------------------------------
(* Stopping and starting.                                                  *)

Managed == {g \in Groups : applied[g] = "on"}

(* A mutant: the stop does not wait for the tick. *)
StopWithoutDraining ==
    IF stopping # "no" THEN UNCHANGED <<running, tick, stopping, lifting>>
    ELSE /\ running' = FALSE
         /\ tick' = IF tick.pc = "none" THEN tick ELSE [tick EXCEPT !.stale = TRUE]
         /\ stopping' = "lifting" /\ lifting' = Managed

(* stopCurfewModuleInternal: a stop in progress is joined; otherwise the   *)
(* generation moves on and the stop waits for the tick under way. *)
StopInternal ==
    IF stopping # "no" THEN UNCHANGED <<running, tick, stopping, lifting>>
    ELSE /\ running' = FALSE
         /\ IF tick.pc = "none"
            THEN stopping' = "lifting" /\ lifting' = Managed /\ UNCHANGED tick
            ELSE /\ tick' = [tick EXCEPT !.stale = TRUE]
                 /\ stopping' = "draining" /\ UNCHANGED lifting

StopDrained ==
    /\ stopping = "draining" /\ tick.pc = "none"
    /\ stopping' = "lifting" /\ lifting' = Managed
    /\ UNCHANGED <<want, muted, applied, running, tick, starting, failed>>

Lifted(g) ==
    /\ stopping = "lifting" /\ g \in lifting
    /\ muted' = muted \ {g}
    /\ failed' = [failed EXCEPT ![g] = "none"]
    /\ applied' = [applied EXCEPT ![g] = "off"]
    /\ lifting' = lifting \ {g}
    /\ UNCHANGED <<want, running, tick, stopping, starting>>

(* A mutant: only an answer, and no deadline, ends the wait. *)
LiftRefused(g) ==
    /\ stopping = "lifting" /\ g \in lifting
    /\ lifting' = lifting
    /\ failed' = [failed EXCEPT ![g] = "lift"]
    /\ UNCHANGED <<want, muted, applied, running, tick, stopping, starting>>

(* The action fails, or the shutdown deadline passes first: the mute may   *)
(* or may not have been lifted. *)
LiftFails(g) ==
    /\ stopping = "lifting" /\ g \in lifting
    /\ muted' \in {muted, muted \ {g}}
    /\ failed' = [failed EXCEPT ![g] = "lift"]
    /\ lifting' = lifting \ {g}
    /\ UNCHANGED <<want, applied, running, tick, stopping, starting>>

StopEnds ==
    /\ stopping = "lifting" /\ lifting = {}
    /\ stopping' = "no"
    /\ applied' = [g \in Groups |-> "none"]
    /\ UNCHANGED <<want, muted, running, tick, lifting, starting, failed>>

(* stopCurfewModule: an initialisation that waits for a stop is overtaken. *)
StopCurfewModule ==
    /\ StopInternal
    /\ starting' = IF starting = "stopping" THEN "overtaken" ELSE starting
    /\ UNCHANGED <<want, muted, applied, failed>>

(* initCurfewModule up to its first await. *)
InitCurfewModule ==
    /\ StopInternal
    /\ starting' = "stopping"
    /\ UNCHANGED <<want, muted, applied, failed>>

(* ... and up to its second, unless a stop came in between. *)
InitContinues ==
    /\ starting \in {"stopping", "overtaken"} /\ stopping = "no"
    /\ IF starting = "overtaken"
       THEN starting' = "no" /\ UNCHANGED <<running, tick, applied>>
       ELSE /\ running' = TRUE
            /\ StartTick
            /\ starting' = IF tick'.pc = "none" THEN "no" ELSE "ticking"
    /\ UNCHANGED <<want, muted, stopping, lifting, failed>>

-----------------------------------------------------------------------------
(* The clock reaches a window's edge, or the group's settings change. *)
WindowChanges(g) ==
    /\ \E w \in {"on", "off", "none"} \ {want[g]} : want' = [want EXCEPT ![g] = w]
    /\ UNCHANGED <<muted, applied, running, tick, stopping, lifting, starting, failed>>

(* What happens whether OneBot answers or not: the transport gives up on a *)
(* call in the end, and the deadline of a stop ends its waiting. *)
Inevitable ==
    \/ TickCalls \/ TickAnnounced
    \/ \E g \in Groups : TickCallFails(g) \/ LiftFails(g)
    \/ StopDrained \/ StopEnds \/ InitContinues

CurfewStep ==
    \/ Inevitable
    \/ ScheduleTick
    \/ \E g \in Groups : TickCallDone(g) \/ Lifted(g) \/ WindowChanges(g)
=============================================================================
