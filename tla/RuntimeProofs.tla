---------------------------- MODULE RuntimeProofs -----------------------------
(***************************************************************************)
(* Proofs about the work Guardian does by itself: the sweep of expired     *)
(* CAPTCHA sessions (CaptchaSweep), and the curfew and the lifecycle that  *)
(* starts and ends everything (Curfew, Lifecycle).                         *)
(***************************************************************************)
EXTENDS CaptchaSweep, Lifecycle, FiniteSetTheorems, TLAPS

-----------------------------------------------------------------------------
(***************************************************************************)
(* CaptchaSweep, for any sessions and any concurrency: slots, entries and  *)
(* the rejections in flight stay the same set, whatever times out, settles *)
(* late or is answered between two sweeps.                                 *)
(***************************************************************************)
LEMMA ConcurrencyNat == Concurrency \in Nat
BY SweepAssumption, FS_CardinalityType DEF Concurrency

LEMMA InFlightFinite == IsFiniteSet(InFlight) /\ Cardinality(InFlight) \in Nat
<1>1. InFlight \subseteq Sessions
    BY DEF InFlight
<1> QED
    BY <1>1, SweepAssumption, FS_Subset, FS_CardinalityType

(* The rows a sweep selects, in whatever order, are a sequence of sessions. *)
LEMMA OrdersTyped ==
    ASSUME NEW S \in SUBSET Sessions, NEW q \in Orders(S)
    PROVE  q \in Seq(Sessions)
<1>1. Cardinality(S) \in Nat
    BY SweepAssumption, FS_Subset, FS_CardinalityType
<1>2. q \in [1..Cardinality(S) -> Sessions]
    BY DEF Orders
<1> QED
    BY <1>1, <1>2

(***************************************************************************)
(* Steps that start or settle no rejection: replies, deadlines, timeouts   *)
(* and workers that skip a row or return.                                  *)
(***************************************************************************)
LEMMA BoundedUnlessExpiring ==
    ASSUME InFlightBounded, UNCHANGED <<expiring, slots>>,
           \A s \in Sessions : holder'[s] = "expiry" <=> holder[s] = "expiry"
    PROVE  InFlightBounded'
<1>1. InFlight' = InFlight
    BY DEF InFlight
<1> QED
    BY <1>1 DEF InFlightBounded

LEMMA TypesAtTake ==
    ASSUME SweepTypeOK, NEW w \in Workers, Take(w)
    PROVE  SweepTypeOK' /\ Head(todo) \in Sessions
<1>1. todo \in Seq(Sessions) /\ todo # <<>>
    BY DEF Take, SweepTypeOK
<1>2. Head(todo) \in Sessions /\ Tail(todo) \in Seq(Sessions)
    BY <1>1
<1>3. /\ todo' = Tail(todo) /\ UNCHANGED status
      /\ \/ UNCHANGED <<holder, worker, expiring, slots>> /\ sweeping' \subseteq sweeping
         \/ /\ holder' = [holder EXCEPT ![Head(todo)] = "expiry"]
            /\ expiring' = expiring \cup {Head(todo)} /\ slots' = slots + 1
            /\ worker' = [worker EXCEPT ![w] = Head(todo)] /\ UNCHANGED sweeping
    BY DEF Take
<1> QED
    BY <1>2, <1>3 DEF SweepTypeOK

LEMMA SweepInductive ==
    ASSUME SweepTypeOK, InFlightBounded, [SweepNext]_sweepVars
    PROVE  SweepTypeOK' /\ InFlightBounded'
<1>1. CASE ExpireAllStale
    <2> DEFINE stale == {s \in Sessions : status[s] = "stale"}
    <2>1. todo' \in Orders(stale) /\ sweeping' \subseteq Workers
          /\ UNCHANGED <<status, holder, worker, expiring, slots>>
        BY <1>1 DEF ExpireAllStale
    <2>2. todo' \in Seq(Sessions)
        BY <2>1, OrdersTyped
    <2> QED
        BY <2>1, <2>2, BoundedUnlessExpiring DEF SweepTypeOK
<1>2. ASSUME NEW w \in Workers, Take(w) PROVE SweepTypeOK' /\ InFlightBounded'
    <2> DEFINE s == Head(todo)
    <2>1. SweepTypeOK' /\ s \in Sessions
        BY <1>2, TypesAtTake
    <2>2. CASE UNCHANGED <<holder, expiring, slots>>
        BY <2>1, <2>2, BoundedUnlessExpiring
    <2>3. CASE ~UNCHANGED <<holder, expiring, slots>>
        <3>1. /\ s \notin expiring /\ slots < Concurrency
              /\ holder' = [holder EXCEPT ![s] = "expiry"]
              /\ expiring' = expiring \cup {s} /\ slots' = slots + 1
            BY <1>2, <2>3 DEF Take
        <3>2. InFlight' = InFlight \cup {s} /\ s \notin InFlight
            BY <2>1, <3>1 DEF InFlight, InFlightBounded, SweepTypeOK
        <3>3. Cardinality(InFlight \cup {s}) = Cardinality(InFlight) + 1
            BY <3>2, InFlightFinite, FS_AddElement
        <3> QED
            BY <2>1, <3>1, <3>2, <3>3, InFlightFinite, ConcurrencyNat DEF InFlightBounded
    <2> QED
        BY <2>2, <2>3
<1>3. ASSUME NEW w \in Workers, Return(w) \/ Timeout(w) PROVE SweepTypeOK' /\ InFlightBounded'
    <2>1. UNCHANGED <<holder, expiring, slots>>
        BY <1>3 DEF Return, Timeout
    <2>2. SweepTypeOK'
        BY <1>3 DEF Return, Timeout, SweepTypeOK
    <2> QED
        BY <2>1, <2>2, BoundedUnlessExpiring
<1>4. ASSUME NEW s \in Sessions, DeadlinePasses(s) \/ ReplyLocks(s) \/ ReplyUnlocks(s) \/ ReconcileCloses(s)
      PROVE  SweepTypeOK' /\ InFlightBounded'
    <2>1. SweepTypeOK' /\ UNCHANGED <<expiring, slots>>
        BY <1>4 DEF DeadlinePasses, ReplyLocks, ReplyUnlocks, ReconcileCloses, SweepTypeOK
    <2>2. \A r \in Sessions : holder'[r] = "expiry" <=> holder[r] = "expiry"
        BY <1>4 DEF DeadlinePasses, ReplyLocks, ReplyUnlocks, ReconcileCloses, SweepTypeOK
    <2> QED
        BY <2>1, <2>2, BoundedUnlessExpiring
<1>5. ASSUME NEW s \in Sessions, Settle(s) PROVE SweepTypeOK' /\ InFlightBounded'
    <2>1. /\ holder[s] = "expiry" /\ holder' = [holder EXCEPT ![s] = "free"]
          /\ expiring' = expiring \ {s} /\ slots' = slots - 1
        BY <1>5 DEF Settle
    <2>2. InFlight' = InFlight \ {s} /\ s \in InFlight
        BY <2>1 DEF InFlight, SweepTypeOK
    <2>3. Cardinality(InFlight \ {s}) = Cardinality(InFlight) - 1
        BY <2>2, InFlightFinite, FS_RemoveElement
    <2>4. Cardinality(InFlight \ {s}) \in Nat
        BY <2>2, InFlightFinite, FS_RemoveElement, FS_CardinalityType
    <2>5. slots' = Cardinality(InFlight') /\ slots' \in Nat /\ InFlightBounded'
        BY <2>1, <2>2, <2>3, <2>4, InFlightFinite, ConcurrencyNat DEF InFlightBounded
    <2>6. worker' \in [Workers -> Sessions \cup {NoSession}]
        BY <1>5 DEF Settle, SweepTypeOK
    <2> QED
        BY <1>5, <2>1, <2>5, <2>6 DEF Settle, SweepTypeOK
<1>6. CASE UNCHANGED sweepVars
    BY <1>6, BoundedUnlessExpiring DEF sweepVars, SweepTypeOK
<1> QED
    BY <1>1, <1>2, <1>3, <1>4, <1>5, <1>6 DEF SweepNext

LEMMA SweepStart == SweepInit => SweepTypeOK /\ InFlightBounded
<1> SUFFICES ASSUME SweepInit PROVE SweepTypeOK /\ InFlightBounded
    OBVIOUS
<1>1. SweepTypeOK
    BY DEF SweepInit, SweepTypeOK
<1>2. InFlight = {}
    BY DEF SweepInit, InFlight
<1>3. Cardinality(InFlight) = 0
    BY <1>2, FS_EmptySet
<1> QED
    BY <1>1, <1>2, <1>3, ConcurrencyNat DEF SweepInit, InFlightBounded

(***************************************************************************)
(* "A timed-out provider promise keeps its slot until it actually          *)
(* settles" (captcha/index.ts:258): over any number of sweeps, timeouts    *)
(* and late answers the limit holds and no slot leaks.                     *)
(***************************************************************************)
THEOREM InFlightBoundedHolds == SweepSpec => []InFlightBounded
<1>1. SweepTypeOK /\ InFlightBounded /\ [SweepNext]_sweepVars => (SweepTypeOK /\ InFlightBounded)'
    BY SweepInductive
<1> QED
    BY <1>1, SweepStart, PTL DEF SweepSpec

-----------------------------------------------------------------------------
(***************************************************************************)
(* Curfew and Lifecycle, for any groups: what is left when Guardian is     *)
(* idle again, however boot, teardown and curfew overlapped.               *)
(***************************************************************************)
(***************************************************************************)
(* Ticks.                                                                  *)
(***************************************************************************)
Ticks == [pc : {"none"}, jobs : {{}}, stale : {FALSE}] \cup
         [pc : {"ready", "announcing"}, jobs : SUBSET Jobs, stale : BOOLEAN] \cup
         [pc : {"calling"}, jobs : SUBSET Jobs, stale : BOOLEAN, job : Jobs]

LEMMA TickParts ==
    ASSUME NEW t \in Ticks
    PROVE  /\ t.pc \in {"none", "ready", "announcing", "calling"}
           /\ t.jobs \in SUBSET Jobs /\ t.stale \in BOOLEAN
           /\ t.pc = "calling" => t.job \in Jobs
           /\ t.pc = "none" => t = NoTick
BY DEF Ticks, NoTick

LEMMA TickMarked ==
    ASSUME NEW t \in Ticks, t.pc # "none"
    PROVE  LET u == [t EXCEPT !.stale = TRUE] IN u \in Ticks /\ u.pc = t.pc
BY DEF Ticks

LEMMA TickBetween ==
    ASSUME NEW pc \in {"ready", "announcing"}, NEW jobs \in SUBSET Jobs, NEW stale \in BOOLEAN
    PROVE  [pc |-> pc, jobs |-> jobs, stale |-> stale] \in Ticks
BY DEF Ticks

LEMMA TickCalling ==
    ASSUME NEW j \in Jobs, NEW jobs \in SUBSET Jobs
    PROVE  [pc |-> "calling", job |-> j, jobs |-> jobs, stale |-> FALSE] \in Ticks
BY DEF Ticks

LEMMA NoTickTyped == NoTick \in Ticks /\ NoTick.pc = "none"
BY DEF Ticks, NoTick

(***************************************************************************)
(* The curfew alone.                                                       *)
(***************************************************************************)
CurfewSafe == CurfewTypeOK /\ SchedulerCoherent /\ MutesKnown

LEMMA TickTyped == CurfewTypeOK => tick \in Ticks
BY DEF CurfewTypeOK, Ticks

(* What a step does to the types, the tick as one value. *)
LEMMA CurfewTypes ==
    ASSUME want' \in [Groups -> {"on", "off", "none"}], muted' \subseteq Groups,
           applied' \in [Groups -> {"none", "on", "off"}], running' \in BOOLEAN, tick' \in Ticks,
           stopping' \in {"no", "draining", "lifting"}, lifting' \subseteq Groups,
           starting' \in {"no", "stopping", "overtaken", "ticking"},
           failed' \in [Groups -> {"none", "mute", "lift"}]
    PROVE  CurfewTypeOK'
BY DEF CurfewTypeOK, Ticks

LEMMA StartTickEffect ==
    ASSUME CurfewTypeOK, StartTick
    PROVE  /\ tick' \in Ticks /\ applied' \in [Groups -> {"none", "on", "off"}]
           /\ \A g \in Groups : applied'[g] = "on" <=> applied[g] = "on"
<1>1. tick \in Ticks
    BY TickTyped
<1>2. CASE tick.pc # "none"
    BY <1>1, <1>2 DEF StartTick, CurfewTypeOK
<1>3. CASE tick.pc = "none"
    <2>1. /\ tick' = IF Due = {} THEN NoTick ELSE [pc |-> "ready", jobs |-> Due, stale |-> FALSE]
          /\ applied' = [g \in Groups |-> IF want[g] = "none" /\ applied[g] # "on"
                                          THEN "off" ELSE applied[g]]
        BY <1>3 DEF StartTick
    <2>2. Due \in SUBSET Jobs
        BY DEF Due
    <2>3. tick' \in Ticks
        BY <2>1, <2>2, NoTickTyped, TickBetween
    <2> QED
        BY <2>1, <2>3 DEF CurfewTypeOK
<1> QED
    BY <1>2, <1>3

(* Steps of a tick, and of the clock: only a running scheduler, or one that *)
(* drains, has a tick, and nothing is being lifted meanwhile.               *)
LEMMA TickSteps ==
    ASSUME CurfewSafe,
           \/ TickCalls \/ TickAnnounced \/ ScheduleTick
           \/ \E g \in Groups : TickCallFails(g) \/ TickCallDone(g) \/ WindowChanges(g)
    PROVE  /\ CurfewSafe' /\ UNCHANGED <<running, stopping, lifting>>
           /\ starting' = starting \/ (starting = "ticking" /\ starting' = "no")
<1>0. CurfewTypeOK /\ SchedulerCoherent /\ MutesKnown /\ tick \in Ticks
    BY TickTyped DEF CurfewSafe
<1>1. CASE TickCalls
    <2>1. /\ tick.pc = "ready"
          /\ UNCHANGED <<want, muted, applied, running, stopping, lifting, failed>>
          /\ starting' = starting \/ (starting = "ticking" /\ starting' = "no")
        BY <1>1 DEF TickCalls, EndTick
    <2>2. tick' \in Ticks
        <3>1. CASE tick.stale \/ tick.jobs = {}
            BY <1>1, <3>1, NoTickTyped DEF TickCalls, EndTick
        <3>2. CASE ~(tick.stale \/ tick.jobs = {})
            <4>1. PICK j \in tick.jobs :
                    tick' = [pc |-> "calling", job |-> j, jobs |-> tick.jobs \ {j}, stale |-> FALSE]
                BY <1>1, <3>2 DEF TickCalls
            <4>2. j \in Jobs /\ tick.jobs \ {j} \in SUBSET Jobs
                BY <1>0, TickParts
            <4> QED
                BY <4>1, <4>2, TickCalling
        <3> QED
            BY <3>1, <3>2
    <2>3. CurfewTypeOK'
        BY <1>0, <2>1, <2>2, CurfewTypes DEF CurfewTypeOK
    <2>4. SchedulerCoherent' /\ MutesKnown'
        BY <1>0, <2>1 DEF SchedulerCoherent, MutesKnown
    <2> QED
        BY <2>1, <2>3, <2>4 DEF CurfewSafe
<1>2. CASE TickAnnounced
    <2>1. /\ tick.pc = "announcing" /\ tick' = [tick EXCEPT !.pc = "ready"]
          /\ UNCHANGED <<want, muted, applied, running, stopping, lifting, starting, failed>>
        BY <1>2 DEF TickAnnounced
    <2>2. tick' \in Ticks
        BY <1>0, <2>1 DEF Ticks
    <2>3. CurfewTypeOK'
        BY <1>0, <2>1, <2>2, CurfewTypes DEF CurfewTypeOK
    <2>4. SchedulerCoherent' /\ MutesKnown'
        BY <1>0, <2>1 DEF SchedulerCoherent, MutesKnown
    <2> QED
        BY <2>1, <2>3, <2>4 DEF CurfewSafe
<1>3. CASE ScheduleTick
    <2>1. /\ running /\ StartTick
          /\ UNCHANGED <<want, muted, running, stopping, lifting, starting, failed>>
        BY <1>3 DEF ScheduleTick
    <2>2. /\ tick' \in Ticks /\ applied' \in [Groups -> {"none", "on", "off"}]
          /\ \A g \in Groups : applied'[g] = "on" <=> applied[g] = "on"
        BY <1>0, <2>1, StartTickEffect
    <2>3. CurfewTypeOK'
        BY <1>0, <2>1, <2>2, CurfewTypes DEF CurfewTypeOK
    <2>4. SchedulerCoherent' /\ MutesKnown'
        BY <1>0, <2>1, <2>2 DEF SchedulerCoherent, MutesKnown, CurfewTypeOK
    <2> QED
        BY <2>1, <2>3, <2>4 DEF CurfewSafe
<1>4. ASSUME NEW g \in Groups, TickCallFails(g)
      PROVE  CurfewSafe' /\ UNCHANGED <<running, stopping, lifting, starting>>
    <2>1. /\ tick.pc = "calling"
          /\ muted' = muted \/ muted' = muted \cup {g} \/ muted' = muted \ {g}
          /\ tick' = [pc |-> "ready", jobs |-> tick.jobs, stale |-> tick.stale]
          /\ failed' = [failed EXCEPT ![g] = IF tick.job.on THEN "mute" ELSE "lift"]
          /\ UNCHANGED <<want, applied, running, stopping, lifting, starting>>
        BY <1>4 DEF TickCallFails
    <2>2. tick' \in Ticks
        BY <1>0, <2>1, TickParts, TickBetween
    <2>3. CurfewTypeOK'
        BY <1>0, <2>1, <2>2, CurfewTypes DEF CurfewTypeOK
    <2>4. SchedulerCoherent' /\ MutesKnown'
        BY <1>0, <2>1 DEF SchedulerCoherent, MutesKnown, CurfewTypeOK
    <2> QED
        BY <2>1, <2>3, <2>4 DEF CurfewSafe
<1>5. ASSUME NEW g \in Groups, TickCallDone(g)
      PROVE  CurfewSafe' /\ UNCHANGED <<running, stopping, lifting, starting>>
    <2>1. PICK pc \in {"ready", "announcing"}, on \in BOOLEAN :
          /\ tick.pc = "calling"
          /\ muted' = IF on THEN muted \cup {g} ELSE muted \ {g}
          /\ applied' = [applied EXCEPT ![g] = IF on THEN "on" ELSE "off"]
          /\ tick' = [pc |-> pc, jobs |-> tick.jobs, stale |-> tick.stale]
          /\ failed' = [failed EXCEPT ![g] = "none"]
          /\ UNCHANGED <<want, running, stopping, lifting, starting>>
        <3>1. tick.pc = "calling" /\ tick.job \in Jobs
            BY <1>0, <1>5, TickParts DEF TickCallDone
        <3>2. tick.job.on \in BOOLEAN
            BY <3>1 DEF Jobs
        <3> DEFINE announces == ~tick.stale /\ (IF tick.job.on THEN applied[g] # "none" ELSE applied[g] = "on")
        <3>3. (IF announces THEN "announcing" ELSE "ready") \in {"ready", "announcing"}
            OBVIOUS
        <3> QED
            BY <1>5, <3>1, <3>2, <3>3 DEF TickCallDone
    <2>2. tick' \in Ticks
        BY <1>0, <2>1, TickParts, TickBetween
    <2>3. CurfewTypeOK'
        BY <1>0, <2>1, <2>2, CurfewTypes DEF CurfewTypeOK
    <2>4. SchedulerCoherent'
        BY <1>0, <2>1 DEF SchedulerCoherent
    <2>5. MutesKnown'
        BY <1>0, <2>1 DEF SchedulerCoherent, MutesKnown, CurfewTypeOK
    <2> QED
        BY <2>1, <2>3, <2>4, <2>5 DEF CurfewSafe
<1>6. ASSUME NEW g \in Groups, WindowChanges(g)
      PROVE  CurfewSafe' /\ UNCHANGED <<running, stopping, lifting, starting>>
    <2>1. /\ want' \in [Groups -> {"on", "off", "none"}]
          /\ UNCHANGED <<muted, applied, running, tick, stopping, lifting, starting, failed>>
        BY <1>0, <1>6 DEF WindowChanges, CurfewTypeOK
    <2>2. CurfewTypeOK'
        BY <1>0, <2>1, CurfewTypes DEF CurfewTypeOK
    <2>3. SchedulerCoherent' /\ MutesKnown'
        BY <1>0, <2>1 DEF SchedulerCoherent, MutesKnown
    <2> QED
        BY <2>1, <2>2, <2>3 DEF CurfewSafe
<1> QED
    BY <1>1, <1>2, <1>3, <1>4, <1>5, <1>6

(* A stop that begins, or joins one: the mutes it will lift are those known. *)
LEMMA StopBegins ==
    ASSUME CurfewSafe, StopInternal, UNCHANGED <<want, muted, applied, failed>>,
           starting' \in {"no", "stopping", "overtaken", "ticking"}
    PROVE  CurfewSafe' /\ ~running' /\ stopping' # "no"
<1>0. CurfewTypeOK /\ SchedulerCoherent /\ MutesKnown /\ tick \in Ticks
    BY TickTyped DEF CurfewSafe
<1>1. CASE stopping # "no"
    <2>1. UNCHANGED <<running, tick, stopping, lifting>>
        BY <1>1 DEF StopInternal
    <2>2. CurfewTypeOK'
        BY <1>0, <2>1, CurfewTypes DEF CurfewTypeOK
    <2>3. SchedulerCoherent' /\ MutesKnown'
        BY <1>0, <2>1 DEF SchedulerCoherent, MutesKnown
    <2> QED
        BY <1>0, <1>1, <2>1, <2>2, <2>3 DEF CurfewSafe, SchedulerCoherent
<1>2. CASE stopping = "no"
    <2>1. running' = FALSE /\ stopping' # "no" /\ stopping' \in {"draining", "lifting"}
        BY <1>2 DEF StopInternal
    <2>2. tick' \in Ticks /\ tick'.pc = tick.pc
        BY <1>0, <1>2, TickMarked DEF StopInternal
    <2>3. IF tick.pc = "none" THEN stopping' = "lifting" /\ lifting' = Managed
          ELSE stopping' = "draining" /\ lifting' = lifting
        BY <1>2 DEF StopInternal
    <2>4. CurfewTypeOK'
        BY <1>0, <2>1, <2>2, <2>3, CurfewTypes DEF CurfewTypeOK, Managed
    <2>5. SchedulerCoherent'
        BY <2>1, <2>2, <2>3 DEF SchedulerCoherent
    <2>6. MutesKnown'
        BY <1>0, <2>1, <2>3 DEF MutesKnown, Managed, CurfewTypeOK
    <2> QED
        BY <2>1, <2>4, <2>5, <2>6 DEF CurfewSafe
<1> QED
    BY <1>1, <1>2 DEF CurfewSafe, CurfewTypeOK

LEMMA StopSteps ==
    ASSUME CurfewSafe,
           StopDrained \/ StopEnds \/ \E g \in Groups : LiftFails(g) \/ Lifted(g)
    PROVE  /\ CurfewSafe' /\ UNCHANGED <<running, starting>> /\ stopping # "no"
<1>0. CurfewTypeOK /\ SchedulerCoherent /\ MutesKnown /\ tick \in Ticks
    BY TickTyped DEF CurfewSafe
<1>1. CASE StopDrained
    <2>1. /\ stopping = "draining" /\ tick.pc = "none" /\ stopping' = "lifting" /\ lifting' = Managed
          /\ UNCHANGED <<want, muted, applied, running, tick, starting, failed>>
        BY <1>1 DEF StopDrained
    <2>2. CurfewTypeOK'
        BY <1>0, <2>1, CurfewTypes DEF CurfewTypeOK, Managed
    <2>3. SchedulerCoherent' /\ MutesKnown'
        BY <1>0, <2>1 DEF SchedulerCoherent, MutesKnown, Managed, CurfewTypeOK
    <2> QED
        BY <2>1, <2>2, <2>3 DEF CurfewSafe
<1>2. CASE StopEnds
    <2>1. /\ stopping = "lifting" /\ lifting = {} /\ stopping' = "no"
          /\ applied' = [g \in Groups |-> "none"]
          /\ UNCHANGED <<want, muted, running, tick, lifting, starting, failed>>
        BY <1>2 DEF StopEnds
    <2>2. CurfewTypeOK'
        BY <1>0, <2>1, CurfewTypes DEF CurfewTypeOK
    <2>3. SchedulerCoherent' /\ MutesKnown'
        BY <1>0, <2>1 DEF SchedulerCoherent, MutesKnown, CurfewTypeOK
    <2> QED
        BY <2>1, <2>2, <2>3 DEF CurfewSafe
<1>3. ASSUME NEW g \in Groups, LiftFails(g) \/ Lifted(g)
      PROVE  CurfewSafe' /\ UNCHANGED <<running, starting, stopping>> /\ stopping = "lifting"
    <2>1. /\ stopping = "lifting" /\ lifting' = lifting \ {g}
          /\ UNCHANGED <<want, running, tick, stopping, starting>>
          /\ \/ /\ muted' = muted \ {g} /\ failed' = [failed EXCEPT ![g] = "none"]
                /\ applied' = [applied EXCEPT ![g] = "off"]
             \/ /\ muted' \in {muted, muted \ {g}} /\ failed' = [failed EXCEPT ![g] = "lift"]
                /\ applied' = applied
        BY <1>3 DEF LiftFails, Lifted
    <2>2. CurfewTypeOK'
        BY <1>0, <2>1, CurfewTypes DEF CurfewTypeOK
    <2>3. SchedulerCoherent'
        BY <1>0, <2>1 DEF SchedulerCoherent
    <2>4. MutesKnown'
        BY <1>0, <2>1 DEF MutesKnown, CurfewTypeOK
    <2> QED
        BY <2>1, <2>2, <2>3, <2>4 DEF CurfewSafe
<1> QED
    BY <1>1, <1>2, <1>3

LEMMA InitContinuesStep ==
    ASSUME CurfewSafe, InitContinues
    PROVE  /\ CurfewSafe' /\ stopping = "no" /\ UNCHANGED stopping
           /\ starting \in {"stopping", "overtaken"}
<1>0. CurfewTypeOK /\ SchedulerCoherent /\ MutesKnown /\ tick \in Ticks
    BY TickTyped DEF CurfewSafe
<1>1. /\ starting \in {"stopping", "overtaken"} /\ stopping = "no"
      /\ UNCHANGED <<want, muted, stopping, lifting, failed>>
    BY DEF InitContinues
<1>2. CASE starting = "overtaken"
    <2>1. starting' = "no" /\ UNCHANGED <<running, tick, applied>>
        BY <1>2 DEF InitContinues
    <2>2. CurfewTypeOK'
        BY <1>0, <1>1, <2>1, CurfewTypes DEF CurfewTypeOK
    <2>3. SchedulerCoherent' /\ MutesKnown'
        BY <1>0, <1>1, <2>1 DEF SchedulerCoherent, MutesKnown
    <2> QED
        BY <1>1, <2>2, <2>3 DEF CurfewSafe
<1>3. CASE starting # "overtaken"
    <2>1. running' = TRUE /\ StartTick /\ starting' \in {"no", "ticking"}
        BY <1>3 DEF InitContinues
    <2>2. /\ tick' \in Ticks /\ applied' \in [Groups -> {"none", "on", "off"}]
          /\ \A g \in Groups : applied'[g] = "on" <=> applied[g] = "on"
        BY <1>0, <2>1, StartTickEffect
    <2>3. CurfewTypeOK'
        BY <1>0, <1>1, <2>1, <2>2, CurfewTypes DEF CurfewTypeOK
    <2>4. SchedulerCoherent' /\ MutesKnown'
        BY <1>0, <1>1, <2>1, <2>2 DEF SchedulerCoherent, MutesKnown, CurfewTypeOK
    <2> QED
        BY <1>1, <2>3, <2>4 DEF CurfewSafe
<1> QED
    BY <1>2, <1>3

(***************************************************************************)
(* Boot and teardown.                                                      *)
(***************************************************************************)
Places == {"none", "migrating", "curfew", "admin", "groups", "cleaning"}
Boots == [pc : Places, stale : BOOLEAN]

LEMMA BootMoved ==
    ASSUME NEW b \in Boots, NEW p \in Places
    PROVE  LET c == [b EXCEPT !.pc = p] IN c \in Boots /\ c.pc = p /\ c.stale = b.stale
BY DEF Boots

LEMMA BootMarked ==
    ASSUME NEW b \in Boots
    PROVE  LET c == [b EXCEPT !.stale = TRUE] IN c \in Boots /\ c.pc = b.pc /\ c.stale = TRUE
BY DEF Boots

(* Boot, its cleanup and teardown's, as far as they concern each other. *)
TasksTyped ==
    /\ state \in {"idle", "booting", "running", "stopping"} /\ boot \in Boots
    /\ cleanup \in [Owners -> {"none", "curfew", "done"}]

HeldTyped ==
    /\ timers \subseteq Periodic /\ listeners \subseteq {"audit", "captcha", "sync", "intel"}
    /\ db \in BOOLEAN /\ host \in BOOLEAN

Guarded == CurfewSafe /\ TasksTyped /\ HeldTyped /\ TasksCoherent /\ CurfewOwned /\ HeldIsOwed

LEMMA GuardedIsInv == Guarded <=> LifecycleIndInv
BY DEF Guarded, CurfewSafe, TasksTyped, HeldTyped, LifecycleIndInv, LifecycleTypeOK, Boots, Places

LEMMA OwnersAre == Owners = {"boot", "teardown"}
BY DEF Owners

(* The curfew's own steps, while boot and teardown stand still. *)
LEMMA CurfewSteps ==
    ASSUME Guarded, CurfewStep, UNCHANGED <<state, boot, cleanup>>, HeldTyped',
           (timers' \cap {"statistics", "monitor"} # {} \/ listeners' # {} \/ db' \/ host') => Underway \/ Waiting
    PROVE  Guarded'
<1>0. CurfewSafe /\ TasksTyped /\ HeldTyped /\ TasksCoherent /\ CurfewOwned /\ HeldIsOwed
    BY DEF Guarded
<1>1. /\ CurfewSafe'
      /\ running' => running \/ starting \in {"stopping", "overtaken"}
      /\ starting' # "no" => starting # "no"
      /\ stopping' # "no" => stopping # "no" /\ (starting \in {"stopping", "overtaken"} => starting' = starting)
    <2>1. CASE TickCalls \/ TickAnnounced \/ ScheduleTick
               \/ \E g \in Groups : TickCallFails(g) \/ TickCallDone(g) \/ WindowChanges(g)
        BY <1>0, <2>1, TickSteps
    <2>2. CASE StopDrained \/ StopEnds \/ \E g \in Groups : LiftFails(g) \/ Lifted(g)
        BY <1>0, <2>2, StopSteps
    <2>3. CASE InitContinues
        BY <1>0, <2>3, InitContinuesStep
    <2> QED
        BY <2>1, <2>2, <2>3 DEF CurfewStep, Inevitable
<1>2. TasksTyped' /\ TasksCoherent' /\ Underway' = Underway /\ Waiting' = Waiting
    BY <1>0 DEF TasksTyped, TasksCoherent, Underway, Waiting
<1>3. CurfewOwned'
    BY <1>0, <1>1, <1>2 DEF CurfewOwned, Underway
<1>4. HeldIsOwed'
    BY <1>2 DEF HeldIsOwed
<1> QED
    BY <1>1, <1>2, <1>3, <1>4 DEF Guarded

(* A cleanup that begins stops the curfew and is waited for. *)
LEMMA CleanupBeginsEffect ==
    ASSUME Guarded, NEW owner \in Owners, NEW armed \in SUBSET Periodic, CleanupBegins(owner, armed)
    PROVE  /\ CurfewSafe' /\ ~running' /\ stopping' # "no"
           /\ starting' # "no" => starting # "no"
           /\ cleanup' \in [Owners -> {"none", "curfew", "done"}] /\ cleanup'[owner] = "curfew"
           /\ \A o \in Owners \ {owner} : cleanup'[o] = cleanup[o]
           /\ timers' \subseteq Periodic /\ timers' = armed \ {"audit", "captcha", "sync", "intel"}
           /\ Waiting'
<1>1. CurfewSafe /\ TasksTyped /\ CurfewTypeOK
    BY DEF Guarded, CurfewSafe
<1>2. /\ StopInternal /\ UNCHANGED <<want, muted, applied, failed>>
      /\ starting' = IF starting = "stopping" THEN "overtaken" ELSE starting
    BY DEF CleanupBegins, StopCurfewModule
<1>3. starting' \in {"no", "stopping", "overtaken", "ticking"}
    BY <1>1, <1>2 DEF CurfewTypeOK
<1>4. CurfewSafe' /\ ~running' /\ stopping' # "no"
    BY <1>1, <1>2, <1>3, StopBegins
<1>5. /\ cleanup' \in [Owners -> {"none", "curfew", "done"}] /\ cleanup'[owner] = "curfew"
      /\ \A o \in Owners \ {owner} : cleanup'[o] = cleanup[o]
    BY <1>1 DEF CleanupBegins, TasksTyped
<1>6. timers' = armed \ {"audit", "captcha", "sync", "intel"}
    BY DEF CleanupBegins
<1> QED
    BY <1>2, <1>4, <1>5, <1>6 DEF Waiting

LEMMA BootStep ==
    ASSUME Guarded, Boot
    PROVE  Guarded'
<1>0. CurfewSafe /\ TasksTyped /\ HeldTyped /\ TasksCoherent /\ CurfewOwned
    BY DEF Guarded
<1>1. /\ state = "idle" /\ state' = "booting" /\ host' = TRUE
      /\ boot' = [pc |-> "migrating", stale |-> FALSE]
      /\ UNCHANGED <<curfewVars, cleanup, timers, listeners, db>>
    BY DEF Boot
<1>2. boot' \in Boots /\ boot'.pc = "migrating" /\ boot'.stale = FALSE /\ Underway'
    BY <1>1 DEF Boots, Places, Underway
<1>3. CurfewSafe' /\ UNCHANGED <<starting, running, stopping>>
    BY <1>0, <1>1 DEF CurfewSafe, CurfewTypeOK, SchedulerCoherent, MutesKnown, curfewVars
<1>4. TasksTyped'
    BY <1>0, <1>1, <1>2 DEF TasksTyped
<1>5. TasksCoherent'
    BY <1>0, <1>1, <1>2 DEF TasksCoherent
<1>6. CurfewOwned'
    BY <1>0, <1>1, <1>2, <1>3 DEF CurfewOwned, Waiting, TasksCoherent
<1>7. HeldTyped' /\ HeldIsOwed'
    BY <1>0, <1>1, <1>2 DEF HeldTyped, HeldIsOwed
<1> QED
    BY <1>3, <1>4, <1>5, <1>6, <1>7 DEF Guarded

LEMMA BootOpensStep ==
    ASSUME Guarded, BootOpens
    PROVE  Guarded'
<1>0. CurfewSafe /\ TasksTyped /\ HeldTyped /\ TasksCoherent /\ CurfewOwned
    BY DEF Guarded
<1>1. /\ boot.pc = "migrating" /\ ~boot.stale /\ boot' = [boot EXCEPT !.pc = "curfew"]
      /\ db' = TRUE /\ timers' = timers \cup {"audit"} /\ listeners' = listeners \cup {"audit"}
      /\ StopInternal /\ starting' = "stopping" /\ UNCHANGED <<want, muted, applied, failed>>
      /\ UNCHANGED <<state, cleanup, host>>
    BY DEF BootOpens, InitCurfewModule
<1>2. boot' \in Boots /\ boot'.pc = "curfew" /\ boot'.stale = boot.stale
    BY <1>0, <1>1, BootMoved DEF TasksTyped, Places
<1>3. CurfewSafe' /\ ~running'
    BY <1>0, <1>1, StopBegins
<1>4. TasksTyped' /\ TasksCoherent'
    BY <1>0, <1>1, <1>2 DEF TasksTyped, TasksCoherent
<1>5. CurfewOwned'
    BY <1>1, <1>2, <1>3 DEF CurfewOwned
<1>6. HeldTyped' /\ HeldIsOwed'
    BY <1>0, <1>1, <1>2 DEF HeldTyped, HeldIsOwed, Underway, Periodic
<1> QED
    BY <1>3, <1>4, <1>5, <1>6 DEF Guarded

LEMMA BootStartsModulesStep ==
    ASSUME Guarded, BootStartsModules
    PROVE  Guarded'
<1>0. CurfewSafe /\ TasksTyped /\ HeldTyped /\ TasksCoherent /\ CurfewOwned
    BY DEF Guarded
<1> DEFINE now == timers \cup {"statistics", "monitor", "captcha"}
<1>1. /\ boot.pc = "curfew" /\ starting = "no" /\ UNCHANGED <<state, db, host>>
      /\ listeners' \subseteq listeners \cup {"captcha", "intel"}
      /\ \/ /\ boot' = [boot EXCEPT !.pc = "cleaning"] /\ CleanupBegins("boot", now)
         \/ /\ ~boot.stale /\ boot' = [boot EXCEPT !.pc = "admin"]
            /\ timers' \in {now, now \cup {"intel"}} /\ UNCHANGED <<curfewVars, cleanup>>
    BY DEF BootStartsModules
<1>2. now \in SUBSET Periodic /\ listeners' \subseteq {"audit", "captcha", "sync", "intel"}
    BY <1>0, <1>1 DEF HeldTyped, Periodic
<1>3. CASE boot' = [boot EXCEPT !.pc = "cleaning"] /\ CleanupBegins("boot", now)
    <2>1. boot' \in Boots /\ boot'.pc = "cleaning" /\ boot'.stale = boot.stale
        BY <1>0, <1>3, BootMoved DEF TasksTyped, Places
    <2>2. "boot" \in Owners
        BY DEF Owners
    <2>3. /\ CurfewSafe' /\ ~running' /\ stopping' # "no" /\ Waiting'
          /\ starting' # "no" => starting # "no"
          /\ cleanup' \in [Owners -> {"none", "curfew", "done"}] /\ cleanup'["boot"] = "curfew"
          /\ cleanup'["teardown"] = cleanup["teardown"] /\ timers' \subseteq Periodic
        BY <1>2, <1>3, <2>2, CleanupBeginsEffect, OwnersAre
    <2>4. TasksTyped' /\ TasksCoherent'
        BY <1>0, <1>1, <2>1, <2>3 DEF TasksTyped, TasksCoherent
    <2>5. CurfewOwned' /\ HeldIsOwed' /\ HeldTyped'
        BY <1>0, <1>1, <1>2, <2>3 DEF CurfewOwned, HeldIsOwed, HeldTyped
    <2> QED
        BY <2>3, <2>4, <2>5 DEF Guarded
<1>4. CASE /\ boot' = [boot EXCEPT !.pc = "admin"]
           /\ timers' \in {now, now \cup {"intel"}} /\ UNCHANGED <<curfewVars, cleanup>>
    <2>1. boot' \in Boots /\ boot'.pc = "admin" /\ boot'.stale = boot.stale /\ Underway'
        BY <1>0, <1>4, BootMoved DEF TasksTyped, Places, Underway
    <2>2. CurfewSafe' /\ UNCHANGED <<starting, running, stopping>>
        BY <1>0, <1>4 DEF CurfewSafe, CurfewTypeOK, SchedulerCoherent, MutesKnown, curfewVars
    <2>3. TasksTyped' /\ TasksCoherent'
        BY <1>0, <1>1, <1>4, <2>1 DEF TasksTyped, TasksCoherent
    <2>4. CurfewOwned'
        BY <1>0, <1>1, <1>4, <2>1, <2>2 DEF CurfewOwned, Waiting
    <2>5. HeldIsOwed' /\ HeldTyped'
        BY <1>0, <1>1, <1>2, <1>4, <2>1 DEF HeldIsOwed, HeldTyped, Periodic
    <2> QED
        BY <2>2, <2>3, <2>4, <2>5 DEF Guarded
<1> QED
    BY <1>1, <1>3, <1>4

LEMMA BootGoesOnStep ==
    ASSUME Guarded, BootBootstraps \/ BootCompletes
    PROVE  Guarded'
<1>0. CurfewSafe /\ TasksTyped /\ HeldTyped /\ TasksCoherent /\ CurfewOwned /\ HeldIsOwed
    BY DEF Guarded
<1>1. UNCHANGED <<curfewVars, cleanup, db, host>>
    BY DEF BootBootstraps, BootCompletes, resourceVars
<1>2. CurfewSafe' /\ UNCHANGED <<starting, running, stopping>>
    BY <1>0, <1>1 DEF CurfewSafe, CurfewTypeOK, SchedulerCoherent, MutesKnown, curfewVars
<1>3. CASE BootBootstraps
    <2>1. /\ boot.pc = "admin" /\ boot' = [boot EXCEPT !.pc = "groups"]
          /\ UNCHANGED <<state, timers, listeners>>
        BY <1>3 DEF BootBootstraps, resourceVars
    <2>2. boot' \in Boots /\ boot'.pc = "groups" /\ boot'.stale = boot.stale /\ Underway'
        BY <1>0, <2>1, BootMoved DEF TasksTyped, Places, Underway
    <2>3. TasksTyped' /\ TasksCoherent'
        BY <1>0, <1>1, <2>1, <2>2 DEF TasksTyped, TasksCoherent
    <2>4. CurfewOwned' /\ HeldIsOwed' /\ HeldTyped'
        BY <1>0, <1>1, <1>2, <2>1, <2>2 DEF CurfewOwned, HeldIsOwed, HeldTyped, Waiting
    <2> QED
        BY <1>2, <2>3, <2>4 DEF Guarded
<1>4. CASE BootCompletes
    <2>1. /\ boot.pc = "groups" /\ ~boot.stale /\ boot' = NoBoot /\ state' = "running"
          /\ timers' \in {timers, timers \cup {"sync"}} /\ listeners' = listeners \cup {"sync"}
        BY <1>4 DEF BootCompletes
    <2>2. boot' \in Boots /\ boot'.pc = "none" /\ boot'.stale = FALSE /\ Underway'
        BY <2>1 DEF Boots, Places, NoBoot, Underway
    <2>3. cleanup["teardown"] = "none" /\ cleanup["boot"] = "none"
        BY <1>0, <2>1 DEF TasksTyped, TasksCoherent
    <2>4. TasksTyped' /\ TasksCoherent'
        BY <1>0, <1>1, <2>1, <2>2, <2>3 DEF TasksTyped, TasksCoherent
    <2>5. CurfewOwned' /\ HeldIsOwed' /\ HeldTyped'
        BY <1>0, <1>1, <1>2, <2>1, <2>2 DEF CurfewOwned, HeldIsOwed, HeldTyped, Waiting, Periodic
    <2> QED
        BY <1>2, <2>4, <2>5 DEF Guarded
<1> QED
    BY <1>3, <1>4

LEMMA RearmStep ==
    ASSUME Guarded, Rearm, UNCHANGED <<state, boot, cleanup, listeners, db, host>>
    PROVE  Guarded'
<1>0. CurfewSafe /\ TasksTyped /\ HeldTyped /\ TasksCoherent /\ CurfewOwned /\ HeldIsOwed
    BY DEF Guarded
<1>1. /\ timers' \subseteq timers \cup {"intel", "sync"}
      /\ ScheduleTick \/ UNCHANGED curfewVars
    BY DEF Rearm
<1>2. HeldTyped'
    BY <1>0, <1>1 DEF HeldTyped, Periodic
<1>3. (timers' \cap {"statistics", "monitor"} # {} \/ listeners' # {} \/ db' \/ host') => Underway \/ Waiting
    <2>1. timers' \cap {"statistics", "monitor"} # {} => timers \cap {"statistics", "monitor"} # {}
        BY <1>1
    <2> QED
        BY <1>0, <2>1 DEF HeldIsOwed
<1>4. CASE ScheduleTick
    BY <1>2, <1>3, <1>4, CurfewSteps DEF CurfewStep
<1>5. CASE UNCHANGED curfewVars
    <2>1. CurfewSafe' /\ UNCHANGED <<starting, running, stopping>>
        BY <1>0, <1>5 DEF CurfewSafe, CurfewTypeOK, SchedulerCoherent, MutesKnown, curfewVars
    <2>2. TasksTyped' /\ TasksCoherent' /\ Underway' = Underway /\ Waiting' = Waiting
        BY <1>0 DEF TasksTyped, TasksCoherent, Underway, Waiting
    <2>3. CurfewOwned' /\ HeldIsOwed'
        BY <1>0, <1>3, <2>1, <2>2 DEF CurfewOwned, HeldIsOwed
    <2> QED
        BY <1>2, <2>1, <2>2, <2>3 DEF Guarded
<1> QED
    BY <1>1, <1>4, <1>5

LEMMA BootFailsStep ==
    ASSUME Guarded, BootFails
    PROVE  Guarded'
<1>0. CurfewSafe /\ TasksTyped /\ HeldTyped /\ TasksCoherent /\ CurfewOwned
    BY DEF Guarded
<1>1. /\ boot.pc \in {"migrating", "admin", "groups"} /\ boot' = [boot EXCEPT !.pc = "cleaning"]
      /\ CleanupBegins("boot", timers) /\ UNCHANGED <<state, listeners, db, host>>
    BY DEF BootFails
<1>2. boot' \in Boots /\ boot'.pc = "cleaning" /\ boot'.stale = boot.stale
    BY <1>0, <1>1, BootMoved DEF TasksTyped, Places
<1>3. "boot" \in Owners /\ timers \in SUBSET Periodic
    BY <1>0 DEF Owners, HeldTyped
<1>4. /\ CurfewSafe' /\ ~running' /\ stopping' # "no" /\ Waiting'
      /\ starting' # "no" => starting # "no"
      /\ cleanup' \in [Owners -> {"none", "curfew", "done"}] /\ cleanup'["boot"] = "curfew"
      /\ cleanup'["teardown"] = cleanup["teardown"] /\ timers' \subseteq Periodic
    BY <1>1, <1>3, CleanupBeginsEffect, OwnersAre
<1>5. TasksTyped' /\ TasksCoherent'
    BY <1>0, <1>1, <1>2, <1>4 DEF TasksTyped, TasksCoherent
<1>6. starting = "no"
    BY <1>0, <1>1 DEF CurfewOwned
<1>7. CurfewOwned' /\ HeldIsOwed' /\ HeldTyped'
    BY <1>0, <1>1, <1>4, <1>6 DEF CurfewOwned, HeldIsOwed, HeldTyped
<1> QED
    BY <1>4, <1>5, <1>7 DEF Guarded

LEMMA TeardownStep ==
    ASSUME Guarded, Teardown
    PROVE  Guarded'
<1>0. CurfewSafe /\ TasksTyped /\ HeldTyped /\ TasksCoherent /\ CurfewOwned
    BY DEF Guarded
<1>1. /\ state \in {"booting", "running"} /\ state' = "stopping"
      /\ boot' = IF boot.pc = "none" THEN boot ELSE [boot EXCEPT !.stale = TRUE]
      /\ CleanupBegins("teardown", timers) /\ UNCHANGED <<listeners, db, host>>
    BY DEF Teardown
<1>2. boot' \in Boots /\ boot'.pc = boot.pc /\ (boot.pc # "none" => boot'.stale) /\ (boot.pc = "none" => ~boot'.stale)
    BY <1>0, <1>1, BootMarked DEF TasksTyped, TasksCoherent
<1>3. "teardown" \in Owners /\ timers \in SUBSET Periodic
    BY <1>0 DEF Owners, HeldTyped
<1>4. /\ CurfewSafe' /\ ~running' /\ stopping' # "no" /\ Waiting'
      /\ starting' # "no" => starting # "no"
      /\ cleanup' \in [Owners -> {"none", "curfew", "done"}] /\ cleanup'["teardown"] = "curfew"
      /\ cleanup'["boot"] = cleanup["boot"] /\ timers' \subseteq Periodic
    BY <1>1, <1>3, CleanupBeginsEffect, OwnersAre
<1>5. TasksTyped' /\ TasksCoherent'
    BY <1>0, <1>1, <1>2, <1>4 DEF TasksTyped, TasksCoherent
<1>6. CurfewOwned' /\ HeldIsOwed' /\ HeldTyped'
    BY <1>0, <1>1, <1>2, <1>4 DEF CurfewOwned, HeldIsOwed, HeldTyped
<1> QED
    BY <1>4, <1>5, <1>6 DEF Guarded

LEMMA CleanupEndsStep ==
    ASSUME Guarded, NEW owner \in Owners, CleanupEnds(owner)
    PROVE  Guarded'
<1>0. CurfewSafe /\ TasksTyped /\ HeldTyped /\ TasksCoherent /\ CurfewOwned
    BY DEF Guarded
<1>1. /\ cleanup[owner] = "curfew" /\ stopping = "no"
      /\ timers' = timers \ {"statistics", "monitor"} /\ listeners' = {} /\ db' = FALSE /\ host' = FALSE
      /\ cleanup' = [cleanup EXCEPT ![owner] = "done"]
      /\ UNCHANGED <<curfewVars, state, boot>>
    BY DEF CleanupEnds
<1>2. CurfewSafe' /\ UNCHANGED <<starting, running, stopping>>
    BY <1>0, <1>1 DEF CurfewSafe, CurfewTypeOK, SchedulerCoherent, MutesKnown, curfewVars
<1>3. /\ cleanup' \in [Owners -> {"none", "curfew", "done"}]
      /\ \A o \in Owners : cleanup'[o] # "none" <=> cleanup[o] # "none"
    BY <1>0, <1>1 DEF TasksTyped
<1>4. TasksTyped' /\ TasksCoherent'
    BY <1>0, <1>1, <1>3, OwnersAre DEF TasksTyped, TasksCoherent
<1>5. CurfewOwned'
    BY <1>0, <1>1, <1>2 DEF CurfewOwned, Underway
<1>6. HeldIsOwed' /\ HeldTyped'
    BY <1>0, <1>1 DEF HeldIsOwed, HeldTyped
<1> QED
    BY <1>2, <1>4, <1>5, <1>6 DEF Guarded

(* The end of a cleaned-up boot, or of a teardown whose boot is gone. *)
LEMMA TaskEndsStep ==
    ASSUME Guarded, BootEnds \/ TeardownEnds
    PROVE  Guarded'
<1>0. CurfewSafe /\ TasksTyped /\ HeldTyped /\ TasksCoherent /\ CurfewOwned /\ HeldIsOwed
    BY DEF Guarded
<1>1. UNCHANGED <<curfewVars, timers, listeners, db, host>>
    BY DEF BootEnds, TeardownEnds, resourceVars
<1>2. CurfewSafe' /\ UNCHANGED <<starting, running, stopping>>
    BY <1>0, <1>1 DEF CurfewSafe, CurfewTypeOK, SchedulerCoherent, MutesKnown, curfewVars
<1>3. CASE BootEnds
    <2>1. /\ boot.pc = "cleaning" /\ cleanup["boot"] = "done" /\ boot' = NoBoot
          /\ state' = IF state = "booting" /\ ~boot.stale THEN "idle" ELSE state
          /\ cleanup' = [cleanup EXCEPT !["boot"] = "none"]
        BY <1>3 DEF BootEnds
    <2>2. /\ boot' \in Boots /\ boot'.pc = "none" /\ boot'.stale = FALSE
          /\ cleanup' \in [Owners -> {"none", "curfew", "done"}] /\ cleanup'["boot"] = "none"
          /\ cleanup'["teardown"] = cleanup["teardown"]
        BY <1>0, <2>1, OwnersAre DEF Boots, Places, NoBoot, TasksTyped
    <2>3. state \in {"booting", "stopping"}
        BY <1>0, <2>1 DEF TasksTyped, TasksCoherent
    <2>4. TasksTyped' /\ TasksCoherent'
        BY <1>0, <2>1, <2>2, <2>3 DEF TasksTyped, TasksCoherent
    <2>5. ~Underway /\ (Waiting => Waiting')
        BY <1>0, <2>1, <2>2, <2>3, OwnersAre DEF Underway, Waiting
    <2>6. starting = "no"
        BY <1>0, <2>1 DEF CurfewOwned
    <2>7. CurfewOwned' /\ HeldIsOwed' /\ HeldTyped'
        BY <1>0, <1>1, <1>2, <2>5, <2>6 DEF CurfewOwned, HeldIsOwed, HeldTyped
    <2> QED
        BY <1>2, <2>4, <2>7 DEF Guarded
<1>4. CASE TeardownEnds
    <2>1. /\ state = "stopping" /\ cleanup["teardown"] = "done" /\ boot = NoBoot
          /\ state' = "idle" /\ boot' = boot
          /\ cleanup' = [cleanup EXCEPT !["teardown"] = "none"]
        BY <1>4 DEF TeardownEnds
    <2>2. /\ boot.pc = "none" /\ boot.stale = FALSE
          /\ cleanup' \in [Owners -> {"none", "curfew", "done"}] /\ cleanup'["teardown"] = "none"
          /\ cleanup'["boot"] = cleanup["boot"]
        BY <1>0, <2>1, OwnersAre DEF NoBoot, TasksTyped
    <2>3. TasksTyped' /\ TasksCoherent'
        BY <1>0, <2>1, <2>2 DEF TasksTyped, TasksCoherent
    <2>4. ~Underway /\ ~Waiting
        BY <1>0, <2>1, <2>2, OwnersAre DEF Underway, Waiting, TasksCoherent
    <2>5. starting = "no"
        BY <1>0, <2>2 DEF CurfewOwned
    <2>6. CurfewOwned' /\ HeldIsOwed' /\ HeldTyped'
        BY <1>0, <1>1, <1>2, <2>4, <2>5 DEF CurfewOwned, HeldIsOwed, HeldTyped
    <2> QED
        BY <1>2, <2>3, <2>6 DEF Guarded
<1> QED
    BY <1>3, <1>4

(***************************************************************************)
(* All together.                                                           *)
(***************************************************************************)
LEMMA LifecycleInductive ==
    ASSUME LifecycleIndInv, [LifecycleNext]_vars
    PROVE  LifecycleIndInv'
<1> SUFFICES Guarded'
    BY DEF Guarded, CurfewSafe, TasksTyped, HeldTyped, LifecycleIndInv, LifecycleTypeOK, Boots, Places
<1>0. Guarded
    BY GuardedIsInv
<1>1. CASE Boot \/ BootOpens \/ BootStartsModules \/ BootBootstraps \/ BootCompletes
    BY <1>0, <1>1, BootStep, BootOpensStep, BootStartsModulesStep, BootGoesOnStep
<1>2. CASE BootFails \/ BootEnds \/ Teardown \/ TeardownEnds \/ \E owner \in Owners : CleanupEnds(owner)
    BY <1>0, <1>2, BootFailsStep, TaskEndsStep, TeardownStep, CleanupEndsStep
<1>3. CASE BootSavesGroups \/ ConfigSaved
    BY <1>0, <1>3, RearmStep DEF BootSavesGroups, ConfigSaved
<1>4. CASE LifecycleStep
    <2>1. CurfewStep /\ UNCHANGED <<state, boot, cleanup, timers, listeners, db, host>>
        BY <1>4 DEF LifecycleStep, resourceVars
    <2>2. HeldTyped'
        BY <1>0, <2>1 DEF Guarded, HeldTyped
    <2>3. (timers' \cap {"statistics", "monitor"} # {} \/ listeners' # {} \/ db' \/ host') => Underway \/ Waiting
        BY <1>0, <2>1 DEF Guarded, HeldIsOwed
    <2> QED
        BY <1>0, <2>1, <2>2, <2>3, CurfewSteps
<1>5. CASE UNCHANGED vars
    <2>1. UNCHANGED <<curfewVars, state, boot, cleanup, timers, listeners, db, host>>
        BY <1>5 DEF vars, resourceVars
    <2>2. CurfewSafe' /\ UNCHANGED <<starting, running, stopping>>
        BY <1>0, <2>1 DEF Guarded, CurfewSafe, CurfewTypeOK, SchedulerCoherent, MutesKnown, curfewVars
    <2>3. TasksTyped' /\ TasksCoherent' /\ HeldTyped' /\ Underway' = Underway /\ Waiting' = Waiting
        BY <1>0, <2>1 DEF Guarded, TasksTyped, TasksCoherent, HeldTyped, Underway, Waiting
    <2>4. CurfewOwned' /\ HeldIsOwed'
        BY <1>0, <2>1, <2>2, <2>3 DEF Guarded, CurfewOwned, HeldIsOwed
    <2> QED
        BY <2>2, <2>3, <2>4 DEF Guarded
<1> QED
    BY <1>1, <1>2, <1>3, <1>4, <1>5 DEF LifecycleNext

LEMMA LifecycleInitially == LifecycleInit => LifecycleIndInv /\ ArmedIsOwed
<1> SUFFICES ASSUME LifecycleInit PROVE Guarded /\ ArmedIsOwed
    BY GuardedIsInv
<1>1. /\ want \in [Groups -> {"on", "off", "none"}] /\ muted = {} /\ failed = [g \in Groups |-> "none"]
      /\ applied = [g \in Groups |-> "none"] /\ running = FALSE /\ tick = NoTick
      /\ stopping = "no" /\ lifting = {} /\ starting = "no"
    BY DEF LifecycleInit, CurfewInit
<1>2. /\ state = "idle" /\ boot = NoBoot /\ cleanup = [o \in Owners |-> "none"]
      /\ timers = {} /\ listeners = {} /\ db = FALSE /\ host = FALSE
    BY DEF LifecycleInit
<1>3. CurfewTypeOK
    BY <1>1, NoTickTyped DEF CurfewTypeOK, Ticks
<1>4. SchedulerCoherent /\ MutesKnown
    BY <1>1, NoTickTyped DEF SchedulerCoherent, MutesKnown
<1>5. boot \in Boots /\ boot.pc = "none" /\ boot.stale = FALSE
    BY <1>2 DEF NoBoot, Boots, Places
<1>6. TasksTyped /\ TasksCoherent
    BY <1>2, <1>5, OwnersAre DEF TasksTyped, TasksCoherent
<1>7. HeldTyped /\ HeldIsOwed /\ ArmedIsOwed /\ CurfewOwned
    BY <1>1, <1>2 DEF HeldTyped, HeldIsOwed, ArmedIsOwed, CurfewOwned
<1> QED
    BY <1>3, <1>4, <1>6, <1>7 DEF Guarded, CurfewSafe

(* Timers the first half of a cleanup stops: only a boot under way, or one *)
(* that is done, has any, unless a save re-arms them behind the cleanup.   *)
LEMMA ArmedInductive ==
    ASSUME ~SavesDuringCleanup, LifecycleIndInv, ArmedIsOwed, [LifecycleNext]_vars
    PROVE  ArmedIsOwed'
<1>0. TasksTyped /\ TasksCoherent /\ HeldTyped
    BY GuardedIsInv DEF Guarded
<1> DEFINE Early == {"audit", "captcha", "sync", "intel"}
<1>1. CASE Underway'
    BY <1>1 DEF ArmedIsOwed
<1>2. CASE timers' \cap Early = {}
    BY <1>2 DEF ArmedIsOwed
<1>3. CASE timers' \subseteq timers /\ ~Underway
    BY <1>3 DEF ArmedIsOwed
<1>4. ASSUME Boot \/ BootOpens \/ BootBootstraps \/ BootCompletes PROVE Underway'
    BY <1>0, <1>4 DEF Boot, BootOpens, BootBootstraps, BootCompletes, Underway, TasksTyped, Boots
<1>5. ASSUME BootFails \/ Teardown PROVE timers' \cap Early = {}
    BY <1>5 DEF BootFails, Teardown, CleanupBegins
<1>6. ASSUME BootStartsModules PROVE Underway' \/ timers' \cap Early = {}
    BY <1>0, <1>6 DEF BootStartsModules, CleanupBegins, Underway, TasksTyped, Boots
<1>7. ASSUME BootEnds \/ TeardownEnds PROVE timers' = timers /\ ~Underway
    <2>1. timers' = timers
        BY <1>7 DEF BootEnds, TeardownEnds, resourceVars
    <2>2. boot.pc \in {"none", "cleaning"} /\ state # "running"
        BY <1>0, <1>7 DEF BootEnds, TeardownEnds, NoBoot, TasksCoherent
    <2> QED
        BY <2>1, <2>2 DEF Underway
<1>8. ASSUME (\E owner \in Owners : CleanupEnds(owner)) \/ LifecycleStep \/ UNCHANGED vars
      PROVE  timers' \subseteq timers /\ Underway' = Underway
    BY <1>8 DEF CleanupEnds, LifecycleStep, vars, resourceVars, Underway
<1>9. ASSUME BootSavesGroups PROVE Underway'
    BY <1>9 DEF BootSavesGroups, Underway
<1>10. ASSUME ConfigSaved PROVE Underway'
    <2>1. state # "idle" /\ cleanup["boot"] = "none" /\ cleanup["teardown"] = "none" /\ UNCHANGED <<state, boot>>
        BY <1>10, OwnersAre DEF ConfigSaved
    <2>2. state \in {"booting", "running"} /\ boot.pc # "cleaning"
        BY <1>0, <2>1 DEF TasksTyped, TasksCoherent
    <2>3. state = "running" \/ boot.pc \in {"migrating", "curfew", "admin", "groups"}
        BY <1>0, <2>2 DEF TasksTyped, TasksCoherent, Boots, Places
    <2> QED
        BY <2>1, <2>3 DEF Underway
<1> QED
    BY <1>1, <1>2, <1>3, <1>4, <1>5, <1>6, <1>7, <1>8, <1>9, <1>10 DEF LifecycleNext

(* Boot, teardown, their cleanups and the curfew agree, in every reachable *)
(* state of lifecycle.ts.                                                  *)
THEOREM LifecycleInvariant == LifecycleSpec => []LifecycleIndInv
<1>1. LifecycleIndInv /\ [LifecycleNext]_vars => LifecycleIndInv'
    BY LifecycleInductive
<1> QED
    BY <1>1, LifecycleInitially, PTL DEF LifecycleSpec

(* No whole-group mute outlives Guardian, unless the last action on its    *)
(* group failed or was not answered.                                       *)
THEOREM MutesAreLifted == LifecycleSpec => []NoMuteOutlivesGuardian
<1>1. LifecycleIndInv => NoMuteOutlivesGuardian
    <2> SUFFICES ASSUME LifecycleIndInv, state = "idle", NEW g \in muted, failed[g] = "none" PROVE FALSE
        BY DEF NoMuteOutlivesGuardian
    <2>1. Guarded
        BY GuardedIsInv
    <2>2. ~Underway /\ ~Waiting /\ starting = "no"
        BY <2>1, OwnersAre DEF Guarded, TasksCoherent, CurfewOwned, Underway, Waiting
    <2>3. ~running /\ stopping = "no"
        BY <2>1, <2>2 DEF Guarded, CurfewOwned
    <2>4. g \in Groups /\ applied[g] = "on"
        BY <2>1 DEF Guarded, CurfewSafe, CurfewTypeOK, MutesKnown
    <2> QED
        BY <2>1, <2>3, <2>4 DEF Guarded, CurfewSafe, MutesKnown
<1> QED
    BY <1>1, LifecycleInvariant, PTL

(* Idle again, Guardian has released everything that boot acquired, when   *)
(* no configuration is saved while a cleanup runs.                         *)
THEOREM IdleReleasesAll ==
    ASSUME ~SavesDuringCleanup
    PROVE  LifecycleSpec => []IdleIsClean
<1>1. LifecycleIndInv /\ ArmedIsOwed /\ [LifecycleNext]_vars => ArmedIsOwed'
    BY ArmedInductive
<1>2. LifecycleIndInv /\ ArmedIsOwed => IdleIsClean
    <2> SUFFICES ASSUME LifecycleIndInv, ArmedIsOwed, state = "idle" PROVE IdleIsClean
        BY DEF IdleIsClean
    <2>1. Guarded
        BY GuardedIsInv
    <2>2. boot \in Boots /\ boot.pc = "none" /\ ~boot.stale /\ \A o \in Owners : cleanup[o] = "none"
        BY <2>1, OwnersAre DEF Guarded, TasksTyped, TasksCoherent
    <2>3. boot = NoBoot
        BY <2>2 DEF Boots, NoBoot
    <2>4. ~Underway /\ ~Waiting /\ starting = "no"
        BY <2>1, <2>2 DEF Guarded, CurfewOwned, Underway, Waiting
    <2>5. ~running /\ stopping = "no"
        BY <2>1, <2>4 DEF Guarded, CurfewOwned
    <2>6. tick.pc = "none" /\ tick \in Ticks
        BY <2>1, <2>5, TickTyped DEF Guarded, CurfewSafe, SchedulerCoherent
    <2>7. tick = NoTick
        BY <2>6, TickParts
    <2>8. listeners = {} /\ ~db /\ ~host /\ timers \cap {"statistics", "monitor"} = {}
        BY <2>1, <2>4 DEF Guarded, HeldIsOwed
    <2>9. timers = {}
        BY <2>1, <2>4, <2>8 DEF Guarded, HeldTyped, ArmedIsOwed, Periodic
    <2> QED
        BY <2>2, <2>3, <2>4, <2>5, <2>7, <2>8, <2>9 DEF IdleIsClean
<1> QED
    BY <1>1, <1>2, LifecycleInitially, LifecycleInvariant, PTL DEF LifecycleSpec
=============================================================================
