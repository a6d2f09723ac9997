----------------------------- MODULE CaptchaSweep -----------------------------
(***************************************************************************)
(* The expiry sweep of src/modules/captcha/index.ts: expireAllStale and    *)
(* the workers it runs.  What one expiry action does to its session is     *)
(* Captcha!ExpireSession; here the subject is how many run, which ones,    *)
(* and that the sweep ends whatever the provider does.                     *)
(*                                                                         *)
(* A worker runs without interruption until it awaits an action, so taking *)
(* a session and starting its action is one step.                          *)
(***************************************************************************)
EXTENDS Naturals, Sequences, FiniteSets

CONSTANTS
    Sessions,  \* rows of captcha_sessions
    Workers,   \* CAPTCHA_EXPIRY_SWEEP_CONCURRENCY workers
    NoSession

ASSUME SweepAssumption ==
    NoSession \notin Sessions /\ IsFiniteSet(Sessions) /\ IsFiniteSet(Workers)

VARIABLES
    status,    \* per session: in time, past its deadline, or solved = 1
    holder,    \* who holds the session's captcha lock
    todo,      \* the sweep's `stale' rows from nextIndex on
    worker,    \* the session whose action each worker awaits
    sweeping,   \* the workers of the current sweep that have not returned
    expiring,  \* _expiringSessions
    slots      \* _activeExpiryActions

sweepVars == <<status, holder, todo, worker, sweeping, expiring, slots>>

Concurrency == Cardinality(Workers)

SweepTypeOK ==
    /\ status \in [Sessions -> {"fresh", "stale", "closed"}]
    /\ holder \in [Sessions -> {"free", "reply", "lateReply", "expiry"}]
    /\ todo \in Seq(Sessions)
    /\ worker \in [Workers -> Sessions \cup {NoSession}]
    /\ sweeping \subseteq Workers
    /\ expiring \subseteq Sessions
    /\ slots \in Nat

SweepInit ==
    /\ status \in [Sessions -> {"fresh", "stale"}]
    /\ holder = [s \in Sessions |-> "free"]
    /\ todo = <<>>
    /\ worker = [w \in Workers |-> NoSession]
    /\ sweeping = {}
    /\ expiring = {}
    /\ slots = 0

-----------------------------------------------------------------------------
(* The rest of the service: deadlines pass, replies take the lock.         *)

DeadlinePasses(s) ==
    /\ status[s] = "fresh"
    /\ status' = [status EXCEPT ![s] = "stale"]
    /\ UNCHANGED <<holder, todo, worker, sweeping, expiring, slots>>

ReplyLocks(s) ==
    /\ status[s] # "closed" /\ holder[s] = "free"
    /\ holder' = [holder EXCEPT ![s] = IF status[s] = "stale" THEN "lateReply" ELSE "reply"]
    /\ UNCHANGED <<status, todo, worker, sweeping, expiring, slots>>

(* A reply in time may leave the session open; a late one rejects it. *)
ReplyUnlocks(s) ==
    /\ holder[s] \in {"reply", "lateReply"}
    /\ holder' = [holder EXCEPT ![s] = "free"]
    /\ \/ status' = [status EXCEPT ![s] = "closed"]
       \/ holder[s] = "reply" /\ UNCHANGED status
    /\ UNCHANGED <<todo, worker, sweeping, expiring, slots>>

(* _reconcileActiveSessions closes sessions without their captcha lock. *)
ReconcileCloses(s) ==
    /\ status[s] # "closed"
    /\ status' = [status EXCEPT ![s] = "closed"]
    /\ UNCHANGED <<holder, todo, worker, sweeping, expiring, slots>>

-----------------------------------------------------------------------------
(***************************************************************************)
(* expireAllStale: at most one sweep; select the stale rows and start as   *)
(* many workers as there are rows, up to the limit.                        *)
(***************************************************************************)
Sweeping == sweeping # {}

Orders(S) == {q \in [1..Cardinality(S) -> S] : \A i, j \in DOMAIN q : q[i] = q[j] => i = j}

ExpireAllStale ==
    /\ ~Sweeping
    /\ LET stale == {s \in Sessions : status[s] = "stale"} IN
       /\ stale # {}
       /\ todo' \in Orders(stale)
       /\ sweeping' \in {W \in SUBSET Workers :
                           Cardinality(W) = IF Cardinality(stale) < Concurrency
                                            THEN Cardinality(stale) ELSE Concurrency}
    /\ UNCHANGED <<status, holder, worker, expiring, slots>>

Resting(w) == w \in sweeping /\ worker[w] = NoSession

(***************************************************************************)
(* A worker takes the next row: one whose earlier action still runs is     *)
(* skipped; with every slot occupied the worker returns; a session whose   *)
(* lock is busy or that was closed meanwhile is passed over; otherwise its *)
(* rejection starts, holding the captcha lock and a slot.                  *)
(***************************************************************************)
Take(w) ==
    /\ Resting(w) /\ todo # <<>>
    /\ todo' = Tail(todo)
    /\ LET s == Head(todo) IN
       \/ /\ s \in expiring
          /\ UNCHANGED <<holder, worker, sweeping, expiring, slots>>
       \/ /\ s \notin expiring /\ slots >= Concurrency
          /\ sweeping' = sweeping \ {w}
          /\ UNCHANGED <<holder, worker, expiring, slots>>
       \/ /\ s \notin expiring /\ slots < Concurrency
          /\ holder[s] # "free" \/ status[s] = "closed"
          /\ UNCHANGED <<holder, worker, sweeping, expiring, slots>>
       \/ /\ s \notin expiring /\ slots < Concurrency
          /\ holder[s] = "free" /\ status[s] # "closed"
          /\ holder' = [holder EXCEPT ![s] = "expiry"]
          /\ expiring' = expiring \cup {s}
          /\ slots' = slots + 1
          /\ worker' = [worker EXCEPT ![w] = s]
          /\ UNCHANGED sweeping
    /\ UNCHANGED status

(* nextIndex has reached the end; the last worker to return ends the sweep. *)
Return(w) ==
    /\ Resting(w) /\ todo = <<>>
    /\ sweeping' = sweeping \ {w}
    /\ UNCHANGED <<status, holder, todo, worker, expiring, slots>>

(***************************************************************************)
(* The provider call of an action settles: the session is closed whatever  *)
(* the answer was, lock, slot and entry are given up, and the worker that  *)
(* still awaits the action goes on.                                        *)
(***************************************************************************)
Settle(s) ==
    /\ holder[s] = "expiry"
    /\ status' = [status EXCEPT ![s] = "closed"]
    /\ holder' = [holder EXCEPT ![s] = "free"]
    /\ expiring' = expiring \ {s}
    /\ slots' = slots - 1
    /\ worker' = [w \in Workers |-> IF worker[w] = s THEN NoSession ELSE worker[w]]
    /\ UNCHANGED <<todo, sweeping>>

TimeoutFreesSlot(w) ==
    /\ worker[w] # NoSession
    /\ worker' = [worker EXCEPT ![w] = NoSession]
    /\ slots' = slots - 1
    /\ UNCHANGED <<status, holder, todo, sweeping, expiring>>

NoTimeout(w) == FALSE /\ UNCHANGED sweepVars

(* The worker stops waiting; the action keeps its lock, slot and entry. *)
Timeout(w) ==
    /\ worker[w] # NoSession
    /\ worker' = [worker EXCEPT ![w] = NoSession]
    /\ UNCHANGED <<status, holder, todo, sweeping, expiring, slots>>

SweepNext ==
    \/ ExpireAllStale
    \/ \E w \in Workers : Take(w) \/ Return(w) \/ Timeout(w)
    \/ \E s \in Sessions : DeadlinePasses(s) \/ ReplyLocks(s) \/ ReplyUnlocks(s)
                         \/ ReconcileCloses(s) \/ Settle(s)

(* Only the program's own turns and timers are fair; the provider is not. *)
SweepFairness ==
    /\ WF_sweepVars(ExpireAllStale)
    /\ \A w \in Workers : WF_sweepVars(Take(w) \/ Return(w)) /\ WF_sweepVars(Timeout(w))

SweepSpec == SweepInit /\ [][SweepNext]_sweepVars /\ SweepFairness

-----------------------------------------------------------------------------
(***************************************************************************)
(* "A timed-out provider promise keeps its slot until it actually          *)
(* settles": over any number of sweeps and timeouts, no more rejections    *)
(* are in flight at QQ than the limit, and no slot leaks.                  *)
(***************************************************************************)
InFlight == {s \in Sessions : holder[s] = "expiry"}

InFlightBounded ==
    /\ Cardinality(InFlight) <= Concurrency
    /\ slots = Cardinality(InFlight)
    /\ expiring = InFlight

(***************************************************************************)
(* A sweep ends even when no provider call ever settles, so the timer can  *)
(* start the next one.                                                     *)
(***************************************************************************)
SweepNeverHangs == Sweeping ~> ~Sweeping
=============================================================================
