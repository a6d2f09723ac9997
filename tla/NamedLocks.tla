----------------------------- MODULE NamedLocks -----------------------------
(***************************************************************************)
(* The named asynchronous locks of src/core/locks.ts.                      *)
(*                                                                         *)
(* `_locks' maps a lock name to the promise of the LAST call that asked    *)
(* for that name.  A call chains itself behind exactly that promise, so    *)
(* the queue exists only as the chain of `previous' variables of the       *)
(* suspended calls.  The model keeps that representation: a promise is     *)
(* named by the call that created it.                                      *)
(*                                                                         *)
(* JavaScript runs one turn at a time, so everything between two awaits    *)
(* is one action.                                                          *)
(***************************************************************************)
EXTENDS Naturals, FiniteSets

CONSTANTS
    Calls,   \* invocations of withLock or tryWithLock
    Names,   \* lock names
    NoCall   \* "no promise": an absent map entry or predecessor

ASSUME NoCallAssumption == NoCall \notin Calls

VARIABLES
    locks,     \* _locks: the promise stored under each name
    previous,  \* the local variable `previous' of each call
    name,      \* the argument `name' of each call
    pc,        \* where each call is
    rank,      \* history: position of the call in its arrival order
    arrivals   \* history: how many calls have joined a chain so far

lockVars == <<locks, previous, name, pc, rank, arrivals>>

PC == {"idle", "waiting", "running", "done", "skipped"}

(***************************************************************************)
(* A call that has joined the chain of its name and has not released it.   *)
(***************************************************************************)
Active(c) == pc[c] \in {"waiting", "running"}

Joined(c) == pc[c] \in {"waiting", "running", "done"}

(***************************************************************************)
(* c joined the chain of the same name as d, earlier.                      *)
(***************************************************************************)
Before(c, d) ==
    Joined(c) /\ Joined(d) /\ name[c] = name[d] /\ rank[c] < rank[d]

TypeOK ==
    /\ locks \in [Names -> Calls \cup {NoCall}]
    /\ previous \in [Calls -> Calls \cup {NoCall}]
    /\ name \in [Calls -> Names]
    /\ pc \in [Calls -> PC]
    /\ rank \in [Calls -> Nat]
    /\ arrivals \in Nat

Init ==
    /\ locks = [n \in Names |-> NoCall]
    /\ previous = [c \in Calls |-> NoCall]
    /\ name \in [Calls -> Names]
    /\ pc = [c \in Calls |-> "idle"]
    /\ rank = [c \in Calls |-> 0]
    /\ arrivals = 0

-----------------------------------------------------------------------------
(***************************************************************************)
(* Mutants of Acquire and Release, used to show that the properties below  *)
(* can fail: a call that ignores its predecessor or reads the map after    *)
(* writing it, and a release that deletes the map entry even when a        *)
(* successor has replaced it, or never.                                    *)
(***************************************************************************)
AcquireIgnoringPrevious(c) ==
    /\ previous' = [previous EXCEPT ![c] = locks[name[c]]]
    /\ locks' = [locks EXCEPT ![name[c]] = c]
    /\ pc' = [pc EXCEPT ![c] = "running"]
    /\ rank' = [rank EXCEPT ![c] = arrivals]
    /\ arrivals' = arrivals + 1
    /\ UNCHANGED name

ReleaseSuccessorToo(c) ==
    /\ pc[c] = "running"
    /\ pc' = [pc EXCEPT ![c] = "done"]
    /\ locks' = [locks EXCEPT ![name[c]] = NoCall]
    /\ UNCHANGED <<previous, name, rank, arrivals>>

-----------------------------------------------------------------------------
(***************************************************************************)
(* The synchronous prefix of withLock: create the promise, read the        *)
(* predecessor, replace the map entry; without a predecessor fn starts in  *)
(* the same turn, otherwise the call suspends.                             *)
(***************************************************************************)
Acquire(c) ==
    /\ previous' = [previous EXCEPT ![c] = locks[name[c]]]
    /\ locks' = [locks EXCEPT ![name[c]] = c]
    /\ pc' = [pc EXCEPT ![c] = IF locks[name[c]] = NoCall THEN "running" ELSE "waiting"]
    /\ rank' = [rank EXCEPT ![c] = arrivals]
    /\ arrivals' = arrivals + 1
    /\ UNCHANGED name

WithLock(c) == pc[c] = "idle" /\ Acquire(c)

(***************************************************************************)
(* The predecessor's promise is resolved: the suspended call runs fn.      *)
(***************************************************************************)
Resume(c) ==
    /\ pc[c] = "waiting"
    /\ pc[previous[c]] = "done"
    /\ pc' = [pc EXCEPT ![c] = "running"]
    /\ UNCHANGED <<locks, previous, name, rank, arrivals>>

(***************************************************************************)
(* fn returned or threw: resolve the promise, and delete the map entry     *)
(* only when it is still this call's own.                                  *)
(***************************************************************************)
Release(c) ==
    /\ pc[c] = "running"
    /\ pc' = [pc EXCEPT ![c] = "done"]
    /\ locks' = IF locks[name[c]] = c
                THEN [locks EXCEPT ![name[c]] = NoCall]
                ELSE locks
    /\ UNCHANGED <<previous, name, rank, arrivals>>

(***************************************************************************)
(* tryWithLock: the check and the reservation share one turn.              *)
(***************************************************************************)
TryWithLock(c) ==
    /\ pc[c] = "idle"
    /\ \/ /\ locks[name[c]] # NoCall
          /\ pc' = [pc EXCEPT ![c] = "skipped"]
          /\ UNCHANGED <<locks, previous, name, rank, arrivals>>
       \/ /\ locks[name[c]] = NoCall
          /\ Acquire(c)

Step(c) == WithLock(c) \/ TryWithLock(c) \/ Resume(c) \/ Release(c)

Next == \E c \in Calls : Step(c)

(***************************************************************************)
(* A resolved promise always resumes its waiters (microtask queue), and    *)
(* the work run under these locks always settles: every await inside it is *)
(* a provider call with a deadline or a shared, never-rejecting refresh.   *)
(***************************************************************************)
Fairness == \A c \in Calls : WF_lockVars(Resume(c)) /\ WF_lockVars(Release(c))

Spec == Init /\ [][Next]_lockVars

FairSpec == Spec /\ Fairness

-----------------------------------------------------------------------------
(***************************************************************************)
(* withLock's contract "one ... at a time": two calls never run their      *)
(* critical sections for the same name at once.                            *)
(***************************************************************************)
MutualExclusion ==
    \A c, d \in Calls :
        pc[c] = "running" /\ pc[d] = "running" /\ name[c] = name[d] => c = d

(***************************************************************************)
(* "This preserves FIFO ordering": a call runs, or has run, only when      *)
(* every call that joined the chain of the same name before it is done.    *)
(* It is what makes tryWithLock's overtaking impossible as well.           *)
(***************************************************************************)
FifoOrder ==
    \A c, d \in Calls :
        Before(c, d) /\ pc[d] \in {"running", "done"} => pc[c] = "done"

(***************************************************************************)
(* "avoids deleting a successor's lock": the map has an entry exactly      *)
(* while some call holds or waits for the name, and it is the last of      *)
(* them.  A leaked entry would make tryWithLock skip for ever; a lost one  *)
(* would let the next call start beside the holder.                        *)
(***************************************************************************)
MapNamesTheTail ==
    \A n \in Names :
        IF locks[n] = NoCall
        THEN \A c \in Calls : name[c] = n => ~Active(c)
        ELSE /\ Active(locks[n])
             /\ name[locks[n]] = n
             /\ \A c \in Calls : Active(c) /\ name[c] = n => c = locks[n] \/ Before(c, locks[n])

-----------------------------------------------------------------------------
(***************************************************************************)
(* Strengthening that makes the three invariants inductive: what the       *)
(* predecessor of a suspended call says about everything before it.        *)
(***************************************************************************)
RanksUnique ==
    /\ \A c \in Calls : Joined(c) => rank[c] < arrivals
    /\ \A c, d \in Calls : Joined(c) /\ Joined(d) /\ rank[c] = rank[d] => c = d

PreviousIsNext ==
    \A d \in Calls :
        pc[d] = "waiting" =>
            /\ previous[d] \in Calls
            /\ Before(previous[d], d)
            /\ \A c \in Calls :
                 Before(c, d) => c = previous[d] \/ Before(c, previous[d])

IndInv == TypeOK /\ RanksUnique /\ FifoOrder /\ MapNamesTheTail /\ PreviousIsNext

-----------------------------------------------------------------------------
(***************************************************************************)
(* The abstract view.  The queue of a name is its active calls in the      *)
(* order of their ranks, which no variable of locks.ts holds: Place is the *)
(* position of a call in such a line, InOrder the line as a sequence.      *)
(***************************************************************************)
Line(n) == {c \in Calls : Active(c) /\ name[c] = n}

Place(S, r, c) == Cardinality({d \in S : r[d] <= r[c]})

InOrder(S, r) == [i \in 1..Cardinality(S) |-> CHOOSE c \in S : Place(S, r, c) = i]

QueueOf(n) == IF locks[n] = NoCall THEN <<>> ELSE InOrder(Line(n), rank)

Mutex == INSTANCE FifoMutex WITH
            queue <- [n \in Names |-> QueueOf(n)],
            held <- {c \in Calls : pc[c] = "running"}

(***************************************************************************)
(* The promise chain of locks.ts implements a queue per name: calls are    *)
(* granted in arrival order, one at a time, and a skipped tryWithLock      *)
(* leaves no trace.                                                        *)
(***************************************************************************)
ImplementsFifoMutex == Mutex!Spec
=============================================================================
