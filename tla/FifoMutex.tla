------------------------------ MODULE FifoMutex ------------------------------
(***************************************************************************)
(* What src/core/locks.ts promises its callers: per name, a queue of       *)
(* calls whose head holds the lock.  The modules that use the locks are    *)
(* written against this view.                                              *)
(***************************************************************************)
EXTENDS Naturals, Sequences

CONSTANTS Calls, Names

VARIABLES
    queue,   \* per name, the holder followed by the waiters
    held     \* the calls whose critical section is running

vars == <<queue, held>>

Init == queue = [n \in Names |-> <<>>] /\ held = {}

(* A call joins the queue; on an empty queue it holds the lock at once. *)
Join(c, n) ==
    /\ \A m \in Names : \A i \in 1..Len(queue[m]) : queue[m][i] # c
    /\ queue' = [queue EXCEPT ![n] = Append(@, c)]
    /\ held' = IF queue[n] = <<>> THEN held \cup {c} ELSE held

(* The head of the queue is woken. *)
Grant(n) ==
    /\ queue[n] # <<>>
    /\ Head(queue[n]) \notin held
    /\ held' = held \cup {Head(queue[n])}
    /\ UNCHANGED queue

(* The holder leaves. *)
Leave(n) ==
    /\ queue[n] # <<>>
    /\ Head(queue[n]) \in held
    /\ queue' = [queue EXCEPT ![n] = Tail(@)]
    /\ held' = held \ {Head(queue[n])}

Next ==
    \E n \in Names :
        \/ \E c \in Calls : Join(c, n)
        \/ Grant(n)
        \/ Leave(n)

Spec == Init /\ [][Next]_vars
=============================================================================
