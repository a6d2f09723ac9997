-------------------------- MODULE NamedLocksProofs --------------------------
(***************************************************************************)
(* Proofs, for every set of calls and names, that the promise chain of     *)
(* src/core/locks.ts is a FIFO mutual-exclusion lock whose map entry is    *)
(* neither leaked nor lost, and that it implements FifoMutex: one queue    *)
(* per name.                                                               *)
(***************************************************************************)
EXTENDS NamedLocks, Sequences, FiniteSetTheorems, TLAPS

(***************************************************************************)
(* FIFO order subsumes mutual exclusion: of two running calls of the same  *)
(* name one would have arrived first, hence be done.                       *)
(***************************************************************************)
LEMMA FifoImpliesExclusion ==
    ASSUME TypeOK, RanksUnique, FifoOrder
    PROVE  MutualExclusion
<1> SUFFICES ASSUME NEW c \in Calls, NEW d \in Calls,
                    pc[c] = "running", pc[d] = "running", name[c] = name[d], c # d
             PROVE  FALSE
    BY DEF MutualExclusion
<1>1. Joined(c) /\ Joined(d)
    BY DEF Joined
<1>2. rank[c] < rank[d] \/ rank[d] < rank[c]
    BY <1>1 DEF RanksUnique, TypeOK
<1> QED
    BY <1>1, <1>2 DEF FifoOrder, Before

(***************************************************************************)
(* No call has joined any chain initially.                                 *)
(***************************************************************************)
LEMMA InitInd == Init => IndInv
BY NoCallAssumption
   DEF Init, IndInv, TypeOK, PC, RanksUnique, FifoOrder, MapNamesTheTail,
       PreviousIsNext, Before, Joined, Active

(***************************************************************************)
(* Joining a chain (the synchronous prefix of withLock) keeps IndInv: the  *)
(* new call is the last of its name and its predecessor is the old tail.   *)
(***************************************************************************)
LEMMA AcquireInd ==
    ASSUME IndInv, NEW k \in Calls, pc[k] = "idle", Acquire(k)
    PROVE  IndInv'
<1> USE NoCallAssumption
<1> DEFINE n == name[k]
<1>0. TypeOK /\ n \in Names /\ ~Joined(k)
    BY DEF IndInv, TypeOK, Joined
<1>1. TypeOK'
    BY <1>0 DEF TypeOK, Acquire, PC
<1>2. /\ rank'[k] = arrivals /\ Joined(k)' /\ Active(k)' /\ name' = name
      /\ previous'[k] = locks[n] /\ locks'[n] = k
      /\ pc'[k] = IF locks[n] = NoCall THEN "running" ELSE "waiting"
    BY <1>0 DEF Acquire, TypeOK, Joined, Active
<1>3. \A c \in Calls \ {k} : /\ pc'[c] = pc[c] /\ rank'[c] = rank[c] /\ previous'[c] = previous[c]
                             /\ Joined(c)' = Joined(c) /\ Active(c)' = Active(c)
    BY <1>0 DEF Acquire, TypeOK, Joined, Active
<1>4. \A m \in Names \ {n} : locks'[m] = locks[m]
    BY <1>0 DEF Acquire, TypeOK
<1>5. RanksUnique'
  <2>1. arrivals' = arrivals + 1 /\ arrivals \in Nat
    BY <1>0 DEF Acquire, TypeOK
  <2>2. \A c \in Calls : rank[c] \in Nat
    BY <1>0 DEF TypeOK
  <2> QED
    BY <1>2, <1>3, <2>1, <2>2 DEF IndInv, RanksUnique
<1>6. \A c \in Calls \ {k} : Before(c, k)' <=> Joined(c) /\ name[c] = n
  <2>1. \A c \in Calls : Joined(c) => rank[c] < arrivals
    BY DEF IndInv, RanksUnique
  <2> QED
    BY <2>1, <1>2, <1>3 DEF Before
<1>7. \A c \in Calls : ~Before(k, c)'
  <2>1. \A c \in Calls : Joined(c) => rank[c] < arrivals
    BY DEF IndInv, RanksUnique
  <2>2. arrivals \in Nat /\ \A c \in Calls : rank[c] \in Nat
    BY <1>0 DEF TypeOK
  <2> QED
    BY <2>1, <2>2, <1>2, <1>3 DEF Before
<1>8. \A c, d \in Calls \ {k} : Before(c, d)' = Before(c, d)
    BY <1>2, <1>3 DEF Before
<1>9. FifoOrder'
  <2>1. ASSUME locks[n] = NoCall, NEW c \in Calls \ {k}, Joined(c), name[c] = n
        PROVE  pc[c] = "done"
    BY <2>1, <1>0 DEF IndInv, MapNamesTheTail, Active, Joined
  <2> QED
    BY <2>1, <1>2, <1>3, <1>6, <1>7, <1>8 DEF IndInv, FifoOrder
<1>10. MapNamesTheTail'
  <2> SUFFICES ASSUME NEW m \in Names
               PROVE  IF locks'[m] = NoCall
                      THEN \A c \in Calls : name'[c] = m => ~Active(c)'
                      ELSE /\ Active(locks[m])'
                           /\ name'[locks'[m]] = m
                           /\ \A c \in Calls : Active(c)' /\ name'[c] = m =>
                                 c = locks'[m] \/ Before(c, locks[m])'
    BY DEF MapNamesTheTail
  <2>1. CASE m = n
    BY <2>1, <1>2, <1>3, <1>6 DEF Active, Joined
  <2>2. CASE m # n
    <3>1. locks'[m] = locks[m] /\ locks[m] # k
        BY <2>2, <1>4, <1>0 DEF IndInv, MapNamesTheTail, Active, Joined
    <3>2. CASE locks[m] = NoCall
        BY <3>1, <3>2, <2>2, <1>2, <1>3 DEF IndInv, MapNamesTheTail
    <3>3. CASE locks[m] # NoCall
      <4>1. locks[m] \in Calls \ {k}
        BY <3>1, <3>3, <1>0 DEF TypeOK
      <4>2. Active(locks[m]) /\ name[locks[m]] = m
        BY <3>3 DEF IndInv, MapNamesTheTail
      <4>3. \A c \in Calls : Active(c) /\ name[c] = m => c = locks[m] \/ Before(c, locks[m])
        BY <3>3 DEF IndInv, MapNamesTheTail
      <4>4. Active(locks[m])'
        BY <3>1, <4>1, <4>2, <1>3 DEF Active
      <4>5. \A c \in Calls : Active(c)' /\ name'[c] = m => c # k /\ Active(c)
        BY <1>2, <1>3, <2>2
      <4>6. \A c \in Calls \ {k} : Before(c, locks[m]) => Before(c, locks[m])'
        BY <4>1, <1>8, <1>2, <1>3, <3>1 DEF Before, Joined
      <4> QED
        BY <3>1, <4>1, <4>2, <4>3, <4>4, <4>5, <4>6, <1>2
    <3> QED
        BY <3>2, <3>3
  <2> QED
    BY <2>1, <2>2
<1>11. PreviousIsNext'
  <2>1. ASSUME locks[n] # NoCall
        PROVE  /\ locks[n] \in Calls \ {k} /\ Joined(locks[n]) /\ name[locks[n]] = n
               /\ \A c \in Calls \ {k} : Joined(c) /\ name[c] = n =>
                     c = locks[n] \/ Before(c, locks[n])
    <3>1. locks[n] \in Calls /\ Active(locks[n]) /\ name[locks[n]] = n
        BY <2>1, <1>0 DEF IndInv, MapNamesTheTail, TypeOK
    <3>2. ASSUME NEW c \in Calls, Joined(c), name[c] = n, c # locks[n]
          PROVE  Before(c, locks[n])
      <4>1. CASE Active(c)
        BY <4>1, <3>2, <2>1, <1>0 DEF IndInv, MapNamesTheTail
      <4>2. CASE pc[c] = "done"
        <5>1. rank[c] # rank[locks[n]]
            BY <3>1, <3>2 DEF IndInv, RanksUnique, Joined, Active
        <5>2. ~Before(locks[n], c)
            BY <3>1, <4>2 DEF IndInv, FifoOrder, Active
        <5> QED
            BY <5>1, <5>2, <3>1, <3>2, <1>0 DEF Before, Joined, Active, TypeOK
      <4> QED
        BY <4>1, <4>2, <3>2 DEF Joined, Active
    <3> QED
        BY <3>1, <3>2, <1>0 DEF Joined, Active
  <2> SUFFICES ASSUME NEW d \in Calls, pc'[d] = "waiting"
               PROVE  /\ previous'[d] \in Calls
                      /\ Before(previous[d], d)'
                      /\ \A c \in Calls : Before(c, d)' =>
                            c = previous'[d] \/ Before(c, previous[d])'
    BY DEF PreviousIsNext
  <2>2. CASE d = k
    <3>1. locks[n] # NoCall /\ previous'[d] = locks[n]
        BY <2>2, <1>2
    <3>3. \A c \in Calls : Before(c, k)' => c # k /\ Joined(c) /\ name[c] = n
        BY <1>6, <1>7
    <3>4. \A c \in Calls \ {k} : Before(c, locks[n]) => Before(c, previous[d])'
        BY <2>1, <3>1, <1>2, <1>3 DEF Before, Joined
    <3>5. Before(previous[d], d)'
        BY <3>1, <2>1, <2>2, <1>2, <1>3, <1>6 DEF Before, Joined
    <3> QED
        BY <3>1, <3>3, <3>4, <3>5, <2>1, <2>2
  <2>3. CASE d # k
    <3>1. pc[d] = "waiting" /\ previous'[d] = previous[d]
        BY <2>3, <1>3
    <3>2. /\ previous[d] \in Calls \ {k} /\ Before(previous[d], d)
          /\ \A c \in Calls : Before(c, d) => c = previous[d] \/ Before(c, previous[d])
        BY <3>1, <1>0 DEF IndInv, PreviousIsNext, Before
    <3>3. Before(previous[d], d)'
        BY <3>1, <3>2, <2>3, <1>2, <1>3 DEF Before, Joined
    <3>4. \A c \in Calls \ {k} : Before(c, previous[d]) => Before(c, previous[d])'
        BY <3>1, <3>2, <1>2, <1>3 DEF Before, Joined
    <3> QED
        BY <3>1, <3>2, <3>3, <3>4, <2>3, <1>7, <1>8
  <2> QED
    BY <2>2, <2>3
<1> QED
    BY <1>1, <1>5, <1>9, <1>10, <1>11 DEF IndInv

(***************************************************************************)
(* Resuming a suspended call keeps IndInv: its predecessor is done, and    *)
(* everything before the predecessor was done already.                     *)
(***************************************************************************)
LEMMA ResumeInd ==
    ASSUME IndInv, NEW k \in Calls, Resume(k)
    PROVE  IndInv'
<1> USE NoCallAssumption
<1>0. /\ TypeOK /\ pc[k] = "waiting"
      /\ locks' = locks /\ previous' = previous /\ name' = name /\ rank' = rank
      /\ arrivals' = arrivals /\ pc'[k] = "running"
      /\ \A c \in Calls \ {k} : pc'[c] = pc[c]
    BY DEF IndInv, TypeOK, Resume
<1>1. TypeOK'
    BY <1>0 DEF TypeOK, Resume, PC
<1>2. \A c \in Calls : Joined(c)' = Joined(c) /\ Active(c)' = Active(c)
    BY <1>0 DEF Joined, Active
<1>3. \A c, d \in Calls : Before(c, d)' = Before(c, d)
    BY <1>0, <1>2 DEF Before
<1>4. RanksUnique'
    BY <1>0, <1>2 DEF IndInv, RanksUnique
<1>5. \A c \in Calls : Before(c, k) => pc[c] = "done"
  <2>1. previous[k] \in Calls /\ pc[previous[k]] = "done"
    BY <1>0 DEF IndInv, PreviousIsNext, Resume
  <2>2. \A c \in Calls : Before(c, previous[k]) => pc[c] = "done"
    BY <2>1 DEF IndInv, FifoOrder
  <2> QED
    BY <1>0, <2>1, <2>2 DEF IndInv, PreviousIsNext
<1>6. FifoOrder'
  <2>1. \A c, d \in Calls : Before(c, d) /\ pc[d] \in {"running", "done"} => pc[c] = "done"
    BY DEF IndInv, FifoOrder
  <2> QED
    BY <1>0, <1>3, <1>5, <2>1 DEF FifoOrder
<1>7. \A c \in Calls, m \in Names : locks[m] \in Calls => Before(c, locks[m])' = Before(c, locks[m])
    BY <1>0, <1>2 DEF Before
<1>8. MapNamesTheTail'
  <2>1. \A m \in Names : locks[m] \in Calls => Active(locks[m])' = Active(locks[m])
    BY <1>0 DEF Active
  <2>2. \A m \in Names : locks[m] # NoCall => locks[m] \in Calls
    BY <1>0 DEF TypeOK
  <2>3. MapNamesTheTail
    BY DEF IndInv
  <2> QED
    BY <1>0, <1>2, <1>7, <2>1, <2>2, <2>3 DEF MapNamesTheTail
<1>9. PreviousIsNext'
  <2> SUFFICES ASSUME NEW d \in Calls, pc'[d] = "waiting"
               PROVE  /\ previous'[d] \in Calls
                      /\ Before(previous[d], d)'
                      /\ \A c \in Calls : Before(c, d)' =>
                            c = previous'[d] \/ Before(c, previous[d])'
    BY DEF PreviousIsNext
  <2>1. pc[d] = "waiting"
    BY <1>0
  <2>2. /\ previous[d] \in Calls /\ Before(previous[d], d)
        /\ \A c \in Calls : Before(c, d) => c = previous[d] \/ Before(c, previous[d])
    BY <2>1 DEF IndInv, PreviousIsNext
  <2>3. \A c \in Calls : Before(c, previous[d])' = Before(c, previous[d])
    BY <1>0, <1>2, <2>2 DEF Before
  <2>4. Before(previous[d], d)' = Before(previous[d], d)
    BY <1>0, <1>2, <2>2 DEF Before
  <2> QED
    BY <1>0, <1>3, <2>2, <2>3, <2>4
<1> QED
    BY <1>1, <1>4, <1>6, <1>8, <1>9 DEF IndInv

(***************************************************************************)
(* Releasing keeps IndInv: everything before the releasing call is done,   *)
(* and the map entry goes away only when nothing has joined behind it.     *)
(***************************************************************************)
LEMMA ReleaseInd ==
    ASSUME IndInv, NEW k \in Calls, Release(k)
    PROVE  IndInv'
<1> USE NoCallAssumption
<1> DEFINE n == name[k]
<1>0. /\ TypeOK /\ pc[k] = "running" /\ n \in Names
      /\ previous' = previous /\ name' = name /\ rank' = rank
      /\ arrivals' = arrivals /\ pc'[k] = "done"
      /\ \A c \in Calls \ {k} : pc'[c] = pc[c]
    BY DEF IndInv, TypeOK, Release
<1>1. TypeOK'
    BY <1>0 DEF TypeOK, Release, PC
<1>2. /\ \A c \in Calls : Joined(c)' = Joined(c)
      /\ \A c \in Calls \ {k} : Active(c)' = Active(c)
      /\ ~Active(k)'
    BY <1>0 DEF Joined, Active
<1>3. \A c, d \in Calls : Before(c, d)' = Before(c, d)
    BY <1>0, <1>2 DEF Before
<1>4. RanksUnique'
    BY <1>0, <1>2 DEF IndInv, RanksUnique
<1>5. FifoOrder'
  <2>1. \A c, d \in Calls : Before(c, d) /\ pc[d] \in {"running", "done"} => pc[c] = "done"
    BY DEF IndInv, FifoOrder
  <2> QED
    BY <1>0, <1>3, <2>1 DEF FifoOrder
<1>6. MapNamesTheTail'
  <2>0. MapNamesTheTail
    BY DEF IndInv
  <2> SUFFICES ASSUME NEW m \in Names
               PROVE  IF locks'[m] = NoCall
                      THEN \A c \in Calls : name'[c] = m => ~Active(c)'
                      ELSE /\ Active(locks[m])'
                           /\ name'[locks'[m]] = m
                           /\ \A c \in Calls : Active(c)' /\ name'[c] = m =>
                                 c = locks'[m] \/ Before(c, locks[m])'
    BY DEF MapNamesTheTail
  <2>1. CASE m = n /\ locks[n] = k
    <3>1. locks'[m] = NoCall
        BY <2>1, <1>0 DEF Release, TypeOK
    <3>2. ASSUME NEW c \in Calls, name[c] = m, c # k, Active(c)
          PROVE  FALSE
      <4>1. Before(c, k)
        BY <3>2, <2>0, <2>1, <1>0 DEF MapNamesTheTail
      <4>2. pc[c] = "done"
        BY <4>1, <1>0 DEF IndInv, FifoOrder
      <4> QED
        BY <4>2, <3>2 DEF Active
    <3> QED
        BY <3>1, <3>2, <1>0, <1>2
  <2>2. CASE ~(m = n /\ locks[n] = k)
    <3>1. locks'[m] = locks[m]
        BY <2>2, <1>0 DEF Release, TypeOK
    <3>2. CASE locks[m] = NoCall
        BY <3>1, <3>2, <2>0, <1>0, <1>2 DEF MapNamesTheTail
    <3>3. CASE locks[m] # NoCall
      <4>1. /\ locks[m] \in Calls /\ locks[m] # k
            /\ Active(locks[m]) /\ name[locks[m]] = m
            /\ \A c \in Calls : Active(c) /\ name[c] = m => c = locks[m] \/ Before(c, locks[m])
        BY <3>3, <2>0, <2>2, <1>0 DEF MapNamesTheTail, TypeOK
      <4>2. Active(locks[m])'
        BY <4>1, <3>1, <1>0 DEF Active
      <4>3. \A c \in Calls : Before(c, locks[m]) => Before(c, locks[m])'
        BY <4>1, <3>1, <1>0, <1>2 DEF Before
      <4> QED
        BY <3>1, <4>1, <4>2, <4>3, <1>0, <1>2
    <3> QED
        BY <3>2, <3>3
  <2> QED
    BY <2>1, <2>2
<1>7. PreviousIsNext'
  <2> SUFFICES ASSUME NEW d \in Calls, pc'[d] = "waiting"
               PROVE  /\ previous'[d] \in Calls
                      /\ Before(previous[d], d)'
                      /\ \A c \in Calls : Before(c, d)' =>
                            c = previous'[d] \/ Before(c, previous[d])'
    BY DEF PreviousIsNext
  <2>1. pc[d] = "waiting"
    BY <1>0
  <2>2. /\ previous[d] \in Calls /\ Before(previous[d], d)
        /\ \A c \in Calls : Before(c, d) => c = previous[d] \/ Before(c, previous[d])
    BY <2>1 DEF IndInv, PreviousIsNext
  <2>3. \A c \in Calls : Before(c, previous[d])' = Before(c, previous[d])
    BY <1>0, <1>2, <2>2 DEF Before
  <2>4. Before(previous[d], d)' = Before(previous[d], d)
    BY <1>0, <1>2, <2>2 DEF Before
  <2> QED
    BY <1>0, <1>3, <2>2, <2>3, <2>4
<1> QED
    BY <1>1, <1>4, <1>5, <1>6, <1>7 DEF IndInv

(***************************************************************************)
(* A tryWithLock call that finds the name busy changes only its own state. *)
(***************************************************************************)
LEMMA SkipInd ==
    ASSUME IndInv, NEW k \in Calls, pc[k] = "idle",
           pc' = [pc EXCEPT ![k] = "skipped"],
           UNCHANGED <<locks, previous, name, rank, arrivals>>
    PROVE  IndInv'
<1> USE NoCallAssumption
<1>0. /\ TypeOK /\ pc'[k] = "skipped"
      /\ locks' = locks /\ previous' = previous /\ name' = name /\ rank' = rank
      /\ arrivals' = arrivals
      /\ \A c \in Calls \ {k} : pc'[c] = pc[c]
    BY DEF IndInv, TypeOK
<1>1. TypeOK'
    BY <1>0 DEF TypeOK, PC
<1>2. \A c \in Calls : Joined(c)' = Joined(c) /\ Active(c)' = Active(c)
    BY <1>0 DEF Joined, Active
<1>3. \A c, d \in Calls : Before(c, d)' = Before(c, d)
    BY <1>0, <1>2 DEF Before
<1>4. RanksUnique'
    BY <1>0, <1>2 DEF IndInv, RanksUnique
<1>5. FifoOrder'
  <2>1. \A c, d \in Calls : Before(c, d) /\ pc[d] \in {"running", "done"} => pc[c] = "done"
    BY DEF IndInv, FifoOrder
  <2> QED
    BY <1>0, <1>3, <2>1 DEF FifoOrder, Before, Joined
<1>6. MapNamesTheTail'
  <2>1. \A m \in Names : locks[m] \in Calls => Active(locks[m])' = Active(locks[m])
    BY <1>0 DEF Active
  <2>2. \A m \in Names : locks[m] # NoCall => locks[m] \in Calls
    BY <1>0 DEF TypeOK
  <2>3. \A c \in Calls, m \in Names : locks[m] \in Calls => Before(c, locks[m])' = Before(c, locks[m])
    BY <1>0, <1>2 DEF Before
  <2>4. MapNamesTheTail
    BY DEF IndInv
  <2> QED
    BY <1>0, <1>2, <2>1, <2>2, <2>3, <2>4 DEF MapNamesTheTail
<1>7. PreviousIsNext'
  <2> SUFFICES ASSUME NEW d \in Calls, pc'[d] = "waiting"
               PROVE  /\ previous'[d] \in Calls
                      /\ Before(previous[d], d)'
                      /\ \A c \in Calls : Before(c, d)' =>
                            c = previous'[d] \/ Before(c, previous[d])'
    BY DEF PreviousIsNext
  <2>1. pc[d] = "waiting"
    BY <1>0
  <2>2. /\ previous[d] \in Calls /\ Before(previous[d], d)
        /\ \A c \in Calls : Before(c, d) => c = previous[d] \/ Before(c, previous[d])
    BY <2>1 DEF IndInv, PreviousIsNext
  <2>3. \A c \in Calls : Before(c, previous[d])' = Before(c, previous[d])
    BY <1>0, <1>2, <2>2 DEF Before
  <2>4. Before(previous[d], d)' = Before(previous[d], d)
    BY <1>0, <1>2, <2>2 DEF Before
  <2> QED
    BY <1>0, <1>3, <2>2, <2>3, <2>4
<1> QED
    BY <1>1, <1>4, <1>5, <1>6, <1>7 DEF IndInv

(***************************************************************************)
(* Every step of locks.ts keeps the inductive invariant.                   *)
(***************************************************************************)
LEMMA NextInd == IndInv /\ [Next]_lockVars => IndInv'
<1> SUFFICES ASSUME IndInv, [Next]_lockVars
             PROVE  IndInv'
    OBVIOUS
<1>1. ASSUME NEW k \in Calls, WithLock(k)
      PROVE  IndInv'
    BY <1>1, AcquireInd DEF WithLock
<1>2. ASSUME NEW k \in Calls, TryWithLock(k)
      PROVE  IndInv'
    BY <1>2, AcquireInd, SkipInd DEF TryWithLock
<1>3. ASSUME NEW k \in Calls, Resume(k)
      PROVE  IndInv'
    BY <1>3, ResumeInd
<1>4. ASSUME NEW k \in Calls, Release(k)
      PROVE  IndInv'
    BY <1>4, ReleaseInd
<1>5. CASE UNCHANGED lockVars
    BY <1>5 DEF lockVars, IndInv, TypeOK, RanksUnique, FifoOrder, MapNamesTheTail,
                PreviousIsNext, Before, Joined, Active
<1> QED
    BY <1>1, <1>2, <1>3, <1>4, <1>5 DEF Next, Step

(***************************************************************************)
(* The inductive invariant holds in every reachable state.                 *)
(***************************************************************************)
THEOREM IndInvHolds == Spec => []IndInv
BY InitInd, NextInd, PTL DEF Spec

(***************************************************************************)
(* withLock and tryWithLock never run two critical sections of one name at *)
(* once, for any number of calls and names.                                *)
(***************************************************************************)
THEOREM MutualExclusionHolds == Spec => []MutualExclusion
<1>1. IndInv => MutualExclusion
    BY FifoImpliesExclusion DEF IndInv
<1> QED
    BY <1>1, IndInvHolds, PTL

(***************************************************************************)
(* Calls of one name are served strictly in their arrival order.           *)
(***************************************************************************)
THEOREM FifoOrderHolds == Spec => []FifoOrder
<1>1. IndInv => FifoOrder
    BY DEF IndInv
<1> QED
    BY <1>1, IndInvHolds, PTL

(***************************************************************************)
(* The map entry of a name is present exactly while the name is in use and *)
(* names the last call in line.                                            *)
(***************************************************************************)
THEOREM MapNamesTheTailHolds == Spec => []MapNamesTheTail
<1>1. IndInv => MapNamesTheTail
    BY DEF IndInv
<1> QED
    BY <1>1, IndInvHolds, PTL

-----------------------------------------------------------------------------
(***************************************************************************)
(* Lines of calls.  Ranks that differ put the members of a finite set in   *)
(* one line: every place is taken by exactly one of them.                  *)
(***************************************************************************)
Ranked(S, r) ==
    /\ IsFiniteSet(S) /\ \A c \in S : r[c] \in Nat
    /\ \A c, d \in S : r[c] = r[d] => c = d

LEMMA PlaceTyped ==
    ASSUME NEW S, NEW r, Ranked(S, r), NEW c \in S
    PROVE  Place(S, r, c) \in 1..Cardinality(S)
<1> DEFINE T == {d \in S : r[d] <= r[c]}
<1>1. T \subseteq S /\ c \in T
    BY DEF Ranked
<1>2. IsFiniteSet(T) /\ Cardinality(T) <= Cardinality(S)
    BY <1>1, FS_Subset DEF Ranked
<1>3. Cardinality(T) \in Nat /\ Cardinality(S) \in Nat /\ Cardinality(T) # 0
    BY <1>1, <1>2, FS_CardinalityType, FS_EmptySet DEF Ranked
<1> QED
    BY <1>2, <1>3 DEF Place

LEMMA PlacesDiffer ==
    ASSUME NEW S, NEW r, Ranked(S, r), NEW c \in S, NEW d \in S, r[c] < r[d]
    PROVE  Place(S, r, c) < Place(S, r, d)
<1> DEFINE C == {e \in S : r[e] <= r[c]}
           D == {e \in S : r[e] <= r[d]}
<1>1. C \subseteq D /\ d \in D /\ d \notin C /\ D \subseteq S
    BY DEF Ranked
<1>2. IsFiniteSet(D)
    BY <1>1, FS_Subset DEF Ranked
<1>3. IsFiniteSet(C) /\ Cardinality(C) <= Cardinality(D) /\ Cardinality(C) # Cardinality(D)
    BY <1>1, <1>2, FS_Subset
<1>4. Cardinality(C) \in Nat /\ Cardinality(D) \in Nat
    BY <1>2, <1>3, FS_CardinalityType
<1> QED
    BY <1>3, <1>4 DEF Place

LEMMA PlaceUnique ==
    ASSUME NEW S, NEW r, Ranked(S, r), NEW c \in S, NEW d \in S, Place(S, r, c) = Place(S, r, d)
    PROVE  c = d
<1> SUFFICES ASSUME c # d
             PROVE  FALSE
    OBVIOUS
<1>1. r[c] < r[d] \/ r[d] < r[c]
    BY DEF Ranked
<1>2. Place(S, r, c) \in Nat /\ Place(S, r, d) \in Nat
    BY PlaceTyped
<1> QED
    BY <1>1, <1>2, PlacesDiffer

LEMMA PlacesTaken ==
    ASSUME NEW S, NEW r, Ranked(S, r), NEW i \in 1..Cardinality(S)
    PROVE  \E c \in S : Place(S, r, c) = i
<1> DEFINE T == 1..Cardinality(S)
           f == [c \in S |-> Place(S, r, c)]
<1>1. Cardinality(S) \in Nat
    BY FS_CardinalityType DEF Ranked
<1>2. IsFiniteSet(T) /\ Cardinality(T) = Cardinality(S)
    BY <1>1, FS_Interval
<1>3. f \in [S -> T]
    BY PlaceTyped
<1>4. IsInjective(f)
  <2> SUFFICES ASSUME NEW c \in S, NEW d \in S, f[c] = f[d]
               PROVE  c = d
    BY DEF IsInjective
  <2> QED
    BY PlaceUnique
<1>5. f \in Injection(S, T)
    BY <1>3, <1>4 DEF Injection
<1>6. f \in Surjection(S, T)
    BY <1>2, <1>5, FS_Injection
<1> QED
    BY <1>6 DEF Surjection

(* The call at a place of the line is the one of that place. *)
LEMMA InOrderAt ==
    ASSUME NEW S, NEW r, Ranked(S, r)
    PROVE  /\ InOrder(S, r) \in Seq(S) /\ Len(InOrder(S, r)) = Cardinality(S)
           /\ \A c \in S : Place(S, r, c) \in 1..Cardinality(S) /\ InOrder(S, r)[Place(S, r, c)] = c
           /\ \A i \in 1..Cardinality(S) :
                 InOrder(S, r)[i] \in S /\ Place(S, r, InOrder(S, r)[i]) = i
<1> DEFINE q == InOrder(S, r)
<1>1. Cardinality(S) \in Nat
    BY FS_CardinalityType DEF Ranked
<1>2. ASSUME NEW i \in 1..Cardinality(S)
      PROVE  q[i] \in S /\ Place(S, r, q[i]) = i
  <2>1. q[i] = CHOOSE c \in S : Place(S, r, c) = i
    BY DEF InOrder
  <2> QED
    BY <2>1, PlacesTaken
<1>3. q \in [1..Cardinality(S) -> S]
  <2>1. q = [i \in 1..Cardinality(S) |-> q[i]]
    BY DEF InOrder
  <2> QED
    BY <1>2, <2>1
<1>4. q \in Seq(S) /\ Len(q) = Cardinality(S)
    BY <1>1, <1>3
<1>5. ASSUME NEW c \in S
      PROVE  Place(S, r, c) \in 1..Cardinality(S) /\ q[Place(S, r, c)] = c
    BY <1>2, PlaceTyped, PlaceUnique
<1> QED
    BY <1>2, <1>4, <1>5

LEMMA InOrderEmpty ==
    ASSUME NEW r
    PROVE  InOrder({}, r) = <<>>
BY FS_EmptySet DEF InOrder

(* A line that a later call joins: k is ranked behind S. *)
Joins(S, r, k, t) ==
    /\ Ranked(S, r) /\ k \notin S /\ t[k] \in Nat
    /\ \A c \in S : t[c] = r[c] /\ r[c] < t[k]

IsAppend(u, q, k) == u = Append(q, k)

LEMMA InOrderAppend ==
    ASSUME NEW S, NEW r, NEW t, NEW k, Joins(S, r, k, t)
    PROVE  /\ Ranked(S \cup {k}, t)
           /\ IsAppend(InOrder(S \cup {k}, t), InOrder(S, r), k)
<1> DEFINE U == S \cup {k}
           n == Cardinality(S)
<1>0. /\ Ranked(S, r) /\ k \notin S /\ t[k] \in Nat
      /\ \A c \in S : t[c] = r[c] /\ r[c] < t[k]
    BY DEF Joins
<1>1. n \in Nat /\ IsFiniteSet(U) /\ Cardinality(U) = n + 1
    BY <1>0, FS_CardinalityType, FS_AddElement DEF Ranked
<1>2. \A c \in S : r[c] \in Nat
    BY <1>0 DEF Ranked
<1>3. Ranked(U, t)
    BY <1>0, <1>1, <1>2 DEF Ranked
<1>4. ASSUME NEW c \in S
      PROVE  Place(U, t, c) = Place(S, r, c)
  <2>1. {d \in U : t[d] <= t[c]} = {d \in S : r[d] <= r[c]}
    BY <1>0, <1>2
  <2> QED
    BY <2>1 DEF Place
<1>5. Place(U, t, k) = n + 1
  <2>1. {d \in U : t[d] <= t[k]} = U
    BY <1>0, <1>2
  <2> QED
    BY <1>1, <2>1 DEF Place
<1>6. /\ InOrder(U, t) \in Seq(U) /\ Len(InOrder(U, t)) = n + 1
      /\ \A c \in U : InOrder(U, t)[Place(U, t, c)] = c
  <2> HIDE DEF U, n
  <2>1. /\ InOrder(U, t) \in Seq(U) /\ Len(InOrder(U, t)) = Cardinality(U)
        /\ \A c \in U : InOrder(U, t)[Place(U, t, c)] = c
    BY <1>3, InOrderAt
  <2> QED
    BY <1>1, <2>1
<1>7. /\ InOrder(S, r) \in Seq(S) /\ Len(InOrder(S, r)) = n
      /\ \A i \in 1..n : InOrder(S, r)[i] \in S /\ Place(S, r, InOrder(S, r)[i]) = i
    BY <1>0, InOrderAt
<1> DEFINE q == InOrder(S, r)
           u == InOrder(U, t)
<1> HIDE DEF q, u, n, U
<1>8. \A i \in 1..n : u[i] = q[i]
  <2> SUFFICES ASSUME NEW i \in 1..n
               PROVE  u[i] = q[i]
    OBVIOUS
  <2>1. q[i] \in S /\ Place(S, r, q[i]) = i
    BY <1>7 DEF q
  <2>2. Place(U, t, q[i]) = i /\ q[i] \in U
    BY <1>4, <2>1 DEF U
  <2> QED
    BY <1>6, <2>2 DEF u
<1>9. u[n + 1] = k
    BY <1>5, <1>6 DEF u, U
<1>10. u = Append(q, k)
  <2>1. u \in Seq(U) /\ Len(u) = n + 1
    BY <1>6 DEF u
  <2>2. q \in Seq(U) /\ Len(q) = n /\ k \in U
    BY <1>7 DEF q, U
  <2>3. Append(q, k) \in Seq(U) /\ Len(Append(q, k)) = n + 1
    BY <2>2
  <2>4. \A i \in 1..(n + 1) : u[i] = Append(q, k)[i]
    BY <1>1, <1>8, <1>9, <2>2
  <2> QED
    BY <2>1, <2>3, <2>4
<1> QED
    BY <1>3, <1>10 DEF u, q, U, IsAppend

(* A line that its first call leaves. *)
LEMMA InOrderTail ==
    ASSUME NEW S, NEW r, Ranked(S, r), NEW k \in S, \A c \in S : c # k => r[k] < r[c]
    PROVE  /\ Ranked(S \ {k}, r) /\ InOrder(S, r) # <<>> /\ Head(InOrder(S, r)) = k
           /\ InOrder(S \ {k}, r) = Tail(InOrder(S, r))
<1> DEFINE U == S \ {k}
           n == Cardinality(S)
<1>1. n \in Nat /\ IsFiniteSet(U) /\ Cardinality(U) = n - 1
    BY FS_CardinalityType, FS_RemoveElement DEF Ranked
<1>2. \A c \in S : r[c] \in Nat
    BY DEF Ranked
<1>3. Ranked(U, r)
    BY <1>1 DEF Ranked
<1>4. Place(S, r, k) = 1
  <2>1. {d \in S : r[d] <= r[k]} = {k}
    BY <1>2
  <2> QED
    BY <2>1, FS_Singleton DEF Place
<1>5. ASSUME NEW c \in U
      PROVE  Place(S, r, c) = Place(U, r, c) + 1
  <2> DEFINE T == {d \in U : r[d] <= r[c]}
  <2>1. {d \in S : r[d] <= r[c]} = T \cup {k}
    BY <1>2
  <2>2. IsFiniteSet(T) /\ k \notin T
    BY <1>1, FS_Subset
  <2>3. Cardinality(T \cup {k}) = Cardinality(T) + 1
    BY <2>2, FS_AddElement
  <2> QED
    BY <2>1, <2>3 DEF Place
<1> DEFINE q == InOrder(S, r)
           u == InOrder(U, r)
<1>6. q \in Seq(S) /\ Len(q) = n /\ \A c \in S : Place(S, r, c) \in 1..n /\ q[Place(S, r, c)] = c
    BY InOrderAt
<1>7. /\ u \in Seq(U) /\ Len(u) = n - 1
      /\ \A i \in 1..(n - 1) : u[i] \in U /\ Place(U, r, u[i]) = i
    BY <1>1, <1>3, InOrderAt
<1> HIDE DEF q, u, n, U
<1>8. \A i \in 1..(n - 1) : u[i] = q[i + 1]
  <2> SUFFICES ASSUME NEW i \in 1..(n - 1)
               PROVE  u[i] = q[i + 1]
    OBVIOUS
  <2>1. u[i] \in U /\ Place(U, r, u[i]) = i
    BY <1>7
  <2>2. Place(S, r, u[i]) = i + 1 /\ u[i] \in S
    BY <1>5, <2>1 DEF U
  <2> QED
    BY <1>6, <2>2
<1>9. q # <<>> /\ Head(q) = k
    BY <1>1, <1>4, <1>6
<1>10. u = Tail(q)
  <2>1. u \in Seq(S)
    BY <1>7 DEF U
  <2>2. n \in Nat \ {0}
    BY <1>1, <1>4, <1>6
  <2>3. Tail(q) \in Seq(S) /\ Len(Tail(q)) = n - 1
    BY <1>6, <1>9, <2>2
  <2>4. \A i \in 1..(n - 1) : Tail(q)[i] = q[i + 1]
    BY <1>6, <1>9, <2>2
  <2> QED
    BY <1>7, <1>8, <2>1, <2>3, <2>4
<1> QED
    BY <1>3, <1>9, <1>10 DEF q, u, U

-----------------------------------------------------------------------------
(***************************************************************************)
(* The lines of locks.ts.  A line stays finite however many calls there    *)
(* are, because a step adds at most one of them, so that its order is the  *)
(* abstract queue.                                                         *)
(***************************************************************************)
LinesFinite == \A n \in Names : IsFiniteSet(Line(n))

LineInv == IndInv /\ LinesFinite

LEMMA LineRanked ==
    ASSUME LineInv, NEW n \in Names
    PROVE  Ranked(Line(n), rank)
<1>1. IsFiniteSet(Line(n))
    BY DEF LineInv, LinesFinite
<1>2. \A c \in Line(n) : c \in Calls /\ Joined(c)
    BY DEF Line, Active, Joined
<1> QED
    BY <1>1, <1>2 DEF Ranked, LineInv, IndInv, TypeOK, RanksUnique

LEMMA QueueIsLine ==
    ASSUME IndInv, NEW n \in Names
    PROVE  /\ QueueOf(n) = InOrder(Line(n), rank)
           /\ locks[n] = NoCall <=> Line(n) = {}
<1>1. CASE locks[n] = NoCall
  <2>1. Line(n) = {}
    BY <1>1 DEF IndInv, MapNamesTheTail, Line
  <2> QED
    BY <1>1, <2>1, InOrderEmpty DEF QueueOf
<1>2. CASE locks[n] # NoCall
  <2>1. locks[n] \in Line(n)
    BY <1>2 DEF IndInv, TypeOK, MapNamesTheTail, Line
  <2> QED
    BY <1>2, <2>1 DEF QueueOf
<1> QED
    BY <1>1, <1>2

(* The same of the state a step reaches. *)
LEMMA NextQueueIsLine ==
    ASSUME IndInv', NEW n \in Names
    PROVE  QueueOf(n)' = InOrder(Line(n)', rank')
<1>1. CASE locks'[n] = NoCall
  <2>1. Line(n)' = {}
    BY <1>1 DEF IndInv, MapNamesTheTail, Line
  <2> QED
    BY <1>1, <2>1, InOrderEmpty DEF QueueOf
<1>2. CASE locks'[n] # NoCall
    BY <1>2 DEF QueueOf
<1> QED
    BY <1>1, <1>2

LEMMA QueueEmpty ==
    ASSUME LineInv, NEW n \in Names
    PROVE  QueueOf(n) = <<>> <=> locks[n] = NoCall
<1>1. QueueOf(n) = InOrder(Line(n), rank) /\ (locks[n] = NoCall <=> Line(n) = {})
    BY QueueIsLine DEF LineInv
<1>2. Ranked(Line(n), rank)
    BY LineRanked
<1>3. InOrder(Line(n), rank) \in Seq(Line(n)) /\ Len(InOrder(Line(n), rank)) = Cardinality(Line(n))
    BY <1>2, InOrderAt
<1>4. Cardinality(Line(n)) = 0 <=> Line(n) = {}
    BY <1>2, FS_EmptySet DEF Ranked
<1> QED
    BY <1>1, <1>3, <1>4

(* A line whose members and ranks a step leaves alone keeps its order. *)
LEMMA InOrderSame ==
    ASSUME NEW S, NEW r, NEW t, Ranked(S, r), \A c \in S : t[c] = r[c]
    PROVE  InOrder(S, t) = InOrder(S, r)
<1>1. Ranked(S, t)
    BY DEF Ranked
<1>2. ASSUME NEW c \in S
      PROVE  Place(S, t, c) = Place(S, r, c)
  <2>1. {d \in S : t[d] <= t[c]} = {d \in S : r[d] <= r[c]}
    OBVIOUS
  <2> QED
    BY <2>1 DEF Place
<1>3. /\ InOrder(S, t) \in Seq(S) /\ Len(InOrder(S, t)) = Cardinality(S)
      /\ \A c \in S : InOrder(S, t)[Place(S, t, c)] = c
    BY <1>1, InOrderAt
<1>4. /\ InOrder(S, r) \in Seq(S) /\ Len(InOrder(S, r)) = Cardinality(S)
      /\ \A i \in 1..Cardinality(S) :
            InOrder(S, r)[i] \in S /\ Place(S, r, InOrder(S, r)[i]) = i
    BY InOrderAt
<1>5. \A i \in 1..Cardinality(S) : InOrder(S, t)[i] = InOrder(S, r)[i]
    BY <1>2, <1>3, <1>4
<1> QED
    BY <1>3, <1>4, <1>5

(* The first call of a line is the one every other arrived after. *)
LEMMA FirstInLine ==
    ASSUME LineInv, NEW k \in Calls, Active(k),
           \A c \in Calls : Before(c, k) => pc[c] = "done"
    PROVE  /\ QueueOf(name[k]) # <<>> /\ Head(QueueOf(name[k])) = k
           /\ InOrder(Line(name[k]) \ {k}, rank) = Tail(QueueOf(name[k]))
<1> PICK n \in Names : n = name[k]
    BY DEF LineInv, IndInv, TypeOK
<1>1. QueueOf(n) = InOrder(Line(n), rank)
    BY QueueIsLine DEF LineInv
<1>2. Ranked(Line(n), rank)
    BY LineRanked
<1>3. k \in Line(n)
    BY DEF Line
<1>4. ASSUME NEW c \in Line(n), c # k
      PROVE  rank[k] < rank[c]
  <2>1. c \in Calls /\ Active(c) /\ name[c] = name[k] /\ Joined(c) /\ Joined(k)
    BY DEF Line, Active, Joined
  <2>2. rank[c] # rank[k]
    BY <1>4, <2>1 DEF LineInv, IndInv, RanksUnique
  <2>3. ~(rank[c] < rank[k])
    BY <2>1 DEF Before, Active
  <2>4. rank[c] \in Nat /\ rank[k] \in Nat
    BY <2>1 DEF LineInv, IndInv, TypeOK
  <2> QED
    BY <2>2, <2>3, <2>4
<1>5. /\ InOrder(Line(n), rank) # <<>> /\ Head(InOrder(Line(n), rank)) = k
      /\ InOrder(Line(n) \ {k}, rank) = Tail(InOrder(Line(n), rank))
    BY <1>2, <1>3, <1>4, InOrderTail
<1> QED
    BY <1>1, <1>5

-----------------------------------------------------------------------------
(***************************************************************************)
(* What each step does to the lines, and that they stay finite.            *)
(***************************************************************************)
LEMMA AcquireLine ==
    ASSUME LineInv, NEW k \in Calls, pc[k] = "idle", Acquire(k), NEW m \in Names
    PROVE  /\ Line(m)' = IF m = name[k] THEN Line(m) \cup {k} ELSE Line(m)
           /\ k \notin Line(m) /\ rank'[k] = arrivals
           /\ \A c \in Line(m) : rank'[c] = rank[c] /\ rank[c] < arrivals
<1>1. TypeOK /\ RanksUnique
    BY DEF LineInv, IndInv
<1>2. /\ name' = name /\ pc'[k] \in {"waiting", "running"} /\ rank'[k] = arrivals
      /\ \A c \in Calls \ {k} : pc'[c] = pc[c] /\ rank'[c] = rank[c]
    BY <1>1 DEF Acquire, TypeOK
<1>3. k \notin Line(m)
    BY DEF Line, Active
<1>4. \A c \in Line(m) : rank'[c] = rank[c] /\ rank[c] < arrivals
    BY <1>1, <1>2, <1>3 DEF Line, Active, Joined, RanksUnique
<1>5. Line(m)' = IF m = name[k] THEN Line(m) \cup {k} ELSE Line(m)
    BY <1>2 DEF Line, Active
<1> QED
    BY <1>2, <1>3, <1>4, <1>5

LEMMA ResumeLine ==
    ASSUME LineInv, NEW k \in Calls, Resume(k), NEW m \in Names
    PROVE  Line(m)' = Line(m)
BY DEF LineInv, IndInv, TypeOK, Resume, Line, Active

LEMMA ReleaseLine ==
    ASSUME LineInv, NEW k \in Calls, Release(k), NEW m \in Names
    PROVE  Line(m)' = IF m = name[k] THEN Line(m) \ {k} ELSE Line(m)
<1>1. name' = name /\ pc[k] = "running" /\ pc'[k] = "done" /\ \A c \in Calls \ {k} : pc'[c] = pc[c]
    BY DEF LineInv, IndInv, TypeOK, Release
<1> QED
    BY <1>1 DEF Line, Active

LEMMA SkipLine ==
    ASSUME LineInv, NEW k \in Calls, pc[k] = "idle", pc' = [pc EXCEPT ![k] = "skipped"],
           UNCHANGED name, NEW m \in Names
    PROVE  Line(m)' = Line(m)
<1>1. pc'[k] = "skipped" /\ \A c \in Calls \ {k} : pc'[c] = pc[c]
    BY DEF LineInv, IndInv, TypeOK
<1> QED
    BY <1>1 DEF Line, Active

LEMMA LineInvInit == Init => LineInv
<1> SUFFICES ASSUME Init
             PROVE  LineInv
    OBVIOUS
<1>1. \A n \in Names : Line(n) = {}
    BY DEF Init, Line, Active
<1> QED
    BY <1>1, InitInd, FS_EmptySet DEF LineInv, LinesFinite

LEMMA LineInvNext == LineInv /\ [Next]_lockVars => LineInv'
<1> SUFFICES ASSUME LineInv, [Next]_lockVars
             PROVE  LineInv'
    OBVIOUS
<1>1. IndInv'
    BY NextInd DEF LineInv
<1>2. \A m \in Names : IsFiniteSet(Line(m))
    BY DEF LineInv, LinesFinite
<1> SUFFICES ASSUME NEW m \in Names
             PROVE  IsFiniteSet(Line(m)')
    BY <1>1 DEF LineInv, LinesFinite
<1>3. ASSUME NEW k \in Calls, pc[k] = "idle", Acquire(k)
      PROVE  IsFiniteSet(Line(m)')
    BY <1>2, <1>3, AcquireLine, FS_AddElement
<1>4. ASSUME NEW k \in Calls, TryWithLock(k)
      PROVE  IsFiniteSet(Line(m)')
    BY <1>2, <1>3, <1>4, SkipLine DEF TryWithLock
<1>5. ASSUME NEW k \in Calls, Resume(k)
      PROVE  IsFiniteSet(Line(m)')
    BY <1>2, <1>5, ResumeLine
<1>6. ASSUME NEW k \in Calls, Release(k)
      PROVE  IsFiniteSet(Line(m)')
    BY <1>2, <1>6, ReleaseLine, FS_RemoveElement
<1>7. CASE UNCHANGED lockVars
  <2>1. Line(m)' = Line(m)
    BY <1>7 DEF lockVars, Line, Active
  <2> QED
    BY <1>2, <2>1
<1> QED
    BY <1>3, <1>4, <1>5, <1>6, <1>7 DEF Next, Step, WithLock

LEMMA LineInvHolds == Spec => []LineInv
BY LineInvInit, LineInvNext, PTL DEF Spec

-----------------------------------------------------------------------------
(***************************************************************************)
(* Every step of locks.ts is a step of FifoMutex or leaves it as it is.    *)
(***************************************************************************)
LEMMA AcquireJoins ==
    ASSUME LineInv, LineInv', NEW k \in Calls, pc[k] = "idle", Acquire(k), NEW n \in Names, n = name[k]
    PROVE  Mutex!Join(k, n)
<1> DEFINE Q == [m \in Names |-> QueueOf(m)]
           H == {c \in Calls : pc[c] = "running"}
<1>1. \A m \in Names : \A i \in 1..Len(QueueOf(m)) : QueueOf(m)[i] # k
  <2> SUFFICES ASSUME NEW m \in Names, NEW i \in 1..Len(QueueOf(m))
               PROVE  QueueOf(m)[i] # k
    OBVIOUS
  <2>1. QueueOf(m) = InOrder(Line(m), rank) /\ Ranked(Line(m), rank)
    BY QueueIsLine, LineRanked DEF LineInv
  <2>2. QueueOf(m) \in Seq(Line(m))
    BY <2>1, InOrderAt
  <2>3. k \notin Line(m)
    BY AcquireLine
  <2> QED
    BY <2>2, <2>3
<1>2. QueueOf(n)' = Append(QueueOf(n), k)
  <2>1. QueueOf(n)' = InOrder(Line(n) \cup {k}, rank')
    BY NextQueueIsLine, AcquireLine DEF LineInv
  <2>2. QueueOf(n) = InOrder(Line(n), rank) /\ Ranked(Line(n), rank)
    BY QueueIsLine, LineRanked DEF LineInv
  <2>3. /\ k \notin Line(n) /\ rank'[k] \in Nat
        /\ \A c \in Line(n) : rank'[c] = rank[c] /\ rank[c] < rank'[k]
    BY AcquireLine DEF LineInv, IndInv, TypeOK
  <2>4. InOrder(Line(n) \cup {k}, rank') = Append(InOrder(Line(n), rank), k)
    <3>1. Joins(Line(n), rank, k, rank')
      BY <2>2, <2>3 DEF Joins
    <3>2. IsAppend(InOrder(Line(n) \cup {k}, rank'), InOrder(Line(n), rank), k)
      BY <3>1, InOrderAppend
    <3> QED
      BY <3>2 DEF IsAppend
  <2> QED
    BY <2>1, <2>2, <2>4
<1>3. ASSUME NEW m \in Names, m # n
      PROVE  QueueOf(m)' = QueueOf(m)
  <2>1. QueueOf(m)' = InOrder(Line(m), rank')
    BY <1>3, NextQueueIsLine, AcquireLine DEF LineInv
  <2>2. QueueOf(m) = InOrder(Line(m), rank) /\ Ranked(Line(m), rank)
    BY QueueIsLine, LineRanked DEF LineInv
  <2>3. \A c \in Line(m) : rank'[c] = rank[c]
    BY AcquireLine
  <2> QED
    BY <2>1, <2>2, <2>3, InOrderSame
<1>4. Q' = [Q EXCEPT ![n] = Append(@, k)]
    BY <1>2, <1>3
<1>5. H' = IF QueueOf(n) = <<>> THEN H \cup {k} ELSE H
  <2>1. QueueOf(n) = <<>> <=> locks[n] = NoCall
    BY QueueEmpty
  <2>2. /\ pc'[k] = IF locks[n] = NoCall THEN "running" ELSE "waiting"
        /\ \A c \in Calls \ {k} : pc'[c] = pc[c]
    BY DEF LineInv, IndInv, TypeOK, Acquire
  <2> QED
    BY <2>1, <2>2
<1> QED
    BY <1>1, <1>4, <1>5 DEF Mutex!Join

LEMMA ResumeGrants ==
    ASSUME LineInv, NEW k \in Calls, Resume(k), NEW n \in Names, n = name[k]
    PROVE  Mutex!Grant(n)
<1> DEFINE Q == [m \in Names |-> QueueOf(m)]
           H == {c \in Calls : pc[c] = "running"}
<1>1. \A c \in Calls : Before(c, k) => pc[c] = "done"
  <2>1. previous[k] \in Calls /\ pc[previous[k]] = "done"
    BY DEF LineInv, IndInv, PreviousIsNext, Resume
  <2>2. \A c \in Calls : Before(c, previous[k]) => pc[c] = "done"
    BY <2>1 DEF LineInv, IndInv, FifoOrder
  <2> QED
    BY <2>1, <2>2 DEF LineInv, IndInv, PreviousIsNext, Resume
<1>2. QueueOf(n) # <<>> /\ Head(QueueOf(n)) = k
    BY <1>1, FirstInLine DEF Resume, Active
<1>3. k \notin H /\ H' = H \cup {k}
    BY DEF LineInv, IndInv, TypeOK, Resume
<1>4. Q' = Q
  <2>1. \A m \in Names : QueueOf(m)' = QueueOf(m)
    BY ResumeLine DEF QueueOf, Resume
  <2> QED
    BY <2>1
<1> QED
    BY <1>2, <1>3, <1>4 DEF Mutex!Grant

LEMMA ReleaseLeaves ==
    ASSUME LineInv, LineInv', NEW k \in Calls, Release(k), NEW n \in Names, n = name[k]
    PROVE  Mutex!Leave(n)
<1> DEFINE Q == [m \in Names |-> QueueOf(m)]
           H == {c \in Calls : pc[c] = "running"}
<1>1. \A c \in Calls : Before(c, k) => pc[c] = "done"
    BY DEF LineInv, IndInv, FifoOrder, Release
<1>2. /\ QueueOf(n) # <<>> /\ Head(QueueOf(n)) = k
      /\ InOrder(Line(n) \ {k}, rank) = Tail(QueueOf(n))
    BY <1>1, FirstInLine DEF Release, Active
<1>3. k \in H /\ H' = H \ {k}
    BY DEF LineInv, IndInv, TypeOK, Release
<1>4. QueueOf(n)' = Tail(QueueOf(n))
    BY <1>2, NextQueueIsLine, ReleaseLine DEF LineInv, Release
<1>5. ASSUME NEW m \in Names, m # n
      PROVE  QueueOf(m)' = QueueOf(m)
  <2>1. QueueOf(m)' = InOrder(Line(m), rank)
    BY <1>5, NextQueueIsLine, ReleaseLine DEF LineInv, Release
  <2> QED
    BY <2>1, QueueIsLine DEF LineInv
<1>6. Q' = [Q EXCEPT ![n] = Tail(@)]
    BY <1>4, <1>5
<1> QED
    BY <1>2, <1>3, <1>6 DEF Mutex!Leave

LEMMA SkipIsUnseen ==
    ASSUME LineInv, NEW k \in Calls, pc[k] = "idle", pc' = [pc EXCEPT ![k] = "skipped"],
           UNCHANGED <<locks, previous, name, rank, arrivals>>
    PROVE  UNCHANGED Mutex!vars
<1>1. \A m \in Names : QueueOf(m)' = QueueOf(m)
    BY SkipLine DEF QueueOf
<1>2. {c \in Calls : pc'[c] = "running"} = {c \in Calls : pc[c] = "running"}
    BY DEF LineInv, IndInv, TypeOK
<1> QED
    BY <1>1, <1>2 DEF Mutex!vars

LEMMA MutexInit == Init => Mutex!Init
BY DEF Init, Mutex!Init, QueueOf

LEMMA MutexNext == LineInv /\ LineInv' /\ [Next]_lockVars => [Mutex!Next]_Mutex!vars
<1> SUFFICES ASSUME LineInv, LineInv', [Next]_lockVars
             PROVE  [Mutex!Next]_Mutex!vars
    OBVIOUS
<1>0. \A k \in Calls : name[k] \in Names
    BY DEF LineInv, IndInv, TypeOK
<1>1. ASSUME NEW k \in Calls, pc[k] = "idle", Acquire(k)
      PROVE  Mutex!Next
  <2> PICK n \in Names : n = name[k]
    BY <1>0
  <2>1. Mutex!Join(k, n)
    BY <1>1, AcquireJoins
  <2> QED
    BY <2>1 DEF Mutex!Next
<1>2. ASSUME NEW k \in Calls, TryWithLock(k)
      PROVE  [Mutex!Next]_Mutex!vars
    BY <1>1, <1>2, SkipIsUnseen DEF TryWithLock
<1>3. ASSUME NEW k \in Calls, Resume(k)
      PROVE  Mutex!Next
  <2> PICK n \in Names : n = name[k]
    BY <1>0
  <2>1. Mutex!Grant(n)
    BY <1>3, ResumeGrants
  <2> QED
    BY <2>1 DEF Mutex!Next
<1>4. ASSUME NEW k \in Calls, Release(k)
      PROVE  Mutex!Next
  <2> PICK n \in Names : n = name[k]
    BY <1>0
  <2>1. Mutex!Leave(n)
    BY <1>4, ReleaseLeaves
  <2> QED
    BY <2>1 DEF Mutex!Next
<1>5. CASE UNCHANGED lockVars
  <2>1. \A m \in Names : QueueOf(m)' = QueueOf(m)
    BY <1>5 DEF lockVars, QueueOf, Line, Active
  <2> QED
    BY <1>5, <2>1 DEF lockVars, Mutex!vars
<1> QED
    BY <1>1, <1>2, <1>3, <1>4, <1>5 DEF Next, Step, WithLock

(***************************************************************************)
(* The promise chain of locks.ts implements one first-in first-out queue   *)
(* per name for any number of calls and names: a call that joins is the    *)
(* last of its queue, only the head runs, and a tryWithLock that finds the *)
(* name busy leaves no trace.                                              *)
(***************************************************************************)
THEOREM LocksAreQueues == Spec => ImplementsFifoMutex
BY LineInvHolds, MutexInit, MutexNext, PTL DEF Spec, ImplementsFifoMutex, Mutex!Spec
=============================================================================
