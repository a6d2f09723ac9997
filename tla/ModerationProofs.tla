--------------------------- MODULE ModerationProofs ---------------------------
(***************************************************************************)
(* Theorems about the intelligence feeds (Intel) and about penalties       *)
(* (Punishment), for any number of feeds, policies, members and            *)
(* operations in flight.                                                   *)
(***************************************************************************)
EXTENDS Intel, Punishment, FiniteSetTheorems, TLAPS

Cached == [Urls -> Digests \cup {None}]
SourceStates == [Urls -> [listed : BOOLEAN, ok : BOOLEAN, verified : BOOLEAN]]
CallerStates == [Callers -> CallerState \cup {None}]

(***************************************************************************)
(* What a reconciliation keeps, its policy allows.                         *)
(***************************************************************************)
LEMMA RetainedAllowed ==
    ASSUME NEW p \in Policies, NEW F \in Cached
    PROVE  /\ Retained(p, F) \in Cached
           /\ ActivateConfiguredFeeds(p, Retained(p, F)) \subseteq Pair
           /\ \A x \in ActivateConfiguredFeeds(p, Retained(p, F)) : Allows(p, x)
<1>1. Retained(p, F) \in Cached
    BY DEF Retained, Cached
<1>2. ASSUME NEW x \in ActivateConfiguredFeeds(p, Retained(p, F))
      PROVE  x \in Pair /\ Allows(p, x)
  <2>1. x \in Pair /\ x[1] \in p.urls /\ Retained(p, F)[x[1]] = x[2]
    BY <1>2 DEF ActivateConfiguredFeeds
  <2>2. x[1] \in Urls /\ x[2] \in Digests
    BY <2>1 DEF Pair
  <2>3. Keeps(p, x[1], F[x[1]]) /\ F[x[1]] = x[2]
    BY <2>1, <2>2, IntelAssumption DEF Retained
  <2> QED
    BY <2>1, <2>3 DEF Keeps, Allows
<1> QED
    BY <1>1, <1>2

LEMMA SourcesTyped ==
    ASSUME sources \in SourceStates, NEW p, NEW F, NEW ok
    PROVE  /\ ReconciledSources(p, F) \in SourceStates
           /\ AttemptedSources(p, ok) \in SourceStates
<1>1. Unlisted \in [listed : BOOLEAN, ok : BOOLEAN, verified : BOOLEAN]
    BY DEF Unlisted
<1>2. \A u, d : Verified(p, u, d) \in BOOLEAN
    BY DEF Verified
<1>3. ReconciledSources(p, F) \in SourceStates
  <2> DEFINE isOk(u) == sources[u].ok /\ F[u] # None /\ (p.pins[u] = None \/ Verified(p, u, F[u]))
             verified(u) == Verified(p, u, F[u])
  <2>1. \A u : isOk(u) \in BOOLEAN /\ verified(u) \in BOOLEAN
    BY <1>2
  <2>2. ReconciledSources(p, F) =
            [u \in Urls |-> IF u \notin p.urls THEN Unlisted
                            ELSE [listed |-> TRUE, verified |-> verified(u), ok |-> isOk(u)]]
    BY DEF ReconciledSources
  <2> HIDE DEF isOk, verified
  <2> QED
    BY <1>1, <2>1, <2>2 DEF SourceStates
<1>4. AttemptedSources(p, ok) \in SourceStates
  <2> DEFINE isOk(u) == u \in ok
             verified(u) == Verified(p, u, feeds[u])
  <2>1. \A u : isOk(u) \in BOOLEAN /\ verified(u) \in BOOLEAN
    BY <1>2
  <2>2. AttemptedSources(p, ok) =
            [u \in Urls |-> IF u \notin p.urls THEN Unlisted
                            ELSE [listed |-> TRUE, ok |-> isOk(u), verified |-> verified(u)]]
    BY DEF AttemptedSources
  <2> HIDE DEF isOk, verified
  <2> QED
    BY <1>1, <2>1, <2>2 DEF SourceStates
<1> QED
    BY <1>3, <1>4

LEMMA AfterRefreshTyped ==
    ASSUME NEW r \in CallerState
    PROVE  /\ AfterRefresh(r) = None \/ (AfterRefresh(r) \in CallerState /\ AfterRefresh(r).at = "judge")
           /\ AfterRefresh(r) \in CallerState \cup {None}
BY DEF AfterRefresh, CallerState

(***************************************************************************)
(* refresh() up to its first await.                                        *)
(***************************************************************************)
LEMMA RefreshSound ==
    ASSUME IntelInd, NEW h \in Callers, NEW r \in CallerState, NEW p \in Policies,
           caller[h] = None \/ caller[h].at = "woken",
           policy' \in Policies, changes' \in 0..MaxChanges, Refresh(h, r, p)
    PROVE  IntelInd'
<1>1. feeds \in Cached /\ sources \in SourceStates /\ caller \in CallerStates
    BY DEF IntelInd, IntelTypeOK, Cached, SourceStates, CallerStates
<1>2. feeds' \in Cached /\ active' \subseteq Pair /\ applied' = p
      /\ \A x \in active' : Allows(p, x)
    BY <1>1, RetainedAllowed DEF Refresh, Reconcile
<1>3. sources' \in SourceStates
    BY <1>1, SourcesTyped DEF Refresh, Reconcile
<1>4. age' \in {"never", "fresh", "old"}
    BY DEF Refresh, IntelInd, IntelTypeOK
<1>5. flight = None \/ (flight # None /\ flight.owner # h)
    BY DEF IntelInd, EveryWaitIsAnswered
<1> DEFINE Rest == \A c \in Callers : c # h => caller'[c] = caller[c]
<1>6. CASE ~Wanted(p)
  <2>1. caller' = [caller EXCEPT ![h] = AfterRefresh(r)] /\ flight' = flight
    BY <1>6 DEF Refresh
  <2>2. caller' \in CallerStates
    BY <1>1, <2>1, AfterRefreshTyped DEF CallerStates
  <2>3. caller'[h] # None => caller'[h].at = "judge"
    BY <1>1, <2>1, AfterRefreshTyped DEF CallerStates
  <2>4. Rest
    BY <1>1, <2>1 DEF CallerStates
  <2>5. EveryWaitIsAnswered' /\ (flight # None => caller[flight.owner] # None)'
    BY <1>5, <2>1, <2>3, <2>4 DEF EveryWaitIsAnswered, IntelInd, Flight
  <2> QED
    BY <1>2, <1>3, <1>4, <2>1, <2>2, <2>5
    DEF IntelInd, IntelTypeOK, Cached, SourceStates, CallerStates, Allows
<1>7. CASE Wanted(p) /\ flight # None
  <2> DEFINE s == [r EXCEPT !.at = "waiting", !.asked = p, !.joined = flight.policy]
  <2>1. caller' = [caller EXCEPT ![h] = s] /\ flight' = flight
    BY <1>7 DEF Refresh
  <2>2. flight.policy \in Policies
    BY <1>7 DEF IntelInd, IntelTypeOK
  <2>3. s \in CallerState /\ s.at = "waiting"
    BY <2>2 DEF CallerState
  <2> HIDE DEF s
  <2>4. caller' \in CallerStates /\ caller'[h].at = "waiting"
    BY <1>1, <2>1, <2>3 DEF CallerStates
  <2>5. Rest
    BY <1>1, <2>1 DEF CallerStates
  <2>6. EveryWaitIsAnswered' /\ (flight # None => caller[flight.owner] # None)'
    BY <1>5, <1>7, <2>1, <2>4, <2>5 DEF EveryWaitIsAnswered, IntelInd, Flight
  <2> QED
    BY <1>2, <1>3, <1>4, <2>1, <2>4, <2>6
    DEF IntelInd, IntelTypeOK, Cached, SourceStates, CallerStates, Allows
<1>8. CASE Wanted(p) /\ flight = None
  <2> DEFINE s == [r EXCEPT !.at = "owner", !.asked = p, !.joined = p]
             f == [policy |-> p, left |-> p.urls, ok |-> {}, owner |-> h]
  <2>1. caller' = [caller EXCEPT ![h] = s] /\ flight' = f
    BY <1>8 DEF Refresh
  <2>2. s \in CallerState /\ s.at = "owner"
    BY DEF CallerState
  <2>3. p.urls \subseteq Urls
    BY IntelAssumption DEF Policy
  <2>4. f \in Flight /\ f.owner = h /\ f.left = p.urls /\ f.policy = p
    BY <2>3 DEF Flight
  <2> HIDE DEF s, f
  <2>5. caller' \in CallerStates /\ caller'[h] = s /\ s # None /\ f # None
    BY <1>1, <2>1, <2>2, <2>4, IntelNoneAssumption DEF CallerStates
  <2>6. Rest
    BY <1>1, <2>1 DEF CallerStates
  <2>7. EveryWaitIsAnswered' /\ (flight # None => caller[flight.owner] # None)'
    BY <1>8, <2>1, <2>2, <2>4, <2>5, <2>6 DEF EveryWaitIsAnswered, IntelInd
  <2> QED
    BY <1>2, <1>3, <1>4, <2>1, <2>4, <2>5, <2>7
    DEF IntelInd, IntelTypeOK, Cached, SourceStates, CallerStates, Allows
<1> QED
    BY <1>6, <1>7, <1>8

LEMMA CallTyped ==
    ASSUME IntelInd, NEW op \in {"refresh", "join"}
    PROVE  Call(op) \in CallerState
BY DEF Call, CallerState, IntelInd, IntelTypeOK

LEMMA AskingSound ==
    ASSUME IntelInd, NEW h \in Callers, RequestRefresh(h) \/ MemberIsChecked(h)
    PROVE  IntelInd'
<1>1. policy \in Policies /\ policy' = policy /\ changes' = changes /\ caller[h] = None
    BY DEF IntelInd, IntelTypeOK, RequestRefresh, MemberIsChecked
<1>2. changes \in 0..MaxChanges
    BY DEF IntelInd, IntelTypeOK
<1>3. CASE RequestRefresh(h)
    BY <1>1, <1>2, <1>3, CallTyped, RefreshSound DEF RequestRefresh
<1>4. CASE MemberIsChecked(h) /\ (~policy.enabled \/ age = "fresh")
  <2> DEFINE s == [Call("join") EXCEPT !.at = "judge"]
  <2>1. /\ caller' = [caller EXCEPT ![h] = s]
        /\ UNCHANGED <<policy, changes, applied, feeds, active, sources, age, flight>>
    BY <1>4 DEF MemberIsChecked
  <2>2. s \in CallerState /\ s.at = "judge"
    BY CallTyped DEF CallerState
  <2> HIDE DEF s
  <2>3. caller' \in CallerStates /\ caller'[h] = s /\ \A c \in Callers : c # h => caller'[c] = caller[c]
    BY <2>1, <2>2 DEF IntelInd, CallerStates
  <2>4. flight # None => flight.owner # h
    BY <1>1 DEF IntelInd
  <2>5. EveryWaitIsAnswered' /\ (flight # None => caller[flight.owner] # None)'
    BY <2>1, <2>2, <2>3, <2>4 DEF EveryWaitIsAnswered, IntelInd, Flight
  <2> QED
    BY <2>1, <2>3, <2>5 DEF IntelInd, IntelTypeOK, CallerStates, Allows
<1>5. CASE MemberIsChecked(h) /\ ~(~policy.enabled \/ age = "fresh")
    BY <1>1, <1>2, <1>5, CallTyped, RefreshSound DEF MemberIsChecked
<1> QED
    BY <1>3, <1>4, <1>5

(***************************************************************************)
(* One call moves on, and nothing else changes.                            *)
(***************************************************************************)
LEMMA CallerStepSound ==
    ASSUME IntelInd, NEW h \in Callers, NEW s \in CallerState \cup {None},
           caller[h] # None, caller[h].at # "owner",
           s # None => s.at \in {"judge", "removing"},
           caller' = [caller EXCEPT ![h] = s],
           UNCHANGED <<policy, changes, applied, feeds, active, sources, age, flight>>
    PROVE  IntelInd'
<1>1. caller' \in CallerStates /\ caller'[h] = s /\ \A c \in Callers : c # h => caller'[c] = caller[c]
    BY DEF IntelInd, CallerStates
<1>2. flight # None => flight.owner # h
    BY DEF IntelInd, EveryWaitIsAnswered
<1>3. EveryWaitIsAnswered' /\ (flight # None => caller[flight.owner] # None)'
    BY <1>1, <1>2 DEF EveryWaitIsAnswered, IntelInd, Flight
<1> QED
    BY <1>1, <1>3 DEF IntelInd, IntelTypeOK, CallerStates, Allows

LEMMA WaiterSound ==
    ASSUME IntelInd, NEW h \in Callers, WaiterResumes(h)
    PROVE  IntelInd'
<1>1. caller[h] \in CallerState /\ caller[h] # None /\ caller[h].at = "woken"
    BY DEF WaiterResumes, IntelInd
<1>2. policy \in Policies /\ changes \in 0..MaxChanges /\ UNCHANGED <<policy, changes>>
    BY DEF WaiterResumes, IntelInd, IntelTypeOK
<1>3. CASE caller[h].joined = caller[h].asked /\ ~Superseded(caller[h].asked)
  <2>1. caller' = [caller EXCEPT ![h] = AfterRefresh(caller[h])]
        /\ UNCHANGED <<applied, feeds, active, sources, age, flight>>
    BY <1>3 DEF WaiterResumes
  <2> DEFINE s == AfterRefresh(caller[h])
  <2>2. s \in CallerState \cup {None} /\ (s # None => s.at = "judge")
    BY <1>1, AfterRefreshTyped
  <2> HIDE DEF s
  <2>3. caller' = [caller EXCEPT ![h] = s]
    BY <2>1 DEF s
  <2> QED
    BY <1>1, <1>2, <2>1, <2>2, <2>3, CallerStepSound
<1>4. CASE ~(caller[h].joined = caller[h].asked /\ ~Superseded(caller[h].asked))
    BY <1>1, <1>2, <1>4, RefreshSound DEF WaiterResumes
<1> QED
    BY <1>3, <1>4

(* The rule a removal is for is in use and flags the member. *)
LEMMA JudgeSound ==
    ASSUME IntelInd, NEW h \in Callers, Judge(h)
    PROVE  /\ IntelInd'
           /\ caller'[h] # None => caller'[h].by \in active
<1>1. caller[h] \in CallerState /\ caller[h] # None /\ caller[h].at = "judge"
    BY DEF Judge, IntelInd
<1>2. UNCHANGED <<policy, changes, applied, feeds, active, sources, age, flight>>
    BY DEF Judge
<1>3. CASE EnforcementActive /\ Matches # {}
  <2> DEFINE x == CHOOSE y \in Matches : TRUE
             s == [caller[h] EXCEPT !.at = "removing", !.by = x]
  <2>1. x \in Matches
    BY <1>3
  <2>2. x \in active
    BY <2>1 DEF Matches
  <2>3. x \in Pair
    BY <2>2 DEF IntelInd, IntelTypeOK
  <2> HIDE DEF x
  <2>4. s \in CallerState /\ s.at = "removing" /\ s.by = x
    BY <1>1, <2>3 DEF CallerState
  <2>5. caller' = [caller EXCEPT ![h] = s]
    BY <1>3 DEF Judge, x
  <2> HIDE DEF s
  <2>6. caller'[h] = s
    BY <2>5 DEF IntelInd
  <2> QED
    BY <1>1, <1>2, <2>2, <2>4, <2>5, <2>6, CallerStepSound
<1>4. CASE ~(EnforcementActive /\ Matches # {})
  <2>1. caller' = [caller EXCEPT ![h] = None] /\ caller'[h] = None
    BY <1>4 DEF Judge, IntelInd
  <2> QED
    BY <1>1, <1>2, <2>1, CallerStepSound
<1> QED
    BY <1>3, <1>4

LEMMA RemovalReturnsSound ==
    ASSUME IntelInd, NEW h \in Callers, RemovalReturns(h)
    PROVE  IntelInd'
BY CallerStepSound DEF RemovalReturns

(***************************************************************************)
(* The refresh itself.                                                     *)
(***************************************************************************)
LEMMA DownloadSound ==
    ASSUME IntelInd, NEW u \in Urls, Downloaded(u) \/ DownloadFails(u)
    PROVE  IntelInd'
<1>1. flight \in Flight /\ flight # None /\ flight.left \subseteq flight.policy.urls
    BY DEF Downloaded, DownloadFails, IntelInd, IntelTypeOK
<1>2. feeds' \in Cached
    BY DEF Downloaded, DownloadFails, IntelInd, IntelTypeOK, Cached
<1>3. UNCHANGED <<policy, applied, changes, active, sources, age, caller>>
    BY DEF Downloaded, DownloadFails
<1>4. /\ flight' \in Flight /\ flight'.owner = flight.owner /\ flight'.policy = flight.policy
      /\ flight'.left \subseteq flight.left
  <2> DEFINE left == flight.left \ {u}
             ok == flight.ok \cup {u}
  <2>1. left \in SUBSET Urls /\ ok \in SUBSET Urls /\ left \subseteq flight.left
    BY <1>1 DEF Flight
  <2>2. \/ flight' = [flight EXCEPT !.left = left, !.ok = ok]
        \/ flight' = [flight EXCEPT !.left = left]
    BY DEF Downloaded, DownloadFails
  <2> HIDE DEF left, ok
  <2> QED
    BY <1>1, <2>1, <2>2 DEF Flight
<1>5. flight' # None
    BY <1>4, IntelNoneAssumption
<1>6. EveryWaitIsAnswered' /\ (flight # None => caller[flight.owner] # None)'
    BY <1>1, <1>3, <1>4, <1>5 DEF EveryWaitIsAnswered, IntelInd
<1> QED
    BY <1>1, <1>2, <1>3, <1>4, <1>6 DEF IntelInd, IntelTypeOK, Cached, Flight, Allows

LEMMA RefreshEndsSound ==
    ASSUME IntelInd, NEW h \in Callers, RefreshEnds(h)
    PROVE  IntelInd'
<1> DEFINE kept == Retained(policy, feeds)
           again == Superseded(flight.policy) /\ Wanted(policy)
           f == [policy |-> policy, left |-> policy.urls, ok |-> {}, owner |-> h]
           s == IF again THEN [caller[h] EXCEPT !.asked = policy, !.joined = policy]
                ELSE AfterRefresh(caller[h])
<1>1. feeds \in Cached /\ sources \in SourceStates /\ caller \in CallerStates /\ policy \in Policies
    BY DEF IntelInd, IntelTypeOK, Cached, SourceStates, CallerStates
<1>2. flight # None /\ flight.owner = h /\ caller[h] # None /\ caller[h].at = "owner"
    BY DEF RefreshEnds, IntelInd, EveryWaitIsAnswered
<1>3. caller[h] \in CallerState
    BY <1>1, <1>2 DEF CallerStates
<1>4. /\ feeds' = kept /\ active' = ActivateConfiguredFeeds(policy, kept)
      /\ applied' = policy /\ UNCHANGED <<policy, changes>>
    BY DEF RefreshEnds, Latest
<1>5. feeds' \in Cached /\ active' \subseteq Pair /\ \A x \in active' : Allows(policy, x)
    BY <1>1, <1>4, RetainedAllowed
<1>6. sources' \in SourceStates /\ age' \in {"never", "fresh", "old"}
    BY <1>1, SourcesTyped DEF RefreshEnds
<1>7. flight' = IF again THEN f ELSE None
    BY DEF RefreshEnds
<1>8. caller' = [Woken(h) EXCEPT ![h] = IF again THEN [@ EXCEPT !.asked = policy, !.joined = policy]
                                         ELSE AfterRefresh(@)]
    BY DEF RefreshEnds
<1>9. Woken(h)[h] = caller[h] /\ DOMAIN Woken(h) = Callers
    BY DEF Woken
<1>10. \A c \in Callers : caller'[c] = IF c = h THEN s ELSE Woken(h)[c]
    BY <1>8, <1>9
<1>11. /\ s \in CallerState \cup {None}
       /\ again => s \in CallerState /\ s.at = "owner"
       /\ ~again /\ s # None => s.at = "judge"
  <2>1. CASE again
    BY <1>1, <1>2, <1>3, <2>1 DEF CallerState
  <2>2. CASE ~again
    BY <1>3, <2>2, AfterRefreshTyped
  <2> QED
    BY <2>1, <2>2
<1>12. f \in Flight /\ f # None /\ f.owner = h /\ f.policy = policy /\ f.left = policy.urls
  <2>1. policy.urls \subseteq Urls
    BY <1>1, IntelAssumption DEF Policy
  <2> QED
    BY <1>1, <2>1, IntelNoneAssumption DEF Flight
<1> HIDE DEF s, f, again, kept
<1>13. ASSUME NEW c \in Callers
       PROVE  /\ Woken(h)[c] \in CallerState \cup {None}
              /\ Woken(h)[c] # None => caller[c] # None
              /\ c # h /\ Woken(h)[c] # None => Woken(h)[c].at \notin {"waiting", "owner"}
  <2>1. CASE c # h /\ caller[c] # None /\ caller[c].at = "waiting"
    <3>1. caller[c] \in CallerState /\ Woken(h)[c] = [caller[c] EXCEPT !.at = "woken"]
      BY <1>1, <2>1 DEF Woken, CallerStates
    <3> QED
      BY <2>1, <3>1 DEF CallerState
  <2>2. CASE ~(c # h /\ caller[c] # None /\ caller[c].at = "waiting")
    <3>1. Woken(h)[c] = caller[c]
      BY <2>2 DEF Woken
    <3>2. c # h /\ caller[c] # None => caller[c].at # "owner"
      BY <1>2 DEF IntelInd, EveryWaitIsAnswered
    <3> QED
      BY <1>1, <2>2, <3>1, <3>2 DEF CallerStates
  <2> QED
    BY <2>1, <2>2
<1>14. caller' \in CallerStates
  <2>1. DOMAIN caller' = Callers /\ caller' = [c \in Callers |-> caller'[c]]
    BY <1>8, <1>9 DEF Woken
  <2> QED
    BY <1>10, <1>11, <1>13, <2>1 DEF CallerStates
<1>15. EveryWaitIsAnswered'
    BY <1>7, <1>10, <1>11, <1>12, <1>13 DEF EveryWaitIsAnswered
<1>16. (flight # None => caller[flight.owner] # None)'
    BY <1>7, <1>10, <1>11, <1>12, IntelNoneAssumption
<1>17. IntelTypeOK'
    BY <1>1, <1>4, <1>5, <1>6, <1>7, <1>12 DEF IntelInd, IntelTypeOK, Cached, SourceStates
<1> QED
    BY <1>4, <1>5, <1>7, <1>12, <1>14, <1>15, <1>16, <1>17 DEF IntelInd, CallerStates, Allows

(***************************************************************************)
(* The policy and the time.                                                *)
(***************************************************************************)
LEMMA PolicyChangesSound ==
    ASSUME IntelInd, NEW h \in Callers, PolicyChanges(h)
    PROVE  IntelInd'
<1>1. changes' \in 0..MaxChanges
    BY IntelAssumption DEF PolicyChanges, IntelInd, IntelTypeOK
<1>2. PICK p \in Policies : policy' = p /\ Refresh(h, Call("refresh"), p)
    BY DEF PolicyChanges
<1> QED
    BY <1>1, <1>2, CallTyped, RefreshSound DEF PolicyChanges

LEMMA IntelQuietSound ==
    ASSUME IntelInd, PolicyChangesUnsaved \/ IntervalPasses \/ UNCHANGED intelVars
    PROVE  IntelInd'
<1>1. /\ policy' \in Policies /\ changes' \in 0..MaxChanges /\ age' \in {"never", "fresh", "old"}
      /\ UNCHANGED <<applied, feeds, active, sources, flight, caller>>
    BY IntelAssumption
    DEF PolicyChangesUnsaved, IntervalPasses, intelVars, IntelInd, IntelTypeOK
<1> QED
    BY <1>1 DEF IntelInd, IntelTypeOK, EveryWaitIsAnswered, Allows

LEMMA IntelInitSound == IntelInit => IntelInd
<1> SUFFICES ASSUME IntelInit
             PROVE  IntelInd
    OBVIOUS
<1>1. PICK h \in Callers :
          /\ flight = IF Wanted(policy) THEN [policy |-> policy, left |-> policy.urls, ok |-> {}, owner |-> h]
                      ELSE None
          /\ caller = [c \in Callers |-> IF c = h /\ Wanted(policy)
                                        THEN [Call("refresh") EXCEPT !.at = "owner"] ELSE None]
    BY DEF IntelInit
<1> DEFINE f == [policy |-> policy, left |-> policy.urls, ok |-> {}, owner |-> h]
           s == [Call("refresh") EXCEPT !.at = "owner"]
<1>2. policy \in Policies /\ policy.urls \subseteq Urls /\ active = {} /\ applied = policy /\ changes = 0
    BY IntelAssumption DEF IntelInit, Policy
<1>3. f \in Flight /\ f.owner = h /\ f # None /\ f.left = policy.urls /\ f.policy = policy
    BY <1>2, IntelNoneAssumption DEF Flight
<1>4. s \in CallerState /\ s.at = "owner" /\ s # None
    BY <1>2, IntelNoneAssumption DEF Call, CallerState
<1>5. sources \in SourceStates /\ feeds \in Cached
    BY DEF IntelInit, Unlisted, SourceStates, Cached
<1> HIDE DEF f, s
<1>6. /\ flight = IF Wanted(policy) THEN f ELSE None
      /\ caller = [c \in Callers |-> IF c = h /\ Wanted(policy) THEN s ELSE None]
    BY <1>1 DEF f, s
<1>7. IntelTypeOK
  <2>1. flight # None => flight.policy \in Policies /\ flight.left \subseteq flight.policy.urls
    BY <1>2, <1>3, <1>6
  <2>2. age \in {"never", "fresh", "old"} /\ changes \in 0..MaxChanges
    BY <1>2, IntelAssumption DEF IntelInit
  <2> QED
    BY <1>2, <1>5, <2>1, <2>2 DEF IntelTypeOK, SourceStates, Cached
<1>8. caller \in [Callers -> CallerState \cup {None}] /\ flight \in Flight \cup {None}
    BY <1>3, <1>4, <1>6
<1>9. EveryWaitIsAnswered /\ (flight # None => caller[flight.owner] # None)
    BY <1>3, <1>4, <1>6 DEF EveryWaitIsAnswered
<1> QED
    BY <1>2, <1>7, <1>8, <1>9 DEF IntelInd

LEMMA IntelStepSound ==
    ASSUME IntelInd, [IntelNext]_intelVars
    PROVE  IntelInd'
<1>1. ASSUME NEW h \in Callers,
             \/ RequestRefresh(h) \/ RefreshEnds(h) \/ WaiterResumes(h)
             \/ MemberIsChecked(h) \/ Judge(h) \/ RemovalReturns(h) \/ PolicyChanges(h)
      PROVE  IntelInd'
    BY <1>1, AskingSound, RefreshEndsSound, WaiterSound, JudgeSound, RemovalReturnsSound,
       PolicyChangesSound
<1> QED
    BY <1>1, DownloadSound, IntelQuietSound DEF IntelNext

(* The strengthening holds in every reachable state. *)
LEMMA IntelInductive == IntelSpec => []IntelInd
<1> QED
    BY IntelInitSound, IntelStepSound, PTL DEF IntelSpec

(* The types of the feeds' state, with what a refresh still has to fetch   *)
(* always among the sources of the policy it works for.                    *)
THEOREM IntelTypeCorrect == IntelSpec => []IntelTypeOK
<1>1. IntelInd => IntelTypeOK
    BY DEF IntelInd
<1> QED
    BY <1>1, IntelInductive, PTL

(* Every call that waits for a refresh waits for one that is under way and *)
(* that exactly one call will end.                                         *)
THEOREM WaitsAreAnswered == IntelSpec => []EveryWaitIsAnswered
<1>1. IntelInd => EveryWaitIsAnswered
    BY DEF IntelInd
<1> QED
    BY <1>1, IntelInductive, PTL

(***************************************************************************)
(* Only a verdict begins a removal.                                        *)
(***************************************************************************)
LEMMA RefreshRemovesNobody ==
    ASSUME IntelInd, NEW k \in Callers, NEW r \in CallerState, NEW p \in Policies, Refresh(k, r, p),
           NEW h \in Callers, caller'[h] # None, caller'[h].at = "removing"
    PROVE  caller'[h] = caller[h]
<1>1. PICK s : /\ caller' = [caller EXCEPT ![k] = s]
               /\ s # None => s.at \in {"judge", "waiting", "owner"}
  <2>1. CASE ~Wanted(p)
    BY <2>1, AfterRefreshTyped DEF Refresh
  <2>2. CASE Wanted(p) /\ flight # None
    <3> DEFINE s == [r EXCEPT !.at = "waiting", !.asked = p, !.joined = flight.policy]
    <3>1. caller' = [caller EXCEPT ![k] = s] /\ s.at = "waiting"
      BY <2>2 DEF Refresh, CallerState
    <3> QED
      BY <3>1
  <2>3. CASE Wanted(p) /\ flight = None
    <3> DEFINE s == [r EXCEPT !.at = "owner", !.asked = p, !.joined = p]
    <3>1. caller' = [caller EXCEPT ![k] = s] /\ s.at = "owner"
      BY <2>3 DEF Refresh, CallerState
    <3> QED
      BY <3>1
  <2> QED
    BY <2>1, <2>2, <2>3
<1> QED
  BY <1>1 DEF IntelInd

LEMMA RefreshEndRemovesNobody ==
    ASSUME IntelInd, NEW k \in Callers, RefreshEnds(k),
           NEW h \in Callers, caller'[h] # None, caller'[h].at = "removing"
    PROVE  caller'[h] = caller[h]
<1>1. caller[k] \in CallerState /\ caller[k].at = "owner"
    BY DEF RefreshEnds, IntelInd, EveryWaitIsAnswered
<1> DEFINE again == Superseded(flight.policy) /\ Wanted(policy)
           s == IF again THEN [caller[k] EXCEPT !.asked = policy, !.joined = policy]
                ELSE AfterRefresh(caller[k])
<1>2. caller' = [Woken(k) EXCEPT ![k] = IF again THEN [@ EXCEPT !.asked = policy, !.joined = policy]
                                         ELSE AfterRefresh(@)]
    BY DEF RefreshEnds
<1>3. Woken(k)[k] = caller[k] /\ DOMAIN Woken(k) = Callers
    BY DEF Woken
<1>4. \A c \in Callers : caller'[c] = IF c = k THEN s ELSE Woken(k)[c]
    BY <1>2, <1>3
<1>5. s # None => s.at \in {"judge", "owner"}
    BY <1>1, AfterRefreshTyped DEF CallerState
<1> HIDE DEF s
<1>6. h # k /\ caller'[h] = Woken(k)[h]
    BY <1>4, <1>5
<1>7. CASE caller[h] # None /\ caller[h].at = "waiting"
  <2>1. caller'[h] = [caller[h] EXCEPT !.at = "woken"] /\ caller[h] \in CallerState
    BY <1>6, <1>7 DEF Woken, IntelInd
  <2> QED
    BY <2>1 DEF CallerState
<1>8. CASE ~(caller[h] # None /\ caller[h].at = "waiting")
    BY <1>6, <1>8 DEF Woken
<1> QED
    BY <1>7, <1>8

LEMMA OnlyVerdictsRemove ==
    ASSUME IntelInd, IntelNext,
           NEW h \in Callers, caller'[h] # None, caller'[h].at = "removing", caller'[h] # caller[h]
    PROVE  Judge(h)
<1>1. caller \in [Callers -> CallerState \cup {None}]
    BY DEF IntelInd
<1>2. PICK k \in Callers :
          \/ RequestRefresh(k) \/ RefreshEnds(k) \/ WaiterResumes(k)
          \/ MemberIsChecked(k) \/ Judge(k) \/ RemovalReturns(k) \/ PolicyChanges(k)
    BY DEF IntelNext, PolicyChangesUnsaved, IntervalPasses, Downloaded, DownloadFails
<1>3. CASE RequestRefresh(k) \/ PolicyChanges(k)
  <2>1. PICK p \in Policies : Refresh(k, Call("refresh"), p)
    BY <1>3 DEF RequestRefresh, PolicyChanges, IntelInd, IntelTypeOK
  <2> QED
    BY <2>1, CallTyped, RefreshRemovesNobody
<1>4. CASE RefreshEnds(k)
    BY <1>4, RefreshEndRemovesNobody
<1>5. CASE WaiterResumes(k)
  <2>1. caller[k] \in CallerState /\ policy \in Policies
    BY <1>1, <1>5 DEF WaiterResumes, IntelInd, IntelTypeOK
  <2>2. CASE Refresh(k, caller[k], policy)
    BY <2>1, <2>2, RefreshRemovesNobody
  <2>3. CASE ~Refresh(k, caller[k], policy)
    <3>1. caller' = [caller EXCEPT ![k] = AfterRefresh(caller[k])]
      BY <1>5, <2>3 DEF WaiterResumes
    <3> QED
      BY <1>1, <2>1, <3>1, AfterRefreshTyped
  <2> QED
    BY <2>2, <2>3
<1>6. CASE MemberIsChecked(k)
  <2>1. CASE Refresh(k, Call("join"), policy)
    BY <2>1, CallTyped, RefreshRemovesNobody DEF IntelInd, IntelTypeOK
  <2>2. CASE ~Refresh(k, Call("join"), policy)
    <3> DEFINE s == [Call("join") EXCEPT !.at = "judge"]
    <3>1. caller' = [caller EXCEPT ![k] = s]
      BY <1>6, <2>2 DEF MemberIsChecked
    <3>2. s.at = "judge"
      BY CallTyped DEF CallerState
    <3> QED
      BY <1>1, <3>1, <3>2
  <2> QED
    BY <2>1, <2>2
<1>7. CASE Judge(k)
  <2>1. k = h
    BY <1>1, <1>7 DEF Judge
  <2> QED
    BY <1>7, <2>1
<1>8. CASE RemovalReturns(k)
    BY <1>1, <1>8 DEF RemovalReturns
<1> QED
    BY <1>2, <1>3, <1>4, <1>5, <1>6, <1>7, <1>8

(* A member is removed only for a rule of a configured source whose exact  *)
(* bytes are pinned, whatever download was in flight when the source was   *)
(* revoked or its pin changed.                                             *)
THEOREM RevokedFeedsRemoveNobody == IntelSpec => RevokedNeverEnforced
<1> DEFINE A == \A h \in Callers :
                    (caller'[h] # None /\ caller'[h].at = "removing" /\ caller'[h] # caller[h]) =>
                       Allows(policy, caller'[h].by) \/ Allows(applied, caller'[h].by)
<1>1. IntelInd /\ [IntelNext]_intelVars => [A]_intelVars
  <2> SUFFICES ASSUME IntelInd, IntelNext, NEW h \in Callers,
                      caller'[h] # None, caller'[h].at = "removing", caller'[h] # caller[h]
               PROVE  Allows(applied, caller'[h].by)
    OBVIOUS
  <2>1. Judge(h)
    BY OnlyVerdictsRemove
  <2>2. caller'[h].by \in active
    BY <2>1, JudgeSound
  <2> QED
    BY <2>2 DEF IntelInd
<1> QED
    BY <1>1, IntelInductive, PTL DEF IntelSpec, RevokedNeverEnforced

-----------------------------------------------------------------------------
(***************************************************************************)
(* Penalties.  What operations do to the queue of the punishment lock.     *)
(***************************************************************************)
Works == [PunishTasks -> PunishTask]

LEMMA QueueTyped ==
    ASSUME work \in Works, NEW t \in PunishTasks, NEW op \in Ops, NEW i \in Nat, Queue(t, op, i)
    PROVE  /\ work' \in Works /\ work'[t].call = "none"
           /\ \A u \in PunishTasks : u # t => work'[u] = work[u]
<1> DEFINE w == [AtRest EXCEPT !.pc = "lock", !.op = op, !.id = i]
<1>1. w \in PunishTask /\ w.call = "none"
    BY DEF AtRest, PunishTask, Ops, Calls
<1>2. work' = [work EXCEPT ![t] = w]
    BY DEF Queue
<1> HIDE DEF w
<1> QED
    BY <1>1, <1>2 DEF Works

LEMMA EndWorkTyped ==
    ASSUME work \in Works, NEW t \in PunishTasks, EndWork(t)
    PROVE  /\ work' \in Works /\ work'[t].call = "none"
           /\ \A u \in PunishTasks : u # t => work'[u] = work[u]
<1>1. AtRest \in PunishTask /\ AtRest.call = "none"
    BY DEF AtRest, PunishTask, Ops, Calls
<1> QED
    BY <1>1 DEF Works, EndWork

LEMMA AwaitsTyped ==
    ASSUME work \in Works, NEW t \in PunishTasks, NEW c \in Calls, Awaits(t, c)
    PROVE  /\ work' \in Works /\ work'[t].call = c
           /\ \A u \in PunishTasks : u # t => work'[u] = work[u]
<1> DEFINE w == [work[t] EXCEPT !.pc = "call", !.call = c]
<1>1. w \in PunishTask /\ w.call = c
    BY DEF PunishTask, Works
<1>2. work' = [work EXCEPT ![t] = w]
    BY DEF Awaits
<1> HIDE DEF w
<1> QED
    BY <1>1, <1>2 DEF Works

(***************************************************************************)
(* What they do to the table: revoking removes active kicks, and recording *)
(* keeps every row where it was.                                           *)
(***************************************************************************)
LEMMA RevokedTable ==
    ASSUME punishments \in Seq(PunishmentRow), NEW S
    PROVE  /\ Revoked(S) \in Seq(PunishmentRow)
           /\ DOMAIN Revoked(S) = DOMAIN punishments
           /\ IsFiniteSet(ActiveKicks(punishments))
           /\ ActiveKicks(Revoked(S)) \subseteq ActiveKicks(punishments)
<1>1. DOMAIN punishments = 1..Len(punishments) /\ Len(punishments) \in Nat
    OBVIOUS
<1>2. DOMAIN Revoked(S) = DOMAIN punishments
    BY DEF Revoked
<1>3. ASSUME NEW i \in DOMAIN punishments
      PROVE  /\ punishments[i] \in PunishmentRow /\ Revoked(S)[i] \in PunishmentRow
             /\ Revoked(S)[i].type = punishments[i].type
             /\ ~Revoked(S)[i].revoked => ~punishments[i].revoked
  <2>1. punishments[i] \in PunishmentRow
    BY <1>1
  <2>2. Revoked(S)[i] = IF i \in S THEN [punishments[i] EXCEPT !.revoked = TRUE] ELSE punishments[i]
    BY DEF Revoked
  <2> QED
    BY <2>1, <2>2 DEF PunishmentRow
<1>4. Revoked(S) \in Seq(PunishmentRow)
  <2>1. Revoked(S) \in [1..Len(punishments) -> PunishmentRow]
    <3>1. Revoked(S) = [i \in 1..Len(punishments) |-> Revoked(S)[i]]
      BY <1>1 DEF Revoked
    <3> QED
      BY <1>1, <1>3, <3>1
  <2> QED
    BY <1>1, <2>1
<1>5. IsFiniteSet(ActiveKicks(punishments))
  <2>1. IsFiniteSet(1..Len(punishments))
    BY <1>1, FS_Interval
  <2>2. ActiveKicks(punishments) \in SUBSET (1..Len(punishments))
    BY <1>1 DEF ActiveKicks
  <2> QED
    BY <2>1, <2>2, FS_Subset
<1>6. ActiveKicks(Revoked(S)) \subseteq ActiveKicks(punishments)
    BY <1>2, <1>3 DEF ActiveKicks
<1> QED
    BY <1>2, <1>4, <1>5, <1>6

LEMMA FewerKicks ==
    ASSUME punishments \in Seq(PunishmentRow), NEW S, TooManyKicks(Revoked(S))
    PROVE  TooManyKicks(punishments)
<1>1. Cardinality(ActiveKicks(Revoked(S))) <= Cardinality(ActiveKicks(punishments))
    BY RevokedTable, FS_Subset
<1>2. Cardinality(ActiveKicks(Revoked(S))) \in Nat /\ Cardinality(ActiveKicks(punishments)) \in Nat
    BY RevokedTable, FS_Subset, FS_CardinalityType
<1> QED
    BY <1>1, <1>2, PunishmentAssumption DEF TooManyKicks

LEMMA NoKicksLeft ==
    ASSUME punishments \in Seq(PunishmentRow)
    PROVE  ~TooManyKicks(Revoked(ActiveKicks(punishments)))
<1>1. ActiveKicks(Revoked(ActiveKicks(punishments))) = {}
    BY DEF ActiveKicks, Revoked
<1> QED
    BY <1>1, FS_EmptySet, PunishmentAssumption DEF TooManyKicks

LEMMA RecordedTable ==
    ASSUME punishments \in Seq(PunishmentRow), time \in Nat, NEW type \in {"mute", "kick"}
    PROVE  /\ With(type) \in Seq(PunishmentRow)
           /\ DOMAIN punishments \subseteq DOMAIN With(type)
<1> DEFINE row == [type |-> type, revoked |-> FALSE,
                   expires |-> IF type = "mute" THEN time + MuteTtl ELSE 0]
<1>1. row \in PunishmentRow
    BY PunishmentAssumption DEF PunishmentRow
<1>2. With(type) = Append(punishments, row)
    BY DEF With
<1> HIDE DEF row
<1> QED
    BY <1>1, <1>2

(***************************************************************************)
(* A step that records no kick keeps the threshold noticed unless it takes *)
(* the member off the blacklist.                                           *)
(***************************************************************************)
StaysNoticed == black \/ excused => black' \/ excused'

LEMMA TypedStepSound ==
    ASSUME PenaltyInd, time' \in Nat, qqMute' \in Nat, black' \in BOOLEAN,
           excused' \in BOOLEAN, deaths' \in Nat,
           forgiven' \in [mute : BOOLEAN, kick : BOOLEAN], punishments' \in Seq(PunishmentRow),
           DOMAIN punishments \subseteq DOMAIN punishments', work' \in Works,
           ThresholdBlacklists',
           \A t \in PunishTasks : work'[t] # work[t] /\ work'[t].call = "remute" =>
               work'[t].id \in DOMAIN punishments'
    PROVE  PenaltyInd'
BY DEF PenaltyInd, PenaltyTypeOK, Works

LEMMA SameTable ==
    ASSUME PenaltyInd, punishments' = punishments
    PROVE  /\ StaysNoticed => ThresholdBlacklists'
           /\ punishments' \in Seq(PunishmentRow)
           /\ DOMAIN punishments \subseteq DOMAIN punishments'
BY DEF StaysNoticed, ThresholdBlacklists, PenaltyInd, PenaltyTypeOK

LEMMA RevokingTable ==
    ASSUME PenaltyInd, NEW S, punishments' = Revoked(S)
    PROVE  /\ StaysNoticed => ThresholdBlacklists'
           /\ punishments' \in Seq(PunishmentRow)
           /\ DOMAIN punishments \subseteq DOMAIN punishments'
<1>1. TooManyKicks(punishments') => TooManyKicks(punishments)
    BY FewerKicks DEF PenaltyInd, PenaltyTypeOK
<1> QED
    BY <1>1, RevokedTable DEF StaysNoticed, ThresholdBlacklists, PenaltyInd, PenaltyTypeOK

LEMMA AskingPenaltySound ==
    ASSUME PenaltyInd, NEW t \in PunishTasks,
           \/ \E op \in {"mute", "kick", "ban"} : Punish(t, op)
           \/ \E i \in DOMAIN punishments : Revoke(t, i)
           \/ UnmuteCommand(t) \/ MemberJoins(t)
    PROVE  PenaltyInd'
<1>1. /\ time \in Nat /\ qqMute \in Nat /\ black \in BOOLEAN /\ work \in Works
      /\ excused \in BOOLEAN /\ deaths \in Nat
      /\ forgiven \in [mute : BOOLEAN, kick : BOOLEAN] /\ punishments \in Seq(PunishmentRow)
    BY DEF PenaltyInd, PenaltyTypeOK, Works
<1>2. /\ NoPardon \in [mute : BOOLEAN, kick : BOOLEAN]
      /\ [forgiven EXCEPT !.mute = TRUE] \in [mute : BOOLEAN, kick : BOOLEAN]
    BY <1>1 DEF NoPardon
<1>3. PICK op \in Ops, i \in Nat : Queue(t, op, i)
    BY <1>1 DEF Punish, Revoke, UnmuteCommand, MemberJoins, Ops
<1>4. /\ work' \in Works /\ work'[t].call = "none"
      /\ \A u \in PunishTasks : u # t => work'[u] = work[u]
    BY <1>1, <1>3, QueueTyped
<1>5. /\ time' = time /\ black' = black /\ qqMute' \in {qqMute, 0} /\ UNCHANGED lapses
      /\ forgiven' \in [mute : BOOLEAN, kick : BOOLEAN]
    BY <1>1, <1>2 DEF Punish, Revoke, UnmuteCommand, MemberJoins
<1>6. \/ punishments' = punishments
      \/ punishments' = Revoked(ActiveMutes(punishments))
    BY DEF Punish, Revoke, UnmuteCommand, MemberJoins
<1>7. /\ ThresholdBlacklists' /\ punishments' \in Seq(PunishmentRow)
      /\ DOMAIN punishments \subseteq DOMAIN punishments'
    BY <1>5, <1>6, SameTable, RevokingTable DEF StaysNoticed, lapses
<1> QED
    BY <1>1, <1>4, <1>5, <1>7, TypedStepSound DEF lapses

LEMMA BeginsSound ==
    ASSUME PenaltyInd, NEW t \in PunishTasks, Begin(t) \/ BeginReapply(t) \/ BeginRevoke(t)
    PROVE  PenaltyInd'
<1>1. /\ time \in Nat /\ qqMute \in Nat /\ black \in BOOLEAN /\ work \in Works
      /\ excused \in BOOLEAN /\ deaths \in Nat
      /\ forgiven \in [mute : BOOLEAN, kick : BOOLEAN] /\ punishments \in Seq(PunishmentRow)
    BY DEF PenaltyInd, PenaltyTypeOK, Works
<1>2. UNCHANGED <<time, black, qqMute, forgiven, lapses>>
    BY DEF Begin, BeginReapply, BeginRevoke
<1>3. \/ punishments' = punishments
      \/ punishments' = Revoked({work[t].id})
    BY DEF Begin, BeginReapply, BeginRevoke
<1>4. /\ ThresholdBlacklists' /\ punishments' \in Seq(PunishmentRow)
      /\ DOMAIN punishments \subseteq DOMAIN punishments'
    BY <1>2, <1>3, SameTable, RevokingTable DEF StaysNoticed, lapses
<1>5. CASE EndWork(t) \/ \E c \in {"mute", "kick", "unmute"} : Awaits(t, c)
  <2>1. /\ work' \in Works /\ work'[t].call # "remute"
        /\ \A u \in PunishTasks : u # t => work'[u] = work[u]
    BY <1>1, <1>5, EndWorkTyped, AwaitsTyped DEF Calls
  <2> QED
    BY <1>1, <1>2, <1>4, <2>1, TypedStepSound DEF lapses
<1>6. CASE \E i \in ActiveMutes(punishments) :
              work' = [work EXCEPT ![t].pc = "call", ![t].call = "remute", ![t].id = i]
  <2>1. PICK i \in ActiveMutes(punishments) :
            work' = [work EXCEPT ![t].pc = "call", ![t].call = "remute", ![t].id = i]
    BY <1>6
  <2>2. i \in DOMAIN punishments /\ i \in Nat
    BY <1>1 DEF ActiveMutes
  <2> DEFINE w == [work[t] EXCEPT !.pc = "call", !.call = "remute", !.id = i]
  <2>3. w \in PunishTask /\ w.id = i
    BY <1>1, <2>2 DEF Works, PunishTask, Calls
  <2>4. work' = [work EXCEPT ![t] = w]
    BY <2>1
  <2> HIDE DEF w
  <2>5. work' \in Works /\ work'[t].id = i /\ \A u \in PunishTasks : u # t => work'[u] = work[u]
    BY <1>1, <2>3, <2>4 DEF Works
  <2> QED
    BY <1>1, <1>2, <1>4, <2>2, <2>5, TypedStepSound DEF lapses
<1> QED
    BY <1>5, <1>6 DEF Begin, BeginReapply, BeginRevoke

(***************************************************************************)
(* What the call in flight may have done, whether or not it was answered.  *)
(***************************************************************************)
LEMMA QQActsTyped ==
    ASSUME PenaltyInd, NEW t \in PunishTasks
    PROVE  /\ time + MuteTtl \in Nat
           /\ QQActs(t) => qqMute' \in Nat
           /\ Remuted(t) => qqMute' \in Nat
<1>1. time + MuteTtl \in Nat
    BY PunishmentAssumption DEF PenaltyInd, PenaltyTypeOK
<1>2. work[t].call = "remute" => punishments[work[t].id].expires \in Nat
  <2> SUFFICES ASSUME work[t].call = "remute"
               PROVE  punishments[work[t].id].expires \in Nat
    OBVIOUS
  <2>1. work[t].id \in DOMAIN punishments /\ punishments \in Seq(PunishmentRow)
    BY DEF PenaltyInd, PenaltyTypeOK
  <2>2. punishments[work[t].id] \in PunishmentRow
    BY <2>1
  <2> QED
    BY <2>2 DEF PunishmentRow
<1>3. QQActs(t) => qqMute' \in Nat
    BY <1>1, <1>2 DEF QQActs
<1>4. Remuted(t) => qqMute' \in Nat
    BY <1>2 DEF Remuted, Answered
<1> QED
    BY <1>1, <1>3, <1>4

LEMMA CheckNotices ==
    ASSUME BlacklistChecked(punishments'), black \in BOOLEAN
    PROVE  ThresholdBlacklists' /\ black' \in BOOLEAN /\ excused' \in BOOLEAN
BY DEF BlacklistChecked, ThresholdBlacklists

LEMMA AnswersSound ==
    ASSUME PenaltyInd, NEW t \in PunishTasks,
           \/ Muted(t) \/ Kicked(t) \/ Banned(t) \/ KickedAgain(t) \/ AutoKicked(t)
           \/ Unmuted(t) \/ Remuted(t) \/ PunishCallFails(t)
    PROVE  PenaltyInd'
<1>1. /\ time \in Nat /\ qqMute \in Nat /\ black \in BOOLEAN /\ work \in Works
      /\ excused \in BOOLEAN /\ deaths \in Nat
      /\ forgiven \in [mute : BOOLEAN, kick : BOOLEAN] /\ punishments \in Seq(PunishmentRow)
    BY DEF PenaltyInd, PenaltyTypeOK, Works
<1>2. /\ time' = time /\ forgiven' = forgiven /\ deaths' = deaths
      /\ EndWork(t) \/ Awaits(t, "autoKick")
    BY DEF Muted, Kicked, Banned, KickedAgain, AutoKicked, KickRecorded, Unmuted, Remuted, PunishCallFails, lapses
<1>3. qqMute' \in Nat
  <2>1. QQActs(t) \/ Remuted(t) \/ qqMute' \in {0, qqMute, time + MuteTtl}
    BY DEF Muted, Kicked, Banned, KickedAgain, AutoKicked, KickRecorded, Unmuted, PunishCallFails
  <2>2. time + MuteTtl \in Nat /\ (QQActs(t) => qqMute' \in Nat) /\ (Remuted(t) => qqMute' \in Nat)
    BY QQActsTyped
  <2> QED
    BY <1>1, <2>1, <2>2
<1>4. /\ work' \in Works /\ work'[t].call # "remute"
      /\ \A u \in PunishTasks : u # t => work'[u] = work[u]
    BY <1>1, <1>2, EndWorkTyped, AwaitsTyped DEF Calls
<1>5. /\ punishments' \in Seq(PunishmentRow) /\ DOMAIN punishments \subseteq DOMAIN punishments'
      /\ ThresholdBlacklists' /\ black' \in BOOLEAN /\ excused' \in BOOLEAN
  <2>1. CASE Muted(t)
    BY <1>1, <2>1, RecordedTable, CheckNotices DEF Muted
  <2>2. CASE Kicked(t) \/ KickedAgain(t) \/ AutoKicked(t)
    BY <1>1, <2>2, RecordedTable, CheckNotices DEF Kicked, KickedAgain, AutoKicked, KickRecorded
  <2>3. CASE Banned(t)
    BY <1>1, <2>3, RecordedTable DEF Banned, KickRecorded, ThresholdBlacklists
  <2>4. CASE Unmuted(t) \/ Remuted(t) \/ PunishCallFails(t)
    <3>1. UNCHANGED <<black, excused>> /\ (punishments' = punishments \/ punishments' = Revoked({work[t].id}))
      BY <2>4 DEF Unmuted, Remuted, PunishCallFails, lapses
    <3> QED
      BY <1>1, <3>1, SameTable, RevokingTable DEF StaysNoticed
  <2> QED
    BY <2>1, <2>2, <2>3, <2>4
<1> QED
    BY <1>1, <1>2, <1>3, <1>4, <1>5, TypedStepSound

(***************************************************************************)
(* A death leaves a penalty recorded and not checked, or a pardon begun;   *)
(* where a kick may go unnoticed, the history says so.                     *)
(***************************************************************************)
LEMMA DeathSound ==
    ASSUME PenaltyInd, Dies
    PROVE  PenaltyInd'
<1>1. /\ time \in Nat /\ qqMute \in Nat /\ black \in BOOLEAN /\ work \in Works
      /\ excused \in BOOLEAN /\ deaths \in Nat
      /\ forgiven \in [mute : BOOLEAN, kick : BOOLEAN] /\ punishments \in Seq(PunishmentRow)
    BY DEF PenaltyInd, PenaltyTypeOK, Works
<1>2. AtRest \in PunishTask /\ AtRest.call = "none"
    BY DEF AtRest, PunishTask, Ops, Calls
<1>3. /\ work' \in Works /\ \A t \in PunishTasks : work'[t].call = "none"
      /\ deaths' \in Nat /\ UNCHANGED <<time, forgiven>>
    BY <1>1, <1>2 DEF Dies, Works
<1>4. /\ qqMute' \in Nat /\ black' \in BOOLEAN /\ excused' \in BOOLEAN
      /\ punishments' \in Seq(PunishmentRow) /\ DOMAIN punishments \subseteq DOMAIN punishments'
      /\ ThresholdBlacklists'
  <2>1. CASE /\ UNCHANGED qqMute \/ \E t \in PunishTasks : QQActs(t)
             /\ UNCHANGED <<punishments, black, excused>>
    <3>1. qqMute' \in Nat
      BY <1>1, <2>1, QQActsTyped
    <3>2. ThresholdBlacklists' /\ punishments' \in Seq(PunishmentRow) /\ DOMAIN punishments \subseteq DOMAIN punishments'
      BY <2>1, SameTable DEF StaysNoticed
    <3> QED
      BY <1>1, <2>1, <3>1, <3>2
  <2>2. CASE (\E t \in PunishTasks : RecordedOnly(t)) /\ excused' = TRUE /\ UNCHANGED black
    <3>1. PICK t \in PunishTasks : RecordedOnly(t)
      BY <2>2
    <3>2. qqMute' \in {qqMute, time + MuteTtl} /\ \E type \in {"mute", "kick"} : punishments' = With(type)
      BY <3>1 DEF RecordedOnly
    <3>3. qqMute' \in Nat
      BY <1>1, <3>2, QQActsTyped
    <3>4. punishments' \in Seq(PunishmentRow) /\ DOMAIN punishments \subseteq DOMAIN punishments'
      BY <1>1, <3>2, RecordedTable
    <3> QED
      BY <1>1, <2>2, <3>3, <3>4 DEF ThresholdBlacklists
  <2>3. ASSUME NEW S, punishments' = Revoked(S), UNCHANGED qqMute,
               (UNCHANGED <<black, excused>>) \/ (black' = FALSE /\ excused' = TRUE)
        PROVE  /\ qqMute' \in Nat /\ black' \in BOOLEAN /\ excused' \in BOOLEAN
               /\ punishments' \in Seq(PunishmentRow) /\ DOMAIN punishments \subseteq DOMAIN punishments'
               /\ ThresholdBlacklists'
    BY <1>1, <2>3, RevokingTable DEF StaysNoticed
  <2> QED
    BY <2>1, <2>2, <2>3 DEF Dies
<1> QED
    BY <1>1, <1>3, <1>4, TypedStepSound

LEMMA TablesSound ==
    ASSUME PenaltyInd, TimePasses \/ UnbanCommand \/ EditBlacklist \/ UNCHANGED penaltyVars
    PROVE  PenaltyInd'
<1>1. /\ time \in Nat /\ qqMute \in Nat /\ black \in BOOLEAN /\ work \in Works
      /\ excused \in BOOLEAN /\ deaths \in Nat
      /\ forgiven \in [mute : BOOLEAN, kick : BOOLEAN] /\ punishments \in Seq(PunishmentRow)
    BY DEF PenaltyInd, PenaltyTypeOK, Works
<1>2. /\ NoPardon \in [mute : BOOLEAN, kick : BOOLEAN]
      /\ [forgiven EXCEPT !.kick = TRUE] \in [mute : BOOLEAN, kick : BOOLEAN]
    BY <1>1 DEF NoPardon
<1>3. /\ time' \in Nat /\ qqMute' = qqMute /\ work' = work
      /\ forgiven' \in {forgiven, NoPardon, [forgiven EXCEPT !.kick = TRUE]}
    BY <1>1 DEF TimePasses, UnbanCommand, EditBlacklist, penaltyVars
<1>4. black' \in BOOLEAN /\ excused' \in BOOLEAN /\ deaths' = deaths
    BY <1>1 DEF TimePasses, UnbanCommand, EditBlacklist, penaltyVars, lapses
<1>5. \/ punishments' = punishments
      \/ punishments' = Revoked(ActiveKicks(punishments))
    BY DEF TimePasses, UnbanCommand, EditBlacklist, penaltyVars
<1>6. /\ punishments' \in Seq(PunishmentRow)
      /\ DOMAIN punishments \subseteq DOMAIN punishments'
    BY <1>5, SameTable, RevokingTable
<1>7. ThresholdBlacklists'
  <2>1. CASE TimePasses \/ EditBlacklist \/ UNCHANGED penaltyVars
    BY <1>1, <2>1, SameTable DEF StaysNoticed, TimePasses, EditBlacklist, penaltyVars, lapses
  <2>2. CASE UnbanCommand
    BY <1>1, <2>2, NoKicksLeft DEF UnbanCommand, ThresholdBlacklists
  <2> QED
    BY <2>1, <2>2
<1> QED
    BY <1>1, <1>2, <1>3, <1>4, <1>6, <1>7, TypedStepSound

LEMMA PunishInitSound == PunishInit => PenaltyInd
<1> SUFFICES ASSUME PunishInit
             PROVE  PenaltyInd
    OBVIOUS
<1>1. AtRest \in PunishTask /\ AtRest.call = "none" /\ NoPardon \in [mute : BOOLEAN, kick : BOOLEAN]
    BY DEF AtRest, PunishTask, Ops, Calls, NoPardon
<1>2. punishments \in Seq(PunishmentRow)
    BY DEF PunishInit
<1>3. work \in [PunishTasks -> PunishTask] /\ \A t \in PunishTasks : work[t].call = "none"
    BY <1>1 DEF PunishInit
<1>4. time \in Nat /\ qqMute \in Nat /\ black \in BOOLEAN /\ forgiven = NoPardon /\ excused = FALSE /\ deaths = 0
    BY DEF PunishInit
<1>5. ThresholdBlacklists
  <2>1. ActiveKicks(punishments) = {}
    BY DEF PunishInit, ActiveKicks
  <2> QED
    BY <2>1, FS_EmptySet, PunishmentAssumption DEF ThresholdBlacklists, TooManyKicks
<1> QED
    BY <1>1, <1>2, <1>3, <1>4, <1>5 DEF PenaltyInd, PenaltyTypeOK

LEMMA PunishStepSound ==
    ASSUME PenaltyInd, [PunishNext]_penaltyVars
    PROVE  PenaltyInd'
<1>1. CASE TimePasses \/ UnbanCommand \/ EditBlacklist \/ UNCHANGED penaltyVars
    BY <1>1, TablesSound
<1>5. CASE Dies
    BY <1>5, DeathSound
<1>2. ASSUME NEW t \in PunishTasks,
             \/ \E op \in {"mute", "kick", "ban"} : Punish(t, op)
             \/ \E i \in DOMAIN punishments : Revoke(t, i)
             \/ UnmuteCommand(t) \/ MemberJoins(t)
      PROVE  PenaltyInd'
    BY <1>2, AskingPenaltySound
<1>3. ASSUME NEW t \in PunishTasks, Begin(t) \/ BeginReapply(t) \/ BeginRevoke(t)
      PROVE  PenaltyInd'
    BY <1>3, BeginsSound
<1>4. ASSUME NEW t \in PunishTasks,
             \/ Muted(t) \/ Kicked(t) \/ Banned(t) \/ KickedAgain(t) \/ AutoKicked(t)
             \/ Unmuted(t) \/ Remuted(t) \/ PunishCallFails(t)
      PROVE  PenaltyInd'
    BY <1>4, AnswersSound
<1> QED
    BY <1>1, <1>2, <1>3, <1>4, <1>5 DEF PunishNext

(* The strengthening holds in every reachable state. *)
LEMMA PenaltyInductive == PunishSpec => []PenaltyInd
<1> QED
    BY PunishInitSound, PunishStepSound, PTL DEF PunishSpec

(* The types of the penalty state; the table stays a sequence of complete  *)
(* rows whatever operations and pardons interleave.                        *)
THEOREM PenaltyTypeCorrect == PunishSpec => []PenaltyTypeOK
<1>1. PenaltyInd => PenaltyTypeOK
    BY DEF PenaltyInd
<1> QED
    BY <1>1, PenaltyInductive, PTL

(* Whichever operations recorded the kicks, and however pardons, deaths    *)
(* and failed checks cut them short, a member over the threshold is on the *)
(* blacklist unless an operator or a lapse since the last checked penalty  *)
(* accounts for it.                                                        *)
THEOREM ThresholdAlwaysBlacklists == PunishSpec => []ThresholdBlacklists
<1>1. PenaltyInd => ThresholdBlacklists
    BY DEF PenaltyInd
<1> QED
    BY <1>1, PenaltyInductive, PTL
===============================================================================
