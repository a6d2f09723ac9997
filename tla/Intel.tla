-------------------------------- MODULE Intel --------------------------------
(***************************************************************************)
(* Cloud intelligence feeds: src/modules/intel/index.ts.                   *)
(*                                                                         *)
(* A downloaded document stands for its rules and is named by its SHA-256  *)
(* digest.  A refresh awaits one download and the pattern probes per URL;  *)
(* the policy may change at each of these awaits.  ConfigChanged runs its  *)
(* listener in the step that commits the configuration; when the save of   *)
(* that configuration fails, it is in force without the event.             *)
(***************************************************************************)
EXTENDS Naturals, FiniteSets

CONSTANTS
    Urls, Digests,
    Flagging,     \* digests of documents that flag the member for removal
    Policies,     \* readIntelPolicy() of the configurations in use
    Callers,      \* concurrent calls of refresh and handleMemberJoin
    None,
    MaxChanges    \* bound of the model

Policy == [enabled : BOOLEAN, mode : {"observe", "enforce"}, urls : SUBSET Urls,
           pins : [Urls -> Digests \cup {None}]]

(* What the canonical schema and readIntelPolicy let through. *)
ASSUME IntelAssumption ==
    /\ Policies \subseteq Policy /\ Flagging \subseteq Digests /\ None \notin Digests
    /\ MaxChanges \in Nat
    /\ \A p \in Policies :
          /\ ~p.enabled => p.urls = {}
          /\ \A u \in Urls : p.pins[u] # None => u \in p.urls
          /\ p.mode = "enforce" => \A u \in p.urls : p.pins[u] # None

VARIABLES
    policy,    \* the configuration in force
    applied,   \* history: the one in force at the last reconciliation
    changes,
    feeds,     \* _sourceFeeds and _sourceDigests
    active,    \* the rules in use: _redFlags, _riskKeywords, _rejectPatterns
    sources,   \* _sources: per URL, whether it is listed, ok and verified
    age,       \* of _lastFetchAt: "never", "fresh" or older than the interval
    flight,    \* _inFlight: the policy it works for and the URLs left
    caller,    \* what each call remembers across its await
    fetched    \* history: the policy of the last refresh that was activated

intelVars == <<policy, applied, changes, feeds, active, sources, age, flight, caller, fetched>>

Unlisted == [listed |-> FALSE, ok |-> FALSE, verified |-> FALSE]
Pair == Urls \X Digests

IntelTypeOK ==
    /\ {policy, applied} \subseteq Policies /\ changes \in 0..MaxChanges
    /\ feeds \in [Urls -> Digests \cup {None}] /\ active \subseteq Pair
    /\ sources \in [Urls -> [listed : BOOLEAN, ok : BOOLEAN, verified : BOOLEAN]]
    /\ age \in {"never", "fresh", "old"}
    /\ flight # None => flight.policy \in Policies /\ flight.left \subseteq flight.policy.urls

-----------------------------------------------------------------------------

Keeps(p, u, d) ==
    /\ d # None /\ u \in p.urls
    /\ p.pins[u] = None => p.mode # "enforce"
    /\ p.pins[u] # None => p.pins[u] = d

Retained(p, F) == [u \in Urls |-> IF Keeps(p, u, F[u]) THEN F[u] ELSE None]

ActivateConfiguredFeeds(p, F) == {x \in Pair : x[1] \in p.urls /\ F[x[1]] = x[2]}

Verified(p, u, d) == p.pins[u] # None /\ d = p.pins[u]

ReconciledSources(p, F) ==
    [u \in Urls |->
        IF u \notin p.urls THEN Unlisted
        ELSE [listed |-> TRUE, verified |-> Verified(p, u, F[u]),
              ok |-> sources[u].ok /\ F[u] # None
                     /\ (p.pins[u] = None \/ Verified(p, u, F[u]))]]

(* _reconcileConfiguredSources *)
Reconcile(p) ==
    LET kept == Retained(p, feeds)
    IN  /\ feeds' = kept
        /\ active' = ActivateConfiguredFeeds(p, kept)
        /\ sources' = ReconciledSources(p, kept)

Wanted(p) == p.enabled /\ p.urls # {}

-----------------------------------------------------------------------------
(* refresh() up to its first await, for the call h that remembers r. *)
AfterRefresh(r) == IF r.op = "join" THEN [r EXCEPT !.at = "judge"] ELSE None

Refresh(h, r, p) ==
    /\ Reconcile(p) /\ applied' = p
    /\ CASE ~Wanted(p) ->
              /\ age' = "never" /\ UNCHANGED flight
              /\ caller' = [caller EXCEPT ![h] = AfterRefresh(r)]
         [] Wanted(p) /\ flight # None ->
              /\ caller' = [caller EXCEPT ![h] =
                    [r EXCEPT !.at = "waiting", !.asked = p, !.joined = flight.policy]]
              /\ UNCHANGED <<age, flight>>
         [] OTHER ->
              /\ flight' = [policy |-> p, left |-> p.urls, ok |-> {}, owner |-> h]
              /\ caller' = [caller EXCEPT ![h] = [r EXCEPT !.at = "owner", !.asked = p, !.joined = p]]
              /\ UNCHANGED age

Call(op) == [op |-> op, at |-> "waiting", asked |-> policy, joined |-> policy, by |-> None]

(* The timer, and POST /intel/refresh. *)
RequestRefresh(h) ==
    /\ caller[h] = None
    /\ Refresh(h, Call("refresh"), policy)
    /\ UNCHANGED <<policy, changes, fetched>>

(* One URL: download it, or its mirror, check the pin the refresh started  *)
(* with, probe its patterns and store it.                                  *)
Downloaded(u) ==
    /\ flight # None /\ u \in flight.left
    /\ \E d \in Digests :
          /\ flight.policy.pins[u] \in {None, d}
          /\ feeds' = [feeds EXCEPT ![u] = d]
    /\ flight' = [flight EXCEPT !.left = @ \ {u}, !.ok = @ \cup {u}]
    /\ UNCHANGED <<policy, applied, changes, active, sources, age, caller, fetched>>

(* The transport, the size, the digest or the JSON is wrong: what was      *)
(* cached stays.                                                           *)
DownloadFails(u) ==
    /\ flight # None /\ u \in flight.left
    /\ flight' = [flight EXCEPT !.left = @ \ {u}]
    /\ UNCHANGED <<policy, applied, changes, feeds, active, sources, age, caller, fetched>>

AttemptedSources(p, ok) ==
    [u \in Urls |-> IF u \notin p.urls THEN Unlisted
                    ELSE [listed |-> TRUE, ok |-> u \in ok, verified |-> Verified(p, u, feeds[u])]]

SupersededNever(p) == FALSE
Superseded(p) == policy # p

LatestIsAsked(p) == p
Latest(p) == policy

Woken(except) ==
    [c \in Callers |->
        IF c # except /\ caller[c] # None /\ caller[c].at = "waiting"
        THEN [caller[c] EXCEPT !.at = "woken"] ELSE caller[c]]

(* The end of _doRefresh and of the call that owns it.  Under a newer      *)
(* policy the owner starts again.                                          *)
RefreshEnds(h) ==
    /\ flight # None /\ flight.left = {} /\ flight.owner = h
    /\ LET latest == Latest(flight.policy)
           kept == Retained(latest, feeds)
           again == Superseded(flight.policy) /\ Wanted(policy)
       IN  /\ feeds' = kept
           /\ active' = ActivateConfiguredFeeds(latest, kept)
           /\ IF latest # flight.policy
              THEN sources' = ReconciledSources(latest, kept) /\ age' = "never" /\ UNCHANGED fetched
              ELSE /\ sources' = AttemptedSources(flight.policy, flight.ok)
                   /\ age' = "fresh" /\ fetched' = flight.policy
           /\ flight' = IF again THEN [policy |-> policy, left |-> policy.urls, ok |-> {}, owner |-> h]
                        ELSE None
           /\ caller' = [Woken(h) EXCEPT ![h] =
                            IF again THEN [@ EXCEPT !.asked = policy, !.joined = policy]
                            ELSE AfterRefresh(@)]
    /\ applied' = policy
    /\ UNCHANGED <<policy, changes>>

WaiterResumes(h) ==
    /\ caller[h] # None /\ caller[h].at = "woken"
    /\ IF caller[h].joined = caller[h].asked /\ ~Superseded(caller[h].asked)
       THEN /\ caller' = [caller EXCEPT ![h] = AfterRefresh(@)]
            /\ UNCHANGED <<applied, feeds, active, sources, age, flight>>
       ELSE Refresh(h, caller[h], policy)
    /\ UNCHANGED <<policy, changes, fetched>>

-----------------------------------------------------------------------------
(* handleMemberJoin: ensureFresh, then the rules as they are now. *)
MemberIsChecked(h) ==
    /\ caller[h] = None
    /\ IF ~policy.enabled \/ age = "fresh"
       THEN /\ caller' = [caller EXCEPT ![h] = [Call("join") EXCEPT !.at = "judge"]]
            /\ UNCHANGED <<applied, feeds, active, sources, age, flight>>
       ELSE Refresh(h, Call("join"), policy)
    /\ UNCHANGED <<policy, changes, fetched>>

EnforcementActive == policy.enabled /\ policy.mode = "enforce"
Matches == IF policy.enabled THEN {x \in active : x[2] \in Flagging} ELSE {}

Judge(h) ==
    /\ caller[h] # None /\ caller[h].at = "judge"
    /\ caller' =
          IF EnforcementActive /\ Matches # {}
          THEN [caller EXCEPT ![h] = [@ EXCEPT !.at = "removing", !.by = CHOOSE x \in Matches : TRUE]]
          ELSE [caller EXCEPT ![h] = None]
    /\ UNCHANGED <<policy, applied, changes, feeds, active, sources, age, flight, fetched>>

RemovalReturns(h) ==
    /\ caller[h] # None /\ caller[h].at = "removing"
    /\ caller' = [caller EXCEPT ![h] = None]
    /\ UNCHANGED <<policy, applied, changes, feeds, active, sources, age, flight, fetched>>

-----------------------------------------------------------------------------
(* A committed configuration: _armTimer reconciles and refreshes at once. *)
PolicyChanges(h) ==
    /\ changes < MaxChanges /\ changes' = changes + 1
    /\ caller[h] = None
    /\ \E p \in Policies \ {policy} :
          /\ policy' = p
          /\ Refresh(h, Call("refresh"), p)
    /\ fetched' = None

(* The save of the new configuration failed: no event. *)
PolicyChangesUnsaved ==
    /\ changes < MaxChanges /\ changes' = changes + 1
    /\ policy' \in Policies \ {policy}
    /\ UNCHANGED <<applied, feeds, active, sources, age, flight, caller, fetched>>

IntervalPasses ==
    /\ age = "fresh" /\ age' = "old"
    /\ UNCHANGED <<policy, applied, changes, feeds, active, sources, flight, caller, fetched>>

(* After init(): its first refresh is under way when the policy wants one. *)
IntelInit ==
    /\ policy \in Policies /\ applied = policy /\ changes = 0
    /\ feeds = [u \in Urls |-> None] /\ active = {}
    /\ sources = [u \in Urls |-> IF u \in policy.urls THEN [Unlisted EXCEPT !.listed = TRUE] ELSE Unlisted]
    /\ age = "never" /\ fetched = None
    /\ \E h \in Callers :
          /\ flight = IF Wanted(policy) THEN [policy |-> policy, left |-> policy.urls, ok |-> {}, owner |-> h]
                      ELSE None
          /\ caller = [c \in Callers |-> IF c = h /\ Wanted(policy)
                                        THEN [Call("refresh") EXCEPT !.at = "owner"] ELSE None]

IntelNext ==
    \/ PolicyChangesUnsaved \/ IntervalPasses
    \/ \E u \in Urls : Downloaded(u) \/ DownloadFails(u)
    \/ \E h \in Callers :
          \/ RequestRefresh(h) \/ RefreshEnds(h) \/ WaiterResumes(h)
          \/ MemberIsChecked(h) \/ Judge(h) \/ RemovalReturns(h)
          \/ PolicyChanges(h)

IntelSpec == IntelInit /\ [][IntelNext]_intelVars

(* Downloads have a deadline, probes a hard cap; promises resume. *)
IntelProgress ==
    \/ \E u \in Urls : Downloaded(u) \/ DownloadFails(u)
    \/ \E h \in Callers : RefreshEnds(h) \/ WaiterResumes(h)

-----------------------------------------------------------------------------
Allows(p, x) == x[1] \in p.urls /\ (p.mode = "enforce" => p.pins[x[1]] = x[2])

(* A member is removed only for a rule whose source is configured and      *)
(* whose exact bytes are pinned, at the moment of removal and whatever     *)
(* download was in flight when the source was revoked or its pin changed.  *)
(* A change whose save failed is applied by the next refresh.              *)
(* (docs/security/intel-feeds.md: "revokes its cached rules immediately,   *)
(* including while an older request is still in flight")                   *)
RevokedNeverEnforced ==
    [][\A h \in Callers :
          (caller'[h] # None /\ caller'[h].at = "removing" /\ caller'[h] # caller[h]) =>
             Allows(policy, caller'[h].by) \/ Allows(applied, caller'[h].by)]_intelVars

(* A changed policy is fetched, however many refreshes for older policies  *)
(* were under way or waiting when it changed.                              *)
LatestPolicyIsFetched ==
    (Wanted(policy) /\ policy = applied) ~> (fetched = policy \/ ~Wanted(policy) \/ policy # applied)

(* A call that waits has a refresh to wait for, and a refresh has exactly  *)
(* one call that owns it and will end it: no overlap of callers and policy *)
(* changes leaves a promise that nobody resolves (_inFlight).              *)
EveryWaitIsAnswered ==
    \A h \in Callers : caller[h] # None =>
        /\ caller[h].at = "waiting" => flight # None
        /\ caller[h].at = "owner" <=> flight # None /\ flight.owner = h

-----------------------------------------------------------------------------
(* Strengthening: a rule in use is one that the policy of the last         *)
(* reconciliation allows, whatever was downloaded since.                   *)
Flight == [policy : Policies, left : SUBSET Urls, ok : SUBSET Urls, owner : Callers]

CallerState ==
    [op : {"refresh", "join"}, at : {"waiting", "woken", "owner", "judge", "removing"},
     asked : Policies, joined : Policies, by : Pair \cup {None}]

ASSUME IntelNoneAssumption == None \notin Flight /\ None \notin CallerState

IntelInd ==
    /\ IntelTypeOK
    /\ flight \in Flight \cup {None} /\ caller \in [Callers -> CallerState \cup {None}]
    /\ \A x \in active : Allows(applied, x)
    /\ flight # None => caller[flight.owner] # None
    /\ EveryWaitIsAnswered
=============================================================================
