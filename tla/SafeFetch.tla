------------------------------ MODULE SafeFetch ------------------------------
(***************************************************************************)
(* Guarded outbound HTTP: src/runtime/safe-fetch.ts.                       *)
(*                                                                         *)
(* A URL is cut down to its scheme and host, an address to being public or *)
(* private.  The resolver may answer each question differently, a server   *)
(* may answer with anything, stall, or end early.  A body is a number of   *)
(* chunks.                                                                 *)
(***************************************************************************)
EXTENDS Naturals, FiniteSets

CONSTANTS
    Fetches,
    Hosts,
    Addresses,
    Private,        \* addresses isPrivateNetworkAddress rejects
    Guards,         \* RemoteFetchPolicy of the callers
    None,
    MaxRedirects,   \* policy.maxRedirects
    MaxChunks       \* maxBytes of the caller

Url == [scheme : {"https", "http"}, host : Hosts]

ASSUME SafeFetchAssumption ==
    /\ Private \subseteq Addresses
    /\ Guards \subseteq [allowed : SUBSET Hosts, allowPrivate : BOOLEAN, allowHttp : BOOLEAN]
    /\ MaxRedirects \in Nat /\ MaxChunks \in Nat

VARIABLES
    fetch,      \* each call, from fetchRemote to the end of its body
    deadline,   \* its timer: "off", "armed" or "fired"
    artifact,   \* destination files: None, or the chunks they hold
    connected   \* history: the last connection made, with what it carried

fetchVars == <<fetch, deadline, artifact, connected>>

Stage == {"validating", "connecting", "answered", "reading", "returned", "thrown"}

Request == [at : Stage, guard : Guards, url : Url, origin : Url, secret : BOOLEAN,
            redirects : 0..MaxRedirects, size : 0..MaxChunks, read : 0..MaxChunks]
Connection == [address : Addresses, url : Url, origin : Url, secret : BOOLEAN, guard : Guards]

FetchTypeOK ==
    /\ fetch \in [Fetches -> Request \cup {None}]
    /\ deadline \in [Fetches -> {"off", "armed", "fired"}]
    /\ artifact \in [Fetches -> 0..MaxChunks \cup {None}]
    /\ connected \in Connection \cup {None}

-----------------------------------------------------------------------------
IsPrivateNetworkAddress(a) == a \in Private

ResolvedAddressesAllowed(guard, answers) ==
    answers # {} /\ (guard.allowPrivate \/ \A a \in answers : ~IsPrivateNetworkAddress(a))

UrlAllowed(guard, url) ==
    /\ url.scheme = "https" \/ guard.allowHttp
    /\ url.host \in guard.allowed

At(f, stage) == fetch[f] # None /\ fetch[f].at = stage
Moved(r, stage) == [r EXCEPT !.at = stage]
Go(f, stage) == fetch' = [fetch EXCEPT ![f] = Moved(@, stage)]

(* releaseDeadline, in whatever ends the call. *)
Settle(f, stage) ==
    /\ Go(f, stage)
    /\ deadline' = [deadline EXCEPT ![f] = "off"]

Throw(f) == Settle(f, "thrown")

FetchRemote(f) ==
    /\ fetch[f] = None
    /\ \E guard \in Guards, url \in Url, secret \in BOOLEAN :
          fetch' = [fetch EXCEPT ![f] =
             [at |-> IF UrlAllowed(guard, url) THEN "validating" ELSE "thrown",
              guard |-> guard, url |-> url, origin |-> url, secret |-> secret,
              redirects |-> 0, size |-> 0, read |-> 0]]
    /\ UNCHANGED <<deadline, artifact, connected>>

(* The resolver answers validateRemoteTarget.  The deadline starts after   *)
(* the first answer and covers every later hop.                            *)
TargetValidated(f) ==
    /\ At(f, "validating")
    /\ \E answers \in SUBSET Addresses :
          IF ResolvedAddressesAllowed(fetch[f].guard, answers)
          THEN /\ Go(f, "connecting")
               /\ deadline' = [deadline EXCEPT ![f] = IF fetch[f].redirects = 0 THEN "armed" ELSE @]
          ELSE Throw(f)
    /\ UNCHANGED <<artifact, connected>>

(* pinnedLookup: the transport asks again and connects to an address of    *)
(* the answer it has just judged.                                          *)
LookupUnjudged(guard, answers) == answers # {}

Lookup(guard, answers) == ResolvedAddressesAllowed(guard, answers)

ConnectHop(f) ==
    /\ At(f, "connecting") /\ deadline[f] = "armed"
    /\ \E answers \in SUBSET Addresses :
          IF Lookup(fetch[f].guard, answers)
          THEN /\ \E a \in answers :
                     connected' = [address |-> a, url |-> fetch[f].url, origin |-> fetch[f].origin,
                                   secret |-> fetch[f].secret, guard |-> fetch[f].guard]
               /\ Go(f, "answered")
               /\ UNCHANGED deadline
          ELSE Throw(f) /\ UNCHANGED connected
    /\ UNCHANGED artifact

RequestFails(f) ==
    /\ At(f, "connecting") /\ deadline[f] = "armed"
    /\ Throw(f)
    /\ UNCHANGED <<artifact, connected>>

KeepCredentials(r, next) == r.secret

(* withoutCrossOriginCredentials: once dropped they stay dropped. *)
Credentials(r, next) == r.secret /\ next = r.url

Redirection(r, next) ==
    [r EXCEPT !.at = "validating", !.url = next, !.redirects = r.redirects + 1,
              !.secret = Credentials(r, next)]

Redirected(f) ==
    /\ At(f, "answered") /\ deadline[f] = "armed"
    /\ IF fetch[f].redirects >= MaxRedirects THEN Throw(f)
       ELSE \E next \in Url :
               IF UrlAllowed(fetch[f].guard, next)
               THEN /\ fetch' = [fetch EXCEPT ![f] = Redirection(@, next)]
                    /\ UNCHANGED deadline
               ELSE Throw(f)
    /\ UNCHANGED <<artifact, connected>>

(* A status the caller does not read (releaseRemoteResponse), no body, or  *)
(* a declared length beyond the limit.                                     *)
ResponseRefused(f) ==
    /\ At(f, "answered") /\ deadline[f] = "armed"
    /\ Throw(f)
    /\ UNCHANGED <<artifact, connected>>

(* fetchRemote returns; the caller reads the body. *)
BodyCoverDropped(f) == deadline' = [deadline EXCEPT ![f] = "off"]

BodyCovered(f) == UNCHANGED deadline

ResponseAccepted(f) ==
    /\ At(f, "answered") /\ deadline[f] = "armed"
    /\ \E size \in 0..MaxChunks :
          fetch' = [fetch EXCEPT ![f] = [fetch[f] EXCEPT !.at = "reading", !.size = size]]
    /\ BodyCovered(f)
    /\ UNCHANGED <<artifact, connected>>

ChunkArrives(f) ==
    /\ At(f, "reading") /\ deadline[f] # "fired"
    /\ IF fetch[f].read = MaxChunks THEN Throw(f)
       ELSE /\ fetch' = [fetch EXCEPT ![f] = [fetch[f] EXCEPT !.read = fetch[f].read + 1]]
            /\ UNCHANGED deadline
    /\ UNCHANGED <<artifact, connected>>

(* readResponseBytes returns what it has read. *)
BytesRead(f) ==
    /\ At(f, "reading") /\ deadline[f] # "fired"
    /\ Settle(f, "returned")
    /\ UNCHANGED <<artifact, connected>>

(* writeResponseToFile: a short file, or one whose destination exists, is  *)
(* removed; a whole one replaces nothing.  A size of 0 was not declared.   *)
Publish(f) ==
    IF (fetch[f].size > 0 /\ fetch[f].read # fetch[f].size) \/ artifact[f] # None
    THEN UNCHANGED artifact
    ELSE artifact' = [artifact EXCEPT ![f] = fetch[f].read]

FileWritten(f) ==
    /\ At(f, "reading") /\ deadline[f] # "fired"
    /\ Publish(f)
    /\ Settle(f, IF artifact' = artifact THEN "thrown" ELSE "returned")
    /\ UNCHANGED connected

(* The timer aborts the socket; what was waiting for it throws. *)
DeadlineFires(f) ==
    /\ deadline[f] = "armed"
    /\ deadline' = [deadline EXCEPT ![f] = "fired"]
    /\ UNCHANGED <<fetch, artifact, connected>>

Aborted(f) ==
    /\ deadline[f] = "fired"
    /\ At(f, "connecting") \/ At(f, "answered") \/ At(f, "reading")
    /\ Throw(f)
    /\ UNCHANGED <<artifact, connected>>

CallerEnds(f) ==
    /\ fetch[f] # None /\ fetch[f].at \in {"returned", "thrown"}
    /\ fetch' = [fetch EXCEPT ![f] = None]
    /\ UNCHANGED <<deadline, artifact, connected>>

FetchInit ==
    /\ fetch = [f \in Fetches |-> None]
    /\ deadline = [f \in Fetches |-> "off"]
    /\ artifact = [f \in Fetches |-> None]
    /\ connected = None

FetchNext ==
    \E f \in Fetches :
        \/ FetchRemote(f) \/ TargetValidated(f) \/ ConnectHop(f) \/ RequestFails(f)
        \/ Redirected(f) \/ ResponseRefused(f) \/ ResponseAccepted(f)
        \/ ChunkArrives(f) \/ BytesRead(f) \/ FileWritten(f)
        \/ DeadlineFires(f) \/ Aborted(f) \/ CallerEnds(f)

FetchSpec == FetchInit /\ [][FetchNext]_fetchVars

(* The resolver answers, timers fire, an aborted socket errors.  Nothing   *)
(* is assumed of the server.                                               *)
FetchProgress(f) == TargetValidated(f) \/ DeadlineFires(f) \/ Aborted(f)

-----------------------------------------------------------------------------
(* No connection reaches an address, a host or a scheme its policy forbids,*)
(* whatever the resolver answered before, and on every redirect hop.       *)
(* (docs: private ranges are refused at connection time, DNS is pinned)    *)
ConnectionsAreAllowed ==
    connected # None =>
        /\ UrlAllowed(connected.guard, connected.url)
        /\ ResolvedAddressesAllowed(connected.guard, {connected.address})

(* A credential is sent to the origin it was given for and to no other,    *)
(* also when a chain of redirects leads away and back.                     *)
CredentialsStayHome ==
    connected # None /\ connected.secret => connected.url = connected.origin

(* Whatever the server does, a call ends, and its timer with it. *)
EveryFetchEnds ==
    \A f \in Fetches :
        (fetch[f] # None /\ fetch[f].at \notin {"returned", "thrown"}) ~>
            (fetch[f] = None \/ (fetch[f].at \in {"returned", "thrown"} /\ deadline[f] = "off"))

(***************************************************************************)
(* Strengthening: a call that has not read its answer yet is at a URL its  *)
(* policy allows, and one that still has the credential is at its origin.  *)
(***************************************************************************)
Abides(r) ==
    /\ r.at \in {"validating", "connecting", "answered"} => UrlAllowed(r.guard, r.url)
    /\ r.secret => r.url = r.origin

FetchIndInv ==
    /\ FetchTypeOK
    /\ \A f \in Fetches : fetch[f] # None => Abides(fetch[f])
    /\ ConnectionsAreAllowed /\ CredentialsStayHome
=============================================================================
