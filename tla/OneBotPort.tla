------------------------------ MODULE OneBotPort ------------------------------
(***************************************************************************)
(* The port every module calls QQ through: src/runtime/host.ts, the        *)
(* gateway of onebot-provider.ts, and what provider-telemetry.ts concludes *)
(* from calls, events and the connection.                                  *)
(*                                                                         *)
(* Of the answer to a call only what the telemetry makes of it is kept.    *)
(***************************************************************************)
EXTENDS Naturals, Integers, FiniteSets, Sequences

CONSTANTS
    PortCalls,     \* calls of callOneBot
    NoCallYet,
    MaxHosts,      \* bound on the hosts ever set
    MaxClock,      \* bound on the milliseconds that pass
    MaxPortErrors  \* bound on the failed calls and reported errors

ASSUME PortAssumption ==
    /\ MaxHosts \in Nat /\ MaxClock \in Nat /\ MaxPortErrors \in Nat
    /\ NoCallYet \notin Nat

VARIABLES
    host,       \* currentHost: its number, or 0
    hosts,      \* how many hosts were set
    telemetry,  \* the tracker that came with it: calls in flight, state override
    calls,      \* NoCallYet, the host a call was made through, or 0 when it is over
    linkUp,     \* isConnected() of the transport
    diagnosis,  \* ProviderConnectionDiagnostics: state, its time, ever connected
    clock, failures

portVars == <<host, hosts, telemetry, calls, linkUp, diagnosis, clock, failures>>

NewTracker == [inFlight |-> 0, override |-> "none", at |-> 0]

PortTypeOK ==
    /\ host \in 0..MaxHosts /\ hosts \in 0..MaxHosts
    /\ telemetry \in [inFlight : Int, override : {"none", "disconnected", "auth_failed"}, at : 0..MaxClock]
    /\ \A c \in PortCalls : calls[c] \in 0..MaxHosts \cup {NoCallYet}
    /\ diagnosis \in [state : {"disconnected", "connected", "reconnecting"},
                      at : 0..MaxClock, ever : BOOLEAN]
    /\ linkUp \in BOOLEAN /\ clock \in 0..MaxClock /\ failures \in 0..MaxPortErrors

PortInit ==
    /\ host = 0 /\ hosts = 0 /\ telemetry = NewTracker
    /\ calls = [c \in PortCalls |-> NoCallYet]
    /\ linkUp = TRUE /\ diagnosis = [state |-> "connected", at |-> 0, ever |-> TRUE]
    /\ clock = 0 /\ failures = 0

-----------------------------------------------------------------------------
(* What the gateway makes of a call.                                       *)

(* categorizeProviderError, as far as the telemetry tells errors apart:     *)
(* refused credentials, a broken transport or connection, and the rest. *)
ErrorCategories == {"authentication", "transport", "other"}

(* call() of the gateway: a normalized response, or an error: of the        *)
(* capabilities, the parameters or the response itself, which is "other",   *)
(* or whatever the transport threw. *)
Verdicts == {"ok"} \cup ErrorCategories

-----------------------------------------------------------------------------
(* Telemetry.                                                              *)

(* finishAction: a call that began on an earlier host's tracker is taken     *)
(* off this one all the same, never below zero. *)
FinishAction(t) == [t EXCEPT !.inFlight = IF @ > 0 THEN @ - 1 ELSE 0]
FinishFailedAction(t) == FinishAction(t)

(* recordError: two categories override the state of the connection. *)
RecordError(t, category) ==
    CASE category = "authentication" -> [t EXCEPT !.override = "auth_failed", !.at = clock]
      [] category = "transport" -> [t EXCEPT !.override = "disconnected", !.at = clock]
      [] OTHER -> t

NoOverride(t) == [t EXCEPT !.override = "none"]
KeepOverride(t) == t

(* recordEvent: whoever sends events is connected. *)
AfterEvent(t) == NoOverride(t)

(* ProviderConnectionDiagnostics.snapshot. *)
Diagnose ==
    LET seen == IF linkUp THEN "connected"
                ELSE IF diagnosis.ever THEN "reconnecting" ELSE "disconnected"
    IN  [state |-> seen, ever |-> diagnosis.ever \/ linkUp,
         at |-> IF seen = diagnosis.state THEN diagnosis.at ELSE clock]

(* ProviderTelemetryTracker.snapshot: a connection made after the override   *)
(* refutes it. *)
Refuted(t, d) == d.state = "connected" /\ d.at > t.at
SnapshotOf(t, d) == IF t.override # "none" /\ Refuted(t, d) THEN NoOverride(t) ELSE t

-----------------------------------------------------------------------------
(* host.ts.                                                                *)

SetRuntimeHost ==
    /\ host = 0 /\ hosts < MaxHosts
    /\ hosts' = hosts + 1 /\ host' = hosts + 1
    /\ telemetry' = NewTracker
    /\ UNCHANGED <<calls, linkUp, diagnosis, clock, failures>>

(* clearRuntimeHost, whatever is in flight. *)
ClearRuntimeHost ==
    /\ host # 0
    /\ host' = 0 /\ telemetry' = NewTracker
    /\ UNCHANGED <<hosts, calls, linkUp, diagnosis, clock, failures>>

(* callOneBot, up to the call of the provider. *)
CallOneBot(c) ==
    /\ calls[c] = NoCallYet /\ host # 0
    /\ calls' = [calls EXCEPT ![c] = host]
    /\ telemetry' = [telemetry EXCEPT !.inFlight = @ + 1]
    /\ UNCHANGED <<host, hosts, linkUp, diagnosis, clock, failures>>

(* The call comes back and is recorded by the tracker of the time, with a    *)
(* snapshot for its log line; with no tracker, the record throws instead. *)
CallReturns(c, verdict) ==
    /\ calls[c] \notin {NoCallYet, 0}
    /\ calls' = [calls EXCEPT ![c] = 0]
    /\ IF host = 0
       THEN UNCHANGED <<telemetry, diagnosis, failures>>
       ELSE LET ended == IF verdict = "ok" THEN NoOverride(FinishAction(telemetry))
                         ELSE RecordError(FinishFailedAction(telemetry), verdict)
            IN  /\ verdict # "ok" => failures < MaxPortErrors
                /\ failures' = IF verdict = "ok" THEN failures ELSE failures + 1
                /\ diagnosis' = Diagnose
                /\ telemetry' = SnapshotOf(ended, Diagnose)
    /\ UNCHANGED <<host, hosts, linkUp, clock>>

RecordProviderEvent ==
    /\ host # 0 /\ linkUp
    /\ telemetry' = AfterEvent(telemetry)
    /\ UNCHANGED <<host, hosts, calls, linkUp, diagnosis, clock, failures>>

(* An error of the transport outside any call. *)
RecordProviderError ==
    /\ host # 0 /\ failures < MaxPortErrors
    /\ failures' = failures + 1
    /\ \E category \in ErrorCategories : telemetry' = RecordError(telemetry, category)
    /\ UNCHANGED <<host, hosts, calls, linkUp, diagnosis, clock>>

(* getProviderTelemetry, for the dashboard. *)
GetProviderTelemetry ==
    /\ host # 0
    /\ diagnosis' = Diagnose
    /\ telemetry' = SnapshotOf(telemetry, Diagnose)
    /\ UNCHANGED <<host, hosts, calls, linkUp, clock, failures>>

LinkChanges ==
    /\ clock < MaxClock
    /\ linkUp' = ~linkUp /\ clock' = clock + 1
    /\ UNCHANGED <<host, hosts, telemetry, calls, diagnosis, failures>>

PortNext ==
    \/ SetRuntimeHost \/ ClearRuntimeHost
    \/ \E c \in PortCalls :
        \/ CallOneBot(c)
        \/ \E verdict \in Verdicts : CallReturns(c, verdict)
    \/ RecordProviderEvent \/ RecordProviderError \/ GetProviderTelemetry \/ LinkChanges

(* A provider sends heartbeats while it is connected, and somebody looks. *)
PortProgress == WF_portVars(RecordProviderEvent) /\ WF_portVars(GetProviderTelemetry)

PortSpec == PortInit /\ [][PortNext]_portVars /\ PortProgress

-----------------------------------------------------------------------------
(* Properties.                                                             *)

(***************************************************************************)
(* A provider once taken for disconnected or unauthenticated, that is      *)
(* connected for good, is shown connected again: no verdict of an earlier  *)
(* error stays for ever, even if the connection came back between two      *)
(* looks at it.                                                            *)
(***************************************************************************)
StatusRecovers ==
    <>[](linkUp /\ host # 0) =>
        []<>(telemetry.override = "none" /\ diagnosis.state = "connected")

(***************************************************************************)
(* The calls in flight that the dashboard shows are never more than those  *)
(* begun through this host and not over, although a call that outlived an  *)
(* earlier host is taken off this one's count (host.ts, callOneBot).       *)
(***************************************************************************)
CallsOfHost == {c \in PortCalls : calls[c] = host}

NeverOvercounted == host # 0 => telemetry.inFlight <= Cardinality(CallsOfHost)

(* Strengthening: hosts are numbered as they come, and telemetry is of one. *)
PortInd ==
    /\ PortTypeOK /\ calls \in [PortCalls -> 0..hosts \cup {NoCallYet}]
    /\ host <= hosts /\ telemetry.inFlight >= 0
    /\ host = 0 => telemetry = NewTracker
    /\ host # 0 => IsFiniteSet(CallsOfHost) /\ NeverOvercounted
===============================================================================
