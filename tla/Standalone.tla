------------------------------ MODULE Standalone ------------------------------
(***************************************************************************)
(* The standalone process: src/snowluma.ts with the transport supervisor   *)
(* of src/platform/snowluma/factory.ts, and of router.ts what listens and  *)
(* closes.                                                                 *)
(*                                                                         *)
(* A transport object is known by a name that may be used again once the   *)
(* object is closed and nobody waits for it: a closed transport does       *)
(* nothing.  Both kinds reconnect by themselves.  An event is a number, in *)
(* the order of arrival.                                                   *)
(***************************************************************************)
EXTENDS Naturals, FiniteSets, Sequences

CONSTANTS
    Native,        \* the SnowLumaWsClient
    SdkTransports, \* the SnowLumaSdkWsClients that may exist at a time
    NoTransport,
    FallbackMode,  \* sdkFallback: "auto" or "off"
    MaxDrops,      \* bound on the connections lost after one was selected
    MaxEvents,     \* bound on the events that arrive
    MaxBuffered    \* MAX_BUFFERED_EVENTS

Transports == {Native} \cup SdkTransports

ASSUME StandaloneAssumption ==
    /\ Native \notin SdkTransports /\ NoTransport \notin Transports
    /\ FallbackMode \in {"auto", "off"}
    /\ MaxDrops \in Nat /\ MaxEvents \in Nat /\ MaxBuffered \in Nat \ {0}

VARIABLES
    links,       \* free, opening, up, lost or shut, of each transport
    serving,     \* activeTransport
    dialling,    \* connectingTransport
    selected,    \* kind
    over,        \* closed
    startup,     \* the transport connectionLoop is waiting for, or none
    handovers,   \* the SDK transports handleConnectionState is waiting for
    main,        \* what main awaits
    stopping,
    shutdown,    \* what shutdown awaits
    server,      \* the HTTP server: none, binding, listening, closing
    ready,
    buffered,    \* bufferedEvents
    flushing,    \* the event main's last loop dispatches, or 0
    dispatching, \* the events whose handler is running
    came, drops  \* how many events came, how many connections were lost

supervisorVars == <<links, serving, dialling, selected, over, startup, handovers>>
processVars == <<main, stopping, shutdown, server>>
ingressVars == <<ready, buffered, flushing, dispatching, came>>
standaloneVars == <<supervisorVars, processVars, ingressVars, drops>>

StandaloneTypeOK ==
    /\ links \in [Transports -> {"free", "opening", "up", "lost", "shut"}]
    /\ {serving, dialling, startup} \subseteq Transports \cup {NoTransport}
    /\ selected \in {"none", "native", "sdk"} /\ over \in BOOLEAN
    /\ handovers \subseteq SdkTransports
    /\ main \in {"connecting", "retrying", "booting", "listening", "flushing", "up", "failed", "ended"}
    /\ shutdown \in {"no", "router", "teardown", "done"}
    /\ server \in {"none", "binding", "listening", "closing"}
    /\ stopping \in BOOLEAN /\ ready \in BOOLEAN
    /\ Len(buffered) <= MaxBuffered /\ dispatching \subseteq 1..MaxEvents
    /\ flushing \in 0..MaxEvents /\ came \in 0..MaxEvents /\ drops \in 0..MaxDrops

StandaloneInit ==
    /\ links = [[t \in Transports |-> "free"] EXCEPT ![Native] = "opening"]
    /\ serving = NoTransport /\ dialling = Native /\ selected = "none" /\ over = FALSE
    /\ startup = Native /\ handovers = {}
    /\ main = "connecting" /\ stopping = FALSE /\ shutdown = "no" /\ server = "none"
    /\ ready = FALSE /\ buffered = <<>> /\ flushing = 0 /\ dispatching = {} /\ came = 0
    /\ drops = 0

-----------------------------------------------------------------------------
(* The supervisor.                                                         *)

KindOf(t) == IF t = Native THEN "native" ELSE "sdk"
Free(t) == links[t] = "free"
Awaited == handovers \cup ({startup} \ {NoTransport})

(* createTransport, and the synchronous part of its connect. *)
CreateTransport(t) ==
    /\ Free(t)
    /\ dialling' = t

(* transport.close(): its name is free unless a connect has yet to fail. *)
Closing(ts) ==
    [t \in Transports |->
        IF t \notin ts THEN links[t] ELSE IF t \in Awaited THEN "shut" ELSE "free"]

NotDialling(t) == IF dialling = t THEN NoTransport ELSE dialling

(* retireTransport, in the catch of whoever waited for t. *)
RetireTransport(t) ==
    /\ links' = [links EXCEPT ![t] = "free"]
    /\ dialling' = NotDialling(t)

(* selectTransport, of a connection just opened: on fallback the native     *)
(* transport is left open, to come back. *)
SelectTransport(t, closePrevious) ==
    /\ links' = [x \in Transports |->
                    IF x = t THEN "up" ELSE IF closePrevious /\ x = serving THEN "free" ELSE links[x]]
    /\ serving' = t /\ selected' = KindOf(t)
    /\ dialling' = NotDialling(t)

AlwaysClosesPrevious == TRUE
FallbackClosesPrevious == FALSE

(* connect() while no loop is under way: connectionLoop is a new one. *)
StartLoop ==
    /\ CreateTransport(Native)
    /\ links' = [links EXCEPT ![Native] = "opening"]
    /\ startup' = Native

-----------------------------------------------------------------------------
(* The connections, and what the supervisor does of each change.           *)

(* The transport the loop waits for connects: selectTransport, the loop     *)
(* ends and main goes on, in one turn: a shutdown that came before has      *)
(* closed the transport. *)
StartupConnects ==
    /\ startup # NoTransport /\ links[startup] = "opening"
    /\ SelectTransport(startup, TRUE)
    /\ startup' = NoTransport
    /\ main' = "booting"
    /\ UNCHANGED <<over, handovers, stopping, shutdown, server, ingressVars, drops>>

(* connect() rejects, the attempts used up or the transport closed: the     *)
(* native transport is retired for an SDK one, or the loop fails. *)
StartupFails ==
    /\ startup # NoTransport /\ links[startup] \in {"opening", "shut"}
    /\ IF startup = Native /\ ~over /\ FallbackMode = "auto"
       THEN \E s \in SdkTransports :
                /\ CreateTransport(s)
                /\ links' = [links EXCEPT ![Native] = "free", ![s] = "opening"]
                /\ startup' = s
                /\ UNCHANGED main
       ELSE /\ RetireTransport(startup)
            /\ startup' = NoTransport
            /\ main' = "retrying"
    /\ UNCHANGED <<serving, selected, over, handovers, stopping, shutdown, server, ingressVars, drops>>

(* A selected connection drops.  Of the native transport, while active, an  *)
(* SDK transport is created and connected; any other loss is the            *)
(* transport's own affair. *)
ConnectionDrops(t) ==
    /\ links[t] = "up" /\ drops < MaxDrops
    /\ drops' = drops + 1
    /\ IF ~over /\ t = Native /\ serving = t /\ FallbackMode = "auto"
       THEN \E s \in SdkTransports :
                /\ CreateTransport(s)
                /\ links' = [links EXCEPT ![t] = "lost", ![s] = "opening"]
                /\ handovers' = handovers \cup {s}
       ELSE /\ links' = [links EXCEPT ![t] = "lost"]
            /\ UNCHANGED <<dialling, handovers>>
    /\ UNCHANGED <<serving, selected, over, startup, processVars, ingressVars>>

(* The transport's own reconnection succeeds: the native one takes over     *)
(* from the SDK, which is closed, if the SDK was selected by then. *)
Reconnects(t) ==
    /\ links[t] = "lost"
    /\ IF ~over /\ t = Native /\ serving # t /\ selected = "sdk" /\ FallbackMode = "auto"
       THEN SelectTransport(t, TRUE)
       ELSE /\ links' = [links EXCEPT ![t] = "up"]
            /\ UNCHANGED <<serving, selected, dialling>>
    /\ UNCHANGED <<over, startup, handovers, processVars, ingressVars, drops>>

(* handleConnectionState, after sdk.connect(). *)
HandoverConnects(s) ==
    /\ s \in handovers /\ links[s] = "opening"
    /\ handovers' = handovers \ {s}
    /\ IF over THEN RetireTransport(s) /\ UNCHANGED <<serving, selected>>
       ELSE SelectTransport(s, FallbackClosesPrevious)
    /\ UNCHANGED <<over, startup, processVars, ingressVars, drops>>

HandoverFails(s) ==
    /\ s \in handovers /\ links[s] \in {"opening", "shut"}
    /\ handovers' = handovers \ {s}
    /\ RetireTransport(s)
    /\ UNCHANGED <<serving, selected, over, startup, processVars, ingressVars, drops>>

-----------------------------------------------------------------------------
(* main.                                                                   *)

(* The retry delay ends: the next turn of the loop, or its end. *)
MainRetries ==
    /\ main = "retrying"
    /\ IF stopping THEN main' = "ended" /\ UNCHANGED <<links, dialling, startup>>
       ELSE main' = "connecting" /\ StartLoop
    /\ UNCHANGED <<serving, selected, over, handovers, stopping, shutdown, server, ingressVars, drops>>

(* boot returns and router.listen begins.  A boot that teardown invalidated *)
(* does not return. *)
BootReturns ==
    /\ main = "booting" /\ shutdown = "no"
    /\ main' = "listening" /\ server' = "binding"
    /\ UNCHANGED <<supervisorVars, stopping, shutdown, ingressVars, drops>>

(* The address is resolved and bound.  A server closed before it was bound  *)
(* binds all the same. *)
ListenReturns ==
    /\ main = "listening" /\ server = "binding"
    /\ main' = "flushing" /\ server' = "listening" /\ ready' = TRUE
    /\ UNCHANGED <<supervisorVars, stopping, shutdown, buffered, flushing, dispatching, came, drops>>

(* while (bufferedEvents.length > 0): one dispatch, awaited. *)
FlushNext ==
    /\ main = "flushing" /\ flushing = 0
    /\ IF buffered # <<>>
       THEN flushing' = Head(buffered) /\ buffered' = Tail(buffered) /\ UNCHANGED main
       ELSE main' = "up" /\ UNCHANGED <<flushing, buffered>>
    /\ UNCHANGED <<supervisorVars, stopping, shutdown, server, ready, dispatching, came, drops>>

FlushedEnds ==
    /\ flushing # 0
    /\ flushing' = 0
    /\ UNCHANGED <<supervisorVars, processVars, ready, buffered, dispatching, came, drops>>

-----------------------------------------------------------------------------
(* shutdown.                                                               *)

(* client.close(): the active and the connecting transport. *)
CloseClient ==
    /\ over' = TRUE
    /\ links' = Closing({serving, dialling} \ {NoTransport})
    /\ serving' = NoTransport /\ dialling' = NoTransport
    /\ UNCHANGED <<selected, startup, handovers>>

(* shutdown, up to what it waits for in earnest: router.close of a bound    *)
(* server, or else teardown of what was booted.  Where there is neither,    *)
(* both return at once and client.close() belongs to the same turn. *)
BeginShutdown(booted) ==
    /\ stopping' = TRUE /\ ready' = FALSE
    /\ IF server = "listening" \/ booted
       THEN /\ shutdown' = IF server = "listening" THEN "router" ELSE "teardown"
            /\ UNCHANGED supervisorVars
       ELSE shutdown' = "done" /\ CloseClient

(* SIGINT or SIGTERM. *)
Signal ==
    /\ ~stopping
    /\ BeginShutdown(main \notin {"connecting", "retrying"})
    /\ server' = IF server = "listening" THEN "closing" ELSE server
    /\ UNCHANGED <<main, buffered, flushing, dispatching, came, drops>>

(* boot or listen rejects: main's catch shuts down, once.  A boot that      *)
(* rejects has cleaned up after itself. *)
MainFails ==
    /\ main \in {"booting", "listening"}
    /\ main' = "failed" /\ server' = "none"
    /\ IF stopping THEN UNCHANGED <<supervisorVars, stopping, ready, shutdown>>
       ELSE BeginShutdown(main = "listening")
    /\ UNCHANGED <<buffered, flushing, dispatching, came, drops>>

(* The connections have ended, or the grace period has. *)
RouterClosed ==
    /\ shutdown = "router"
    /\ server' = "none" /\ shutdown' = "teardown"
    /\ UNCHANGED <<supervisorVars, main, stopping, ingressVars, drops>>

(* teardown returns, after a boot it interrupted. *)
ClientCloses ==
    /\ shutdown = "teardown" /\ main # "booting"
    /\ shutdown' = "done" /\ CloseClient
    /\ UNCHANGED <<main, stopping, server, ingressVars, drops>>

-----------------------------------------------------------------------------
(* Events.                                                                 *)

(* A transport's ordered queue hands over an event: the handler the         *)
(* supervisor wrapped returns at once. *)
EventArrives(t) ==
    /\ links[t] = "up" /\ serving = t /\ came < MaxEvents
    /\ came' = came + 1
    /\ IF ready
       THEN dispatching' = dispatching \cup {came + 1} /\ UNCHANGED buffered
       ELSE /\ buffered' = Append(IF Len(buffered) >= MaxBuffered THEN Tail(buffered) ELSE buffered,
                                  came + 1)
            /\ UNCHANGED dispatching
    /\ UNCHANGED <<supervisorVars, processVars, ready, flushing, drops>>

DispatchEnds(e) ==
    /\ e \in dispatching
    /\ dispatching' = dispatching \ {e}
    /\ UNCHANGED <<supervisorVars, processVars, ready, buffered, flushing, came, drops>>

StandaloneNext ==
    \/ StartupConnects \/ StartupFails
    \/ \E t \in Transports : ConnectionDrops(t) \/ Reconnects(t) \/ EventArrives(t)
    \/ \E s \in SdkTransports : HandoverConnects(s) \/ HandoverFails(s)
    \/ MainRetries \/ BootReturns \/ ListenReturns \/ FlushNext \/ FlushedEnds
    \/ Signal \/ MainFails \/ RouterClosed \/ ClientCloses
    \/ \E e \in 1..MaxEvents : DispatchEnds(e)

(* The retry timer fires; a provider that keeps coming back is reached. *)
StandaloneProgress ==
    /\ WF_standaloneVars(MainRetries)
    /\ SF_standaloneVars(StartupConnects)

StandaloneSpec == StandaloneInit /\ [][StandaloneNext]_standaloneVars /\ StandaloneProgress

-----------------------------------------------------------------------------
(* Properties.                                                             *)

(***************************************************************************)
(* However often the primary connection is lost and whatever the fallback  *)
(* does, the native transport, once selected, keeps reconnecting: only the *)
(* shutdown closes it.                                                     *)
(***************************************************************************)
NativeIsNotGivenUp ==
    [][links[Native] \in {"up", "lost"} /\ links'[Native] \in {"free", "shut"} => over']_standaloneVars

(***************************************************************************)
(* Events are handled one at a time.  (transport.ts, of its dispatcher:    *)
(* "Keeps transport callbacks bounded and serial."  What the supervisor    *)
(* passes it returns before the handler does.)                             *)
(***************************************************************************)
CallbacksAreSerial ==
    Cardinality(dispatching \cup ({flushing} \ {0})) <= 1

(***************************************************************************)
(* Once shutdown and main have both returned, no transport is open or will *)
(* open again.  (docs/architecture/migration.md: "stop cleanly under       *)
(* SIGINT, SIGTERM, and service-manager shutdown".  The native transport   *)
(* behind an SDK fallback is not closed, and keeps the process alive.)     *)
(***************************************************************************)
StopsCleanly ==
    shutdown = "done" /\ main \in {"up", "failed", "ended"} /\ startup = NoTransport /\ handovers = {} =>
        \A t \in Transports : Free(t)

(***************************************************************************)
(* Strengthening.  While connectionLoop runs nothing has been selected yet *)
(* and no fallback is under way, so that what it selects replaces nothing. *)
(***************************************************************************)
NothingYet == serving = NoTransport /\ selected = "none" /\ handovers = {}

SupervisorInd ==
    /\ StandaloneTypeOK
    /\ buffered \in Seq(1..MaxEvents)
    /\ startup # NoTransport => main = "connecting"
    /\ main \in {"connecting", "retrying"} => NothingYet
===============================================================================
