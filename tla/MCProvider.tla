------------------------------ MODULE MCProvider ------------------------------
(***************************************************************************)
(* Small instances of what stands between Guardian and the network: the    *)
(* native SnowLuma client, the SDK client, the supervisor that chooses     *)
(* between them, the OneBot port the rest of Guardian sees, and guarded    *)
(* outbound HTTP.  A behaviour is of one of them, chosen at its start; the *)
(* others stand still.                                                     *)
(***************************************************************************)
EXTENDS SnowLumaClient, Standalone, SdkClient, OneBotPort, SafeFetch

CONSTANTS c1, s1, s2, pub, priv, home, away

VARIABLE scene

providerVars == <<vars, standaloneVars, sdkVars, portVars, fetchVars, scene>>

(* One policy for public hosts over HTTPS, one for a private host. *)
MCGuards ==
    {[allowed |-> {home, away}, allowPrivate |-> FALSE, allowHttp |-> FALSE],
     [allowed |-> {home}, allowPrivate |-> TRUE, allowHttp |-> TRUE]}

(* The native client: three sockets and two frames, or two and three. *)
ClientScene ==
    \/ scene = "sockets" /\ arrived' <= 2
    \/ scene = "frames" /\ state'[3] = "unused"

ProviderInit ==
    /\ scene \in {"sockets", "frames", "supervisor", "sdk", "port", "fetch"}
    /\ Init /\ StandaloneInit /\ SdkInit /\ PortInit /\ FetchInit

ProviderNext ==
    \/ Next /\ ClientScene /\ UNCHANGED <<standaloneVars, sdkVars, portVars, fetchVars, scene>>
    \/ scene = "supervisor" /\ StandaloneNext /\ UNCHANGED <<vars, sdkVars, portVars, fetchVars, scene>>
    \/ scene = "sdk" /\ SdkNext /\ UNCHANGED <<vars, standaloneVars, portVars, fetchVars, scene>>
    \/ scene = "port" /\ PortNext /\ UNCHANGED <<vars, standaloneVars, sdkVars, fetchVars, scene>>
    \/ scene = "fetch" /\ FetchNext /\ UNCHANGED <<vars, standaloneVars, sdkVars, portVars, scene>>

(* The fairness of SdkSpec, PortSpec and FetchSpec, each in its scene. *)
ProviderFairness ==
    /\ WF_sdkVars(scene = "sdk" /\ SdkClosed) /\ WF_sdkVars(scene = "sdk" /\ ProtocolTimerFires)
    /\ SF_sdkVars(scene = "sdk" /\ SdkOpens)
    /\ WF_portVars(scene = "port" /\ RecordProviderEvent)
    /\ WF_portVars(scene = "port" /\ GetProviderTelemetry)
    /\ \A f \in Fetches : WF_fetchVars(scene = "fetch" /\ FetchProgress(f))

ProviderSpec == ProviderInit /\ [][ProviderNext]_providerVars /\ ProviderFairness

=============================================================================
