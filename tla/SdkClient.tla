------------------------------ MODULE SdkClient ------------------------------
(***************************************************************************)
(* The fallback transport: src/platform/snowluma/sdk-client.ts around the  *)
(* WebSocket client of @snowluma/sdk, as the supervisor uses it: one       *)
(* connect(), and close().                                                 *)
(*                                                                         *)
(* The SDK client reconnects by itself after a connection it lost, not     *)
(* after one it was told to close; a released client has no listener left  *)
(* and is forgotten here.  The event queue behind it is the dispatcher     *)
(* SnowLumaClient models: here it is how many events it holds.             *)
(***************************************************************************)
EXTENDS Naturals

CONSTANTS
    SdkMaxAttempts,      \* initialConnectMaxAttempts
    SdkEventLimit,       \* eventQueueLimit
    SdkCloseMayThrow,    \* may client.close(1009) throw
    MaxSdkMishaps        \* bound on oversized events, drops and failed dials

ASSUME SdkClientAssumption ==
    /\ SdkMaxAttempts \in Nat \ {0} /\ SdkEventLimit \in Nat \ {0}
    /\ SdkCloseMayThrow \in BOOLEAN /\ MaxSdkMishaps \in Nat

VARIABLES
    sdk,        \* this.client as the SDK has it: none, idle, opening, open,
                \* closing (told to), waiting (to reconnect) or shut
    sdkLoop,    \* connectWithRetries: what it awaits, and the attempt
    sdkDials,   \* who awaits connectSelectedClient: "loop", "timer"
    sdkTimer,   \* protocolReconnectTimer is armed
    sdkBlocked, \* sdkIngressBlocked
    sdkPolicyClose, \* protocolClosePending is the client
    sdkClosing, \* closing
    sdkQueued,  \* events in the dispatcher
    refused,    \* history: the SDK threw on the last policy close
    mishaps

sdkVars == <<sdk, sdkLoop, sdkDials, sdkTimer, sdkBlocked, sdkPolicyClose, sdkClosing,
             sdkQueued, refused, mishaps>>

SdkClientTypeOK ==
    /\ sdk \in {"none", "idle", "opening", "open", "closing", "waiting", "shut"}
    /\ sdkLoop \in [at : {"making", "dialling", "retrying", "done", "failed"}, attempt : 0..SdkMaxAttempts]
    /\ sdkDials \subseteq {"loop", "timer"}
    /\ {sdkTimer, sdkBlocked, sdkPolicyClose, sdkClosing, refused} \subseteq BOOLEAN
    /\ sdkQueued \in 0..SdkEventLimit /\ mishaps \in 0..MaxSdkMishaps

SdkInit ==
    /\ sdk = "none" /\ sdkLoop = [at |-> "making", attempt |-> 0]
    /\ sdkDials = {} /\ sdkTimer = FALSE /\ sdkBlocked = FALSE /\ sdkPolicyClose = FALSE
    /\ sdkClosing = FALSE /\ sdkQueued = 0 /\ refused = FALSE /\ mishaps = 0

Mishap == mishaps < MaxSdkMishaps /\ mishaps' = mishaps + 1

-----------------------------------------------------------------------------
(* connect().                                                              *)

(* The client is made and attached, and its handshake begins; or close()   *)
(* came first. *)
ClientMade ==
    /\ sdkLoop.at = "making"
    /\ IF sdkClosing
       THEN sdkLoop' = [sdkLoop EXCEPT !.at = "failed"] /\ UNCHANGED <<sdk, sdkDials>>
       ELSE /\ sdk' = "opening" /\ sdkDials' = {"loop"}
            /\ sdkLoop' = [sdkLoop EXCEPT !.at = "dialling"]
    /\ UNCHANGED <<sdkTimer, sdkBlocked, sdkPolicyClose, sdkClosing, sdkQueued, refused, mishaps>>

(* The listener of "open": ingress and the counters start afresh. *)
OpenListener ==
    /\ sdkBlocked' = FALSE /\ sdkPolicyClose' = FALSE /\ sdkTimer' = FALSE
    /\ sdkQueued' = 0 /\ refused' = FALSE

(* A handshake, or the SDK's own reconnection, succeeds: whoever waits for  *)
(* the connection goes on. *)
SdkOpens ==
    /\ sdk \in {"opening", "waiting"}
    /\ sdk' = "open" /\ sdkDials' = {}
    /\ sdkLoop' = IF "loop" \in sdkDials THEN [sdkLoop EXCEPT !.at = "done"] ELSE sdkLoop
    /\ OpenListener
    /\ UNCHANGED <<sdkClosing, mishaps>>

(* scheduleProtocolReconnect, of the current client, the option being on:   *)
(* one timer at a time. *)
ScheduleProtocolReconnect == sdkTimer' = ~sdkClosing
DoNotSchedule == sdkTimer' = sdkTimer

(* The release of a client whose handshake failed. *)
ReleaseClient ==
    /\ sdk' = "none" /\ sdkBlocked' = TRUE /\ sdkPolicyClose' = FALSE
    /\ sdkTimer' = FALSE /\ sdkQueued' = 0

RedialFails == ScheduleProtocolReconnect

(* A handshake is refused, or its timeout closes the client: connect's loop *)
(* releases the client and waits or gives up, the timer's is scheduled      *)
(* again. *)
DialFails ==
    /\ sdkDials # {} /\ sdk = "opening" /\ Mishap
    /\ sdkDials' = {}
    /\ IF "loop" \in sdkDials
       THEN /\ ReleaseClient
            /\ LET last == sdkLoop.attempt + 1 >= SdkMaxAttempts
               IN  sdkLoop' = [at |-> IF last THEN "failed" ELSE "retrying",
                               attempt |-> sdkLoop.attempt + 1]
       ELSE /\ sdk' = "shut" /\ RedialFails
            /\ UNCHANGED <<sdkLoop, sdkBlocked, sdkPolicyClose, sdkQueued>>
    /\ UNCHANGED <<sdkClosing, refused>>

(* waitForRetry ends. *)
RetryDelayEnds ==
    /\ sdkLoop.at = "retrying"
    /\ sdkLoop' = [sdkLoop EXCEPT !.at = IF sdkClosing THEN "failed" ELSE "making"]
    /\ UNCHANGED <<sdk, sdkDials, sdkTimer, sdkBlocked, sdkPolicyClose, sdkClosing, sdkQueued,
                   refused, mishaps>>

-----------------------------------------------------------------------------
(* Ingress.                                                                *)

(* An event within the limit: enqueued, or dropped when the queue is full. *)
EventEnqueued ==
    /\ sdk = "open" /\ ~sdkBlocked /\ sdkQueued < SdkEventLimit
    /\ sdkQueued' = sdkQueued + 1
    /\ UNCHANGED <<sdk, sdkLoop, sdkDials, sdkTimer, sdkBlocked, sdkPolicyClose, sdkClosing,
                   refused, mishaps>>

EventHandled ==
    /\ sdkQueued > 0
    /\ sdkQueued' = sdkQueued - 1
    /\ UNCHANGED <<sdk, sdkLoop, sdkDials, sdkTimer, sdkBlocked, sdkPolicyClose, sdkClosing,
                   refused, mishaps>>

(* An oversized event or raw frame, blockOversizedSdkIngress: the close     *)
(* event is to schedule the reconnection.  If the SDK refuses to close, the *)
(* reconnection is scheduled at once. *)
SdkOversizedArrives ==
    /\ sdk = "open" /\ ~sdkBlocked /\ Mishap
    /\ sdkBlocked' = TRUE /\ sdkQueued' = 0
    /\ \/ /\ sdk' = "closing" /\ sdkPolicyClose' = TRUE
          /\ UNCHANGED <<sdkTimer, refused>>
       \/ /\ SdkCloseMayThrow
          /\ sdkPolicyClose' = FALSE /\ refused' = TRUE
          /\ ScheduleProtocolReconnect
          /\ UNCHANGED sdk
    /\ UNCHANGED <<sdkLoop, sdkDials, sdkClosing>>

AfterPolicyClose == sdkPolicyClose

(* The listener of "close": after a policy close Guardian reconnects, after *)
(* any other the SDK does. *)
CloseListener ==
    /\ sdkBlocked' = TRUE /\ sdkPolicyClose' = FALSE /\ sdkQueued' = 0
    /\ IF AfterPolicyClose THEN ScheduleProtocolReconnect ELSE UNCHANGED sdkTimer

SdkClosed ==
    /\ sdk = "closing"
    /\ sdk' = "shut"
    /\ CloseListener
    /\ UNCHANGED <<sdkLoop, sdkDials, sdkClosing, refused, mishaps>>

SdkDrops ==
    /\ sdk = "open" /\ Mishap
    /\ sdk' = "waiting"
    /\ CloseListener
    /\ UNCHANGED <<sdkLoop, sdkDials, sdkClosing, refused>>

(* The reconnection timer: a connected client is left as it is. *)
ProtocolTimerFires ==
    /\ sdkTimer
    /\ sdkTimer' = FALSE
    /\ IF sdk \in {"none", "open"}
       THEN UNCHANGED <<sdk, sdkDials>>
       ELSE sdk' = "opening" /\ sdkDials' = sdkDials \cup {"timer"}
    /\ UNCHANGED <<sdkLoop, sdkBlocked, sdkPolicyClose, sdkClosing, sdkQueued, refused, mishaps>>

(* close(): what waits for the client fails. *)
SdkCloses ==
    /\ ~sdkClosing
    /\ sdkClosing' = TRUE
    /\ ReleaseClient
    /\ sdkDials' = {}
    /\ sdkLoop' = IF sdkLoop.at = "dialling" THEN [sdkLoop EXCEPT !.at = "failed"] ELSE sdkLoop
    /\ UNCHANGED <<refused, mishaps>>

SdkNext ==
    \/ ClientMade \/ SdkOpens \/ DialFails \/ RetryDelayEnds
    \/ EventEnqueued \/ EventHandled \/ SdkOversizedArrives \/ SdkClosed \/ SdkDrops
    \/ ProtocolTimerFires \/ SdkCloses

(* The close event of a closed socket comes and the timer fires; a provider *)
(* that keeps being tried accepts in the end. *)
SdkProgress ==
    /\ WF_sdkVars(SdkClosed) /\ WF_sdkVars(ProtocolTimerFires)
    /\ SF_sdkVars(SdkOpens)

SdkSpec == SdkInit /\ [][SdkNext]_sdkVars /\ SdkProgress

-----------------------------------------------------------------------------
(* Properties.                                                             *)

(***************************************************************************)
(* A client that went deaf, because a frame was too large or a connection  *)
(* was lost, hears again: whatever fails on the way, somebody is about to  *)
(* reconnect it.  Not so where the SDK refused to close: the timer finds   *)
(* the client connected and leaves it blocked.                             *)
(***************************************************************************)
DeafnessEnds ==
    (sdkLoop.at = "done" /\ sdkBlocked) ~> (~sdkBlocked \/ sdkClosing \/ refused)

(***************************************************************************)
(* What DeafnessEnds rests on: while a connected client is deaf, somebody  *)
(* is about to reconnect it: the SDK, the close event it waits for, a      *)
(* handshake or the timer.  Only the SDK that refused to close leaves a    *)
(* connected client blocked.                                               *)
(***************************************************************************)
ReconnectionPending ==
    sdkTimer \/ sdk \in {"opening", "waiting"} \/ (sdk = "closing" /\ sdkPolicyClose)

SomebodyReconnects ==
    sdkLoop.at = "done" /\ sdkBlocked => ReconnectionPending \/ sdkClosing \/ refused

(***************************************************************************)
(* After close() no timer and no handshake of before brings the client     *)
(* back (sdk-client.ts, where every continuation looks at `closing').      *)
(***************************************************************************)
ClosedForGood == sdkClosing => sdk = "none" /\ ~sdkTimer /\ sdkDials = {}

(* Strengthening. *)
LoopSound ==
    /\ sdkLoop.at \in {"making", "dialling", "retrying"} => sdkLoop.attempt < SdkMaxAttempts
    /\ "loop" \in sdkDials => sdkLoop.at = "dialling"
    /\ sdkLoop.at = "done" /\ sdk = "none" => sdkClosing

BlockedSound ==
    /\ sdk = "open" /\ sdkBlocked => refused
    /\ sdk = "closing" => sdkPolicyClose

SdkInd ==
    SdkClientTypeOK /\ SomebodyReconnects /\ ClosedForGood /\ LoopSound /\ BlockedSound
===============================================================================
