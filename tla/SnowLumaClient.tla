---------------------------- MODULE SnowLumaClient ----------------------------
(***************************************************************************)
(* The OneBot WebSocket client of src/platform/snowluma/client.ts and the  *)
(* event dispatcher of transport.ts it feeds: the connection loop and its  *)
(* retries, the reconnect timer, calls waiting for their answer, and the   *)
(* two bounded queues between a frame's arrival and the event's handler.   *)
(*                                                                         *)
(* An action is one turn of the event loop: a socket's event, a timer, a   *)
(* call of the client's API, or the continuation of an await.  While the   *)
(* connection loop has a continuation to run (Resumes), only the API, the  *)
(* socket's close and other continuations may come before it.              *)
(*                                                                         *)
(* incomingGeneration is compared only with the value captured when a      *)
(* socket's listeners were installed, so it is modelled by the socket      *)
(* whose captured value is the present one.                                *)
(***************************************************************************)
EXTENDS Naturals, Sequences, FiniteSets

CONSTANTS
    MaxSockets,       \* bound on the sockets ever created
    MaxFrames,        \* bound on the frames ever accepted
    Calls,            \* API calls, each with an echo of its own
    NoCall,           \* a frame that is an event, not an answer
    MaxAttempts,      \* initialConnectMaxAttempts
    FrameLimit,       \* rawIngressQueueLimit
    EventLimit,       \* eventQueueLimit
    Close1009Throws   \* how close(1009) of the WebSocket in use may end

ASSUME ClientAssumption ==
    /\ MaxSockets \in Nat /\ MaxFrames \in Nat
    /\ MaxAttempts \in Nat \ {0}
    /\ FrameLimit \in Nat \ {0} /\ EventLimit \in Nat \ {0}
    /\ NoCall \notin Calls
    /\ Close1009Throws \subseteq BOOLEAN /\ Close1009Throws # {}

Sockets == 1..MaxSockets
NoSocket == 0
Frames == [sock : Sockets, n : 1..MaxFrames, answers : Calls \cup {NoCall}]
NoFrame == [sock |-> NoSocket, n |-> 0, answers |-> NoCall]

VARIABLES
    state,         \* readyState of each socket, or "unused"
    ws,            \* the current socket, or NoSocket
    generation,    \* the socket whose captured generation is the present one
    protoClosing,  \* protocolClosingSockets
    closing,
    loop,          \* connectionLoop: where it is, its socket, its attempt
    timer,         \* reconnectTimer is set
    after,         \* reconnectAfterConnection
    made,          \* the calls that were sent
    pending,       \* per call: the socket whose answer it awaits, or NoSocket
    queue,         \* incomingQueue
    active,        \* activeIncoming, or NoFrame
    events,        \* the dispatcher's eventQueue
    handling,      \* the event whose handler runs, or NoFrame
    arrived,       \* frames accepted so far
    \* history
    started,       \* the number of the last event whose handler was started
    established    \* the last connect() call that had to connect did succeed

connVars == <<state, ws, generation, protoClosing>>
loopVars == <<closing, loop, timer, after>>
callVars == <<made, pending>>
frameVars == <<queue, active, arrived>>
eventVars == <<events, handling, started>>
vars == <<connVars, loopVars, callVars, frameVars, eventVars, established>>

Idle == [pc |-> "none", sock |-> NoSocket, attempt |-> 0, again |-> FALSE]

ClientTypeOK ==
    /\ state \in [Sockets -> {"unused", "opening", "open", "closing", "closed"}]
    /\ ws \in Sockets \cup {NoSocket}
    /\ generation \in Sockets \cup {NoSocket}
    /\ protoClosing \subseteq Sockets
    /\ closing \in BOOLEAN /\ timer \in BOOLEAN /\ after \in BOOLEAN
    /\ loop \in [pc : {"none", "opening", "opened", "failed", "retrying", "won", "lost"},
                 sock : Sockets \cup {NoSocket}, attempt : 0..MaxAttempts - 1, again : BOOLEAN]
    /\ made \subseteq Calls /\ pending \in [Calls -> Sockets \cup {NoSocket}]
    /\ queue \in Seq(Frames) /\ events \in Seq(Frames)
    /\ active \in Frames \cup {NoFrame} /\ handling \in Frames \cup {NoFrame}
    /\ arrived \in 0..MaxFrames /\ started \in 0..MaxFrames
    /\ established \in BOOLEAN

Init ==
    /\ state = [s \in Sockets |-> "unused"]
    /\ ws = NoSocket /\ generation = NoSocket /\ protoClosing = {}
    /\ closing = FALSE /\ loop = Idle /\ timer = FALSE /\ after = FALSE
    /\ made = {} /\ pending = [c \in Calls |-> NoSocket]
    /\ queue = <<>> /\ active = NoFrame /\ arrived = 0
    /\ events = <<>> /\ handling = NoFrame /\ started = 0
    /\ established = FALSE

-----------------------------------------------------------------------------
(* What several handlers share.                                            *)

(* isConnected, and what call() asks before it sends. *)
Connected == ws # NoSocket /\ state[ws] = "open" /\ ws \notin protoClosing

(* The socket's frames are still this connection's: isCurrentFrame. *)
IsCurrent(s) ==
    ~closing /\ ws = s /\ generation = s /\ s \notin protoClosing

Resumes == loop.pc \in {"opened", "failed", "won", "lost"}

(* A mutant: the events of the retired connection stay queued. *)
ResetFrames ==
    /\ generation' = NoSocket
    /\ queue' = <<>>
    /\ UNCHANGED <<events, active, arrived, handling, started>>

(* resetConnectionQueues; the frame and the event in hand are not recalled. *)
ResetQueues ==
    /\ generation' = NoSocket
    /\ queue' = <<>> /\ events' = <<>>
    /\ UNCHANGED <<active, arrived, handling, started>>

RejectPending == pending' = [c \in Calls |-> NoSocket] /\ UNCHANGED made

(* A mutant: no note for the connection loop that is running. *)
ScheduleUnlessLooping ==
    IF timer \/ closing \/ loop.pc # "none" THEN UNCHANGED <<timer, after>>
    ELSE timer' = TRUE /\ UNCHANGED after

(* scheduleReconnect, with options.reconnect. *)
ScheduleReconnect ==
    IF timer \/ closing THEN UNCHANGED <<timer, after>>
    ELSE IF loop.pc # "none" THEN after' = TRUE /\ UNCHANGED timer
    ELSE timer' = TRUE /\ UNCHANGED after

-----------------------------------------------------------------------------
(* Opening: connect(), connectWithRetries and openSocket.                  *)

(* openSocket up to its await: the new socket replaces the current one. *)
OpenSocket(attempt, again) ==
    /\ timer' = FALSE
    /\ \E s \in Sockets :
        /\ state[s] = "unused" /\ \A r \in 1..s - 1 : state[r] # "unused"
        /\ state' = [r \in Sockets |->
                        IF r = s THEN "opening"
                        ELSE IF r = ws /\ state[r] \in {"opening", "open"} THEN "closing"
                        ELSE state[r]]
        /\ ws' = s /\ generation' = s
        /\ loop' = [pc |-> "opening", sock |-> s, attempt |-> attempt, again |-> again]
    /\ queue' = <<>> /\ events' = <<>>
    /\ IF ws # NoSocket THEN RejectPending ELSE UNCHANGED callVars
    /\ UNCHANGED <<protoClosing, active, arrived, handling, started>>

(* webSocketFactory throws: the attempt fails before anything changed. *)
FactoryThrows(attempt, again) ==
    /\ timer' = FALSE
    /\ loop' = [pc |-> "failed", sock |-> NoSocket, attempt |-> attempt, again |-> again]
    /\ UNCHANGED <<connVars, callVars, frameVars, eventVars>>

Attempt(attempt, again) == OpenSocket(attempt, again) \/ FactoryThrows(attempt, again)

(* connect(): it joins a loop that runs. *)
Connect ==
    /\ closing' = FALSE /\ after' = FALSE
    /\ established' = (established /\ Connected)
    /\ IF Connected \/ loop.pc # "none"
       THEN UNCHANGED <<connVars, loop, timer, callVars, frameVars, eventVars>>
       ELSE Attempt(0, FALSE)

ReconnectTimer ==
    /\ timer /\ ~Resumes
    /\ IF closing \/ Connected
       THEN timer' = FALSE /\ UNCHANGED <<connVars, loop, callVars, frameVars, eventVars>>
       ELSE Attempt(0, TRUE)
    /\ UNCHANGED <<closing, after, established>>

RetryTimer ==
    /\ loop.pc = "retrying"
    /\ Attempt(loop.attempt + 1, loop.again)
    /\ UNCHANGED <<closing, after, established>>

(* The open event: finishOpen. *)
SocketOpens(s) ==
    /\ state[s] = "opening" /\ ~Resumes
    /\ state' = [state EXCEPT ![s] = "open"]
    /\ IF loop.pc = "opening" /\ loop.sock = s
       THEN loop' = [loop EXCEPT !.pc = "opened"] /\ established' = TRUE
       ELSE UNCHANGED <<loop, established>>
    /\ UNCHANGED <<ws, generation, protoClosing, closing, timer, after, callVars, frameVars, eventVars>>

(* The connection timeout, or the socket's error event. *)
HandshakeFails ==
    /\ loop.pc = "opening"
    /\ loop' = [loop EXCEPT !.pc = "failed"]
    /\ UNCHANGED <<connVars, closing, timer, after, callVars, frameVars, eventVars, established>>

(* A mutant: the failed socket is no longer current but is not closed. *)
ForgetFailedSocket(s) ==
    /\ state' = state
    /\ IF s # NoSocket /\ ws = s
       THEN ws' = NoSocket /\ ResetQueues
       ELSE UNCHANGED <<ws, generation, frameVars, eventVars>>

(* The socket that failed to open is given up. *)
DropFailedSocket(s) ==
    /\ state' = IF s # NoSocket /\ state[s] # "closed"
                THEN [state EXCEPT ![s] = "closing"] ELSE state
    /\ IF s # NoSocket /\ ws = s
       THEN ws' = NoSocket /\ ResetQueues
       ELSE UNCHANGED <<ws, generation, frameVars, eventVars>>

NextAttempt ==
    loop' = [loop EXCEPT !.pc = IF closing \/ loop.attempt + 1 >= MaxAttempts
                                THEN "lost" ELSE "retrying"]

(* connectWithRetries after the await of openSocket. *)
LoopContinues ==
    /\ \/ /\ loop.pc = "opened"
          /\ IF Connected THEN loop' = [loop EXCEPT !.pc = "won"] ELSE NextAttempt
          /\ UNCHANGED <<connVars, frameVars, eventVars>>
       \/ /\ loop.pc = "failed"
          /\ DropFailedSocket(loop.sock)
          /\ NextAttempt
          /\ UNCHANGED protoClosing
    /\ UNCHANGED <<closing, timer, after, callVars, established>>

(* startConnectionLoop's observer: connectionLoop is null again here. *)
LoopEnds ==
    /\ loop.pc \in {"won", "lost"}
    /\ loop' = Idle
    /\ after' = FALSE
    /\ LET again == after \/ (loop.pc = "lost" /\ loop.again /\ ~closing)
       IN  timer' = (timer \/ (again /\ ~closing /\ ~Connected))
    /\ UNCHANGED <<connVars, closing, callVars, frameVars, eventVars, established>>

-----------------------------------------------------------------------------
(* The life of a connection.                                               *)

(* The close event; only the current socket's is heeded. *)
SocketCloses(s) ==
    /\ state[s] \in {"opening", "open", "closing"}
    /\ state' = [state EXCEPT ![s] = "closed"]
    /\ IF ws # s
       THEN UNCHANGED <<ws, generation, loopVars, callVars, frameVars, eventVars>>
       ELSE /\ ws' = NoSocket
            /\ ResetQueues
            /\ RejectPending
            /\ IF loop.sock = s /\ loop.pc \in {"opening", "failed"}
               THEN loop' = [loop EXCEPT !.pc = "failed"] /\ UNCHANGED <<timer, after>>
               ELSE ScheduleReconnect /\ UNCHANGED loop
            /\ UNCHANGED closing
    /\ UNCHANGED <<protoClosing, established>>

(* call(): refused unless connected, otherwise sent on the current socket. *)
CallSends(c) ==
    /\ c \notin made /\ Connected
    /\ made' = made \cup {c}
    /\ pending' = [pending EXCEPT ![c] = ws]
    /\ UNCHANGED <<connVars, loopVars, frameVars, eventVars, established>>

CallTimesOut(c) ==
    /\ pending[c] # NoSocket /\ ~Resumes
    /\ pending' = [pending EXCEPT ![c] = NoSocket]
    /\ UNCHANGED <<made, connVars, loopVars, frameVars, eventVars, established>>

(* close(): the loop's await, if any, is rejected. *)
Close ==
    /\ closing' = TRUE /\ after' = FALSE /\ timer' = FALSE
    /\ loop' = [loop EXCEPT !.pc = CASE loop.pc = "retrying" -> "lost"
                                     [] loop.pc = "opening" -> "failed"
                                     [] OTHER -> loop.pc]
    /\ ResetQueues
    /\ RejectPending
    /\ ws' = NoSocket
    /\ state' = [s \in Sockets |-> IF s = ws /\ state[s] \in {"opening", "open"}
                                   THEN "closing" ELSE state[s]]
    /\ established' = FALSE
    /\ UNCHANGED protoClosing

-----------------------------------------------------------------------------
(* From a frame to the handler of its event.                               *)

Retained == Len(queue) + (IF active = NoFrame THEN 0 ELSE 1)
HasRoom == Retained < FrameLimit

(* A frame of acceptable size: the drain, if idle, takes it at once. *)
FrameArrives(s, answers) ==
    /\ state[s] = "open" /\ IsCurrent(s) /\ ~Resumes
    /\ HasRoom /\ arrived < MaxFrames
    /\ arrived' = arrived + 1
    /\ LET f == [sock |-> s, n |-> arrived + 1, answers |-> answers]
       IN  IF active = NoFrame THEN active' = f /\ UNCHANGED queue
                               ELSE queue' = Append(queue, f) /\ UNCHANGED active
    /\ UNCHANGED <<connVars, loopVars, callVars, eventVars, established>>

(* A frame above maxFrameBytes: closeForOversizedFrame. *)
OversizedArrives(s) ==
    /\ state[s] = "open" /\ IsCurrent(s) /\ ~Resumes
    /\ protoClosing' = protoClosing \cup {s}
    /\ ResetQueues
    /\ RejectPending
    /\ \E throws \in Close1009Throws :
        IF throws
        THEN ws' = NoSocket /\ ScheduleReconnect /\ UNCHANGED state
        ELSE state' = [state EXCEPT ![s] = "closing"] /\ UNCHANGED <<ws, timer, after>>
    /\ UNCHANGED <<closing, loop, established>>

(* The dispatcher starts a handler at once when none runs, else it queues. *)
Enqueue(f) ==
    IF handling = NoFrame
    THEN handling' = f /\ started' = f.n /\ UNCHANGED events
    ELSE /\ events' = IF Len(events) < EventLimit THEN Append(events, f) ELSE events
         /\ UNCHANGED <<handling, started>>

(* handleMessage after the payload was read; the drain takes the next frame. *)
FrameHandled ==
    /\ active # NoFrame
    /\ active' = IF queue = <<>> THEN NoFrame ELSE Head(queue)
    /\ queue' = IF queue = <<>> THEN queue ELSE Tail(queue)
    /\ CASE ~IsCurrent(active.sock) -> UNCHANGED <<callVars, eventVars>>
         [] IsCurrent(active.sock) /\ active.answers = NoCall -> Enqueue(active) /\ UNCHANGED callVars
         [] OTHER -> /\ pending' = [pending EXCEPT ![active.answers] = NoSocket]
                     /\ UNCHANGED <<made, eventVars>>
    /\ UNCHANGED <<connVars, loopVars, arrived, established>>

(* The event handler's promise settles; the drain takes the next event. *)
HandlerEnds ==
    /\ handling # NoFrame
    /\ IF events = <<>>
       THEN handling' = NoFrame /\ UNCHANGED <<events, started>>
       ELSE handling' = Head(events) /\ events' = Tail(events) /\ started' = Head(events).n
    /\ UNCHANGED <<connVars, loopVars, callVars, frameVars, established>>

-----------------------------------------------------------------------------
Next ==
    \/ Connect \/ Close
    \/ ReconnectTimer \/ RetryTimer
    \/ HandshakeFails \/ LoopContinues \/ LoopEnds
    \/ \E s \in Sockets : SocketOpens(s) \/ SocketCloses(s) \/ OversizedArrives(s)
    \/ \E c \in Calls : CallSends(c) \/ CallTimesOut(c)
    \/ \E s \in Sockets, a \in Calls \cup {NoCall} : FrameArrives(s, a)
    \/ FrameHandled \/ HandlerEnds

Spec == Init /\ [][Next]_vars

-----------------------------------------------------------------------------
(***************************************************************************)
(* Properties.                                                             *)
(***************************************************************************)

(* A connection that was established and lost is never given up: until     *)
(* close() or a new connect(), something will still bring it back: the     *)
(* loop, the reconnect timer, or the close event of a socket being closed. *)
RecoveryPending ==
    established /\ ~Connected =>
        \/ loop.pc # "none"
        \/ timer
        \/ ws # NoSocket /\ state[ws] = "closing"

(* Reconnecting leaks no connection: only the current socket is opening or *)
(* open, an oversized sender aside.                                        *)
OneLiveSocket ==
    \A s \in Sockets : state[s] \in {"opening", "open"} => s = ws \/ s \in protoClosing

(* An event handler starts only for an event of the present connection,    *)
(* in the order of arrival, however many awaits lie between.               *)
FreshEventsInOrder ==
    [][started' # started =>
        /\ handling'.sock = ws /\ ws \notin protoClosing /\ ~closing
        /\ started' > started]_vars

(***************************************************************************)
(* Strengthening.                                                          *)
(***************************************************************************)

(* A timer waits for no loop; close() ends both and what it was to keep.   *)
LoopCoherent ==
    /\ timer => loop.pc = "none"
    /\ closing => ~established /\ loop.pc \notin {"opening", "retrying"}
    /\ loop.pc = "retrying" => loop.attempt + 1 < MaxAttempts

(* What opens is the current socket and the loop's; what is connected      *)
(* leaves the loop nothing to do; a socket is oversized only once open.    *)
SocketsCoherent ==
    /\ \A s \in Sockets : state[s] = "opening" =>
          s = ws /\ loop.sock = s /\ loop.pc \in {"opening", "failed"}
    /\ loop.pc = "opening" => ws # NoSocket /\ loop.sock = ws /\ state[ws] = "opening"
    /\ \A s \in protoClosing : state[s] \notin {"unused", "opening"}
    /\ Connected => loop.pc \in {"none", "opened", "won"}

(* A loop that ends without a connection that was lost meanwhile knows     *)
(* that it has to come back.                                               *)
LoopWillReturn ==
    established /\ ~Connected /\ loop.pc # "none" =>
        after \/ (loop.again /\ loop.pc \notin {"opened", "won"})

Ascending(q) == \A i, j \in 1..Len(q) : i < j => q[i].n < q[j].n
Between(low, q, high) == \A i \in 1..Len(q) : low < q[i].n /\ q[i].n <= high

(* Started, queued events, the frame in hand and queued frames ascend.     *)
FramesOrdered ==
    /\ Ascending(events) /\ Ascending(queue)
    /\ started <= arrived /\ Between(started, events, arrived)
    /\ IF active = NoFrame THEN queue = <<>>
       ELSE /\ started < active.n /\ active.n <= arrived
            /\ Between(started, events, active.n - 1)
            /\ Between(active.n, queue, arrived)

(* Events that wait are of the present connection. *)
EventsFresh ==
    /\ \A i \in 1..Len(events) : IsCurrent(events[i].sock)
    /\ handling = NoFrame => events = <<>>

ClientIndInv ==
    /\ ClientTypeOK /\ LoopCoherent /\ SocketsCoherent
    /\ OneLiveSocket /\ LoopWillReturn /\ RecoveryPending
    /\ FramesOrdered /\ EventsFresh
=============================================================================
