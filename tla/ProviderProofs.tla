---------------------------- MODULE ProviderProofs ----------------------------
(***************************************************************************)
(* Proofs about what stands between Guardian and the network: the native   *)
(* client (SnowLumaClient), the supervisor that falls back from it         *)
(* (Standalone), the client it falls back to (SdkClient), the port         *)
(* everything calls through (OneBotPort) and guarded outbound HTTP         *)
(* (SafeFetch).                                                            *)
(***************************************************************************)
EXTENDS SnowLumaClient, Standalone, SdkClient, OneBotPort, SafeFetch,
        FiniteSetTheorems, TLAPS

-----------------------------------------------------------------------------
(***************************************************************************)
(* SnowLumaClient, for any number of sockets, frames, calls and attempts,  *)
(* any queue limits, and whatever close(1009) does.                        *)
(***************************************************************************)
Loops == [pc : {"none", "opening", "opened", "failed", "retrying", "won", "lost"},
          sock : Sockets \cup {NoSocket}, attempt : 0..MaxAttempts - 1, again : BOOLEAN]

Recovering ==
    /\ LoopCoherent /\ SocketsCoherent
    /\ OneLiveSocket /\ LoopWillReturn /\ RecoveryPending

(* What a step does to the loop, field by field. *)
LEMMA LoopMoved ==
    ASSUME NEW l \in Loops, NEW p \in {"none", "opening", "opened", "failed", "retrying", "won", "lost"}
    PROVE  LET m == [l EXCEPT !.pc = p]
           IN  m \in Loops /\ m.pc = p /\ m.sock = l.sock /\ m.attempt = l.attempt /\ m.again = l.again
BY DEF Loops

(***************************************************************************)
(* Steps that concern calls, frames and events only.                       *)
(***************************************************************************)
LEMMA RecoveringUnchanged ==
    ASSUME Recovering, UNCHANGED <<state, ws, protoClosing, loopVars, established>>
    PROVE  Recovering'
BY DEF Recovering, LoopCoherent, SocketsCoherent, OneLiveSocket, LoopWillReturn,
       RecoveryPending, Connected, loopVars

(***************************************************************************)
(* The connection.                                                         *)
(***************************************************************************)

(* What steps of the connection do to the types: queues are emptied or left. *)
LEMMA ConnectionTypes ==
    ASSUME ClientTypeOK,
           state' \in [Sockets -> {"unused", "opening", "open", "closing", "closed"}],
           ws' \in Sockets \cup {NoSocket}, generation' \in Sockets \cup {NoSocket},
           protoClosing' \subseteq Sockets, loop' \in Loops,
           closing' \in BOOLEAN, timer' \in BOOLEAN, after' \in BOOLEAN, established' \in BOOLEAN,
           pending' \in [Calls -> Sockets \cup {NoSocket}],
           queue' \in {queue, <<>>}, events' \in {events, <<>>},
           UNCHANGED <<made, active, arrived, handling, started>>
    PROVE  ClientTypeOK'
<1>1. <<>> \in Seq(Frames)
    OBVIOUS
<1>2. queue \in Seq(Frames) /\ events \in Seq(Frames)
    BY DEF ClientTypeOK
<1>3. queue' \in Seq(Frames) /\ events' \in Seq(Frames)
    BY <1>1, <1>2
<1>4. /\ made' \subseteq Calls /\ active' \in Frames \cup {NoFrame} /\ handling' \in Frames \cup {NoFrame}
      /\ arrived' \in 0..MaxFrames /\ started' \in 0..MaxFrames
    BY DEF ClientTypeOK
<1> QED
    BY <1>3, <1>4 DEF ClientTypeOK, Loops

LEMMA NoPending == [c \in Calls |-> NoSocket] \in [Calls -> Sockets \cup {NoSocket}]
OBVIOUS

LEMMA AttemptTypes ==
    ASSUME ClientTypeOK, NEW n \in 0..MaxAttempts - 1, NEW again \in BOOLEAN, Attempt(n, again),
           closing' \in BOOLEAN, after' \in BOOLEAN, established' \in BOOLEAN
    PROVE  ClientTypeOK'
<1> USE ClientAssumption DEF Sockets, NoSocket
<1>1. CASE OpenSocket(n, again)
    <2>1. PICK s \in Sockets :
            /\ state' = [r \in Sockets |->
                        IF r = s THEN "opening"
                        ELSE IF r = ws /\ state[r] \in {"opening", "open"} THEN "closing"
                        ELSE state[r]]
            /\ ws' = s /\ generation' = s
            /\ loop' = [pc |-> "opening", sock |-> s, attempt |-> n, again |-> again]
        BY <1>1 DEF OpenSocket
    <2>2. /\ timer' = FALSE /\ queue' = <<>> /\ events' = <<>>
          /\ UNCHANGED <<protoClosing, active, arrived, handling, started, made>>
          /\ pending' = pending \/ pending' = [c \in Calls |-> NoSocket]
        BY <1>1 DEF OpenSocket, RejectPending, callVars
    <2>3. loop' \in Loops
        BY <2>1 DEF Loops
    <2>4. state' \in [Sockets -> {"unused", "opening", "open", "closing", "closed"}]
        BY <2>1 DEF ClientTypeOK
    <2>5. pending' \in [Calls -> Sockets \cup {NoSocket}]
        BY <2>2 DEF ClientTypeOK
    <2>6. /\ ws' \in Sockets \cup {NoSocket} /\ generation' \in Sockets \cup {NoSocket}
          /\ protoClosing' \subseteq Sockets /\ timer' \in BOOLEAN
        BY <2>1, <2>2 DEF ClientTypeOK
    <2> QED
        BY <2>2, <2>3, <2>4, <2>5, <2>6, ConnectionTypes
<1>2. CASE FactoryThrows(n, again)
    BY <1>2 DEF FactoryThrows, ClientTypeOK, connVars, callVars, frameVars, eventVars
<1> QED
    BY <1>1, <1>2 DEF Attempt

(* A new attempt, made while nothing is connected or opening. *)
LEMMA AttemptRecovers ==
    ASSUME ClientTypeOK, Recovering, NEW n \in 0..MaxAttempts - 1, NEW again \in BOOLEAN,
           Attempt(n, again), ~Connected, loop.pc \in {"none", "retrying"}, ~closing',
           established' => (established /\ (after' \/ again))
    PROVE  Recovering'
<1> USE ClientAssumption DEF Sockets, NoSocket
<1>1. CASE OpenSocket(n, again)
    <2>1. PICK s \in Sockets :
            /\ state[s] = "unused"
            /\ state' = [r \in Sockets |->
                        IF r = s THEN "opening"
                        ELSE IF r = ws /\ state[r] \in {"opening", "open"} THEN "closing"
                        ELSE state[r]]
            /\ ws' = s
            /\ loop' = [pc |-> "opening", sock |-> s, attempt |-> n, again |-> again]
        BY <1>1 DEF OpenSocket
    <2>2. timer' = FALSE /\ protoClosing' = protoClosing
        BY <1>1 DEF OpenSocket
    <2>3. LoopCoherent'
        BY <2>1, <2>2 DEF LoopCoherent
    <2>4. OneLiveSocket'
        BY <2>1, <2>2 DEF Recovering, OneLiveSocket, ClientTypeOK
    <2>5. SocketsCoherent'
        BY <2>1, <2>2 DEF Recovering, SocketsCoherent, ClientTypeOK, Connected
    <2>6. LoopWillReturn' /\ RecoveryPending'
        BY <2>1, <2>2 DEF LoopWillReturn, RecoveryPending, ClientTypeOK
    <2> QED
        BY <2>3, <2>4, <2>5, <2>6 DEF Recovering
<1>2. CASE FactoryThrows(n, again)
    <2>1. /\ loop' = [pc |-> "failed", sock |-> NoSocket, attempt |-> n, again |-> again]
          /\ timer' = FALSE /\ UNCHANGED <<state, ws, protoClosing>>
        BY <1>2 DEF FactoryThrows, connVars
    <2>2. LoopCoherent' /\ LoopWillReturn' /\ RecoveryPending'
        BY <2>1 DEF LoopCoherent, LoopWillReturn, RecoveryPending
    <2>3. OneLiveSocket' /\ SocketsCoherent'
        BY <2>1 DEF Recovering, OneLiveSocket, SocketsCoherent, Connected
    <2> QED
        BY <2>2, <2>3 DEF Recovering
<1> QED
    BY <1>1, <1>2 DEF Attempt

LEMMA ConnectStep ==
    ASSUME ClientTypeOK, Recovering, Connect
    PROVE  ClientTypeOK' /\ Recovering'
<1> USE ClientAssumption
<1>1. closing' = FALSE /\ after' = FALSE /\ established' = (established /\ Connected)
    BY DEF Connect
<1>2. CASE Connected \/ loop.pc # "none"
    <2>1. UNCHANGED <<connVars, loop, timer, callVars, frameVars, eventVars>>
        BY <1>2 DEF Connect
    <2>2. ClientTypeOK'
        BY <1>1, <2>1 DEF ClientTypeOK, connVars, callVars, frameVars, eventVars
    <2>3. Connected' = Connected /\ UNCHANGED <<state, ws, protoClosing, loop, timer>>
        BY <2>1 DEF Connected, connVars
    <2>4. Recovering'
        BY <1>1, <2>3 DEF Recovering, LoopCoherent, SocketsCoherent, OneLiveSocket, LoopWillReturn,
                          RecoveryPending
    <2> QED
        BY <2>2, <2>4
<1>3. CASE ~(Connected \/ loop.pc # "none")
    <2>0. 0 \in 0..MaxAttempts - 1 /\ FALSE \in BOOLEAN
        OBVIOUS
    <2>1. Attempt(0, FALSE)
        BY <1>3, Zenon DEF Connect
    <2>2. established' = FALSE
        BY <1>1, <1>3
    <2>3. ClientTypeOK'
        BY <1>1, <2>0, <2>1, <2>2, AttemptTypes
    <2>4. Recovering'
        BY <1>1, <1>3, <2>0, <2>1, <2>2, AttemptRecovers
    <2> QED
        BY <2>3, <2>4
<1> QED
    BY <1>2, <1>3

LEMMA ReconnectTimerStep ==
    ASSUME ClientTypeOK, Recovering, ReconnectTimer
    PROVE  ClientTypeOK' /\ Recovering'
<1> USE ClientAssumption
<1>1. timer /\ UNCHANGED <<closing, after, established>>
    BY DEF ReconnectTimer
<1> DEFINE Gone == closing \/ Connected
<1>a. IF Gone
      THEN timer' = FALSE /\ UNCHANGED <<connVars, loop, callVars, frameVars, eventVars>>
      ELSE Attempt(0, TRUE)
    BY Zenon DEF ReconnectTimer
<1>2. CASE closing \/ Connected
    <2>1. timer' = FALSE /\ UNCHANGED <<connVars, loop, callVars, frameVars, eventVars>>
        BY <1>2, <1>a, Zenon
    <2>2. ClientTypeOK'
        <3>1. /\ UNCHANGED <<state, ws, generation, protoClosing, pending, queue, events, loop>>
              /\ UNCHANGED <<made, active, arrived, handling, started>>
            BY <2>1 DEF connVars, callVars, frameVars, eventVars
        <3>2. timer' \in BOOLEAN /\ closing' \in BOOLEAN /\ after' \in BOOLEAN /\ established' \in BOOLEAN
            BY <1>1, <2>1 DEF ClientTypeOK
        <3> QED
            BY <3>1, <3>2, ConnectionTypes DEF ClientTypeOK, Loops
    <2>3. Connected' = Connected /\ UNCHANGED <<state, ws, protoClosing, loop>>
        BY <2>1 DEF Connected, connVars
    <2>4. LoopCoherent' /\ SocketsCoherent' /\ OneLiveSocket'
        BY <1>1, <2>1, <2>3 DEF Recovering, LoopCoherent, SocketsCoherent, OneLiveSocket
    <2>5. ~established' \/ Connected'
        BY <1>1, <1>2, <2>3 DEF Recovering, LoopCoherent
    <2>6. LoopWillReturn' /\ RecoveryPending'
        BY <2>5 DEF LoopWillReturn, RecoveryPending
    <2> QED
        BY <2>2, <2>4, <2>6 DEF Recovering
<1>3. CASE ~(closing \/ Connected)
    <2>0. 0 \in 0..MaxAttempts - 1 /\ TRUE \in BOOLEAN
        OBVIOUS
    <2>1. Attempt(0, TRUE)
        BY <1>3, <1>a, Zenon
    <2>2. loop.pc = "none"
        BY <1>1 DEF Recovering, LoopCoherent
    <2>3. closing' \in BOOLEAN /\ after' \in BOOLEAN /\ established' \in BOOLEAN
        BY <1>1 DEF ClientTypeOK
    <2>4. ClientTypeOK'
        BY <2>0, <2>1, <2>3, AttemptTypes
    <2>5. Recovering'
        BY <1>1, <1>3, <2>0, <2>1, <2>2, AttemptRecovers
    <2> QED
        BY <2>4, <2>5
<1> QED
    BY <1>2, <1>3

LEMMA RetryTimerStep ==
    ASSUME ClientTypeOK, Recovering, RetryTimer
    PROVE  ClientTypeOK' /\ Recovering'
<1> USE ClientAssumption
<1>1. /\ loop.pc = "retrying" /\ Attempt(loop.attempt + 1, loop.again)
      /\ UNCHANGED <<closing, after, established>>
    BY DEF RetryTimer
<1>2. loop.attempt + 1 \in 0..MaxAttempts - 1 /\ loop.again \in BOOLEAN
    BY <1>1 DEF Recovering, LoopCoherent, ClientTypeOK
<1>3. ~Connected /\ ~closing
    BY <1>1 DEF Recovering, LoopCoherent, SocketsCoherent
<1>4. established => after \/ loop.again
    BY <1>1, <1>3 DEF Recovering, LoopWillReturn
<1>5. ClientTypeOK'
    BY <1>1, <1>2, AttemptTypes DEF ClientTypeOK
<1>6. Recovering'
    BY <1>1, <1>2, <1>3, <1>4, AttemptRecovers
<1> QED
    BY <1>5, <1>6

LEMMA SocketOpensStep ==
    ASSUME ClientTypeOK, Recovering, NEW s \in Sockets, SocketOpens(s)
    PROVE  ClientTypeOK' /\ Recovering'
<1> USE ClientAssumption DEF Sockets, NoSocket
<1>1. /\ state[s] = "opening" /\ ~Resumes
      /\ state' = [state EXCEPT ![s] = "open"]
      /\ UNCHANGED <<ws, generation, protoClosing, closing, timer, after, callVars, frameVars, eventVars>>
    BY DEF SocketOpens
<1>2. s = ws /\ loop.sock = s /\ loop.pc = "opening"
    BY <1>1 DEF Recovering, SocketsCoherent, Resumes
<1>3. loop' = [loop EXCEPT !.pc = "opened"] /\ established' = TRUE
    BY <1>2 DEF SocketOpens
<1>4. loop \in Loops
    BY DEF ClientTypeOK, Loops
<1>5. /\ loop' \in Loops /\ loop'.pc = "opened" /\ loop'.sock = s
    BY <1>2, <1>3, <1>4, LoopMoved
<1>6. ClientTypeOK'
    BY <1>1, <1>3, <1>5 DEF ClientTypeOK, callVars, frameVars, eventVars, Loops
<1>7. s \notin protoClosing
    BY <1>1 DEF Recovering, SocketsCoherent
<1>8. Connected'
    BY <1>1, <1>2, <1>7 DEF Connected, ClientTypeOK
<1>9. LoopCoherent'
    BY <1>1, <1>2, <1>3, <1>5 DEF Recovering, LoopCoherent
<1>10. SocketsCoherent' /\ OneLiveSocket'
    BY <1>1, <1>2, <1>5, <1>7 DEF Recovering, SocketsCoherent, OneLiveSocket, ClientTypeOK
<1>11. LoopWillReturn' /\ RecoveryPending'
    BY <1>8 DEF LoopWillReturn, RecoveryPending
<1> QED
    BY <1>6, <1>9, <1>10, <1>11 DEF Recovering

LEMMA HandshakeFailsStep ==
    ASSUME ClientTypeOK, Recovering, HandshakeFails
    PROVE  ClientTypeOK' /\ Recovering'
<1>1. /\ loop.pc = "opening" /\ loop' = [loop EXCEPT !.pc = "failed"]
      /\ UNCHANGED <<connVars, closing, timer, after, callVars, frameVars, eventVars, established>>
    BY DEF HandshakeFails
<1>2. loop \in Loops
    BY DEF ClientTypeOK, Loops
<1>3. /\ loop' \in Loops /\ loop'.pc = "failed" /\ loop'.sock = loop.sock /\ loop'.again = loop.again
    BY <1>1, <1>2, LoopMoved
<1>4. ClientTypeOK'
    BY <1>1, <1>3 DEF ClientTypeOK, connVars, callVars, frameVars, eventVars, Loops
<1>5. Connected' = Connected /\ UNCHANGED <<state, ws, protoClosing>>
    BY <1>1 DEF Connected, connVars
<1>6. LoopCoherent' /\ SocketsCoherent' /\ OneLiveSocket'
    BY <1>1, <1>3, <1>5 DEF Recovering, LoopCoherent, SocketsCoherent, OneLiveSocket, ClientTypeOK, Connected
<1>7. LoopWillReturn' /\ RecoveryPending'
    BY <1>1, <1>3, <1>5 DEF Recovering, LoopWillReturn, RecoveryPending
<1> QED
    BY <1>4, <1>6, <1>7 DEF Recovering

LEMMA LoopContinuesStep ==
    ASSUME ClientTypeOK, Recovering, LoopContinues
    PROVE  ClientTypeOK' /\ Recovering'
<1> USE ClientAssumption
<1>1. UNCHANGED <<protoClosing, closing, timer, after, callVars, established>> /\ loop \in Loops
    BY DEF LoopContinues, ClientTypeOK, Loops, connVars
<1>2. CASE loop.pc = "opened" /\ Connected
    <2>1. loop' = [loop EXCEPT !.pc = "won"] /\ UNCHANGED <<connVars, frameVars, eventVars>>
        BY <1>2 DEF LoopContinues
    <2>2. loop' \in Loops /\ loop'.pc = "won" /\ loop'.sock = loop.sock
        BY <1>1, <2>1, LoopMoved
    <2>3. ClientTypeOK'
        BY <1>1, <2>1, <2>2 DEF ClientTypeOK, connVars, callVars, frameVars, eventVars, Loops
    <2>4. Connected' /\ UNCHANGED <<state, ws>>
        BY <1>1, <1>2, <2>1 DEF Connected, connVars
    <2>5. LoopCoherent' /\ SocketsCoherent' /\ OneLiveSocket'
        BY <1>1, <1>2, <2>2, <2>4 DEF Recovering, LoopCoherent, SocketsCoherent, OneLiveSocket
    <2>6. LoopWillReturn' /\ RecoveryPending'
        BY <2>4 DEF LoopWillReturn, RecoveryPending
    <2> QED
        BY <2>3, <2>5, <2>6 DEF Recovering
<1>3. CASE loop.pc = "failed" \/ (loop.pc = "opened" /\ ~Connected)
    <2>1. /\ ~Connected
          /\ established => after \/ (loop.again /\ loop.pc = "failed")
        BY <1>3 DEF Recovering, SocketsCoherent, LoopWillReturn
    <2>2. NextAttempt
        BY <1>3 DEF LoopContinues
    <2> DEFINE p == IF closing \/ loop.attempt + 1 >= MaxAttempts THEN "lost" ELSE "retrying"
    <2>3. /\ p \in {"lost", "retrying"}
          /\ p = "retrying" => ~closing /\ loop.attempt + 1 < MaxAttempts
        BY <1>1 DEF Loops
    <2>a. loop' = [loop EXCEPT !.pc = p]
        BY <2>2, Zenon DEF NextAttempt
    <2>b. p \in {"none", "opening", "opened", "failed", "retrying", "won", "lost"}
        BY <2>3
    <2> HIDE DEF p
    <2>4. /\ loop' \in Loops /\ loop'.pc = p /\ loop'.sock = loop.sock
          /\ loop'.attempt = loop.attempt /\ loop'.again = loop.again
        BY <1>1, <2>a, <2>b, LoopMoved
    <2>5. /\ ws' = ws \/ ws' = NoSocket
          /\ state' \in [Sockets -> {"unused", "opening", "open", "closing", "closed"}]
          /\ \A s \in Sockets : state'[s] = state[s] \/ (s = loop.sock /\ state'[s] = "closing")
          /\ loop.pc = "opened" => ws' = ws /\ state' = state
          /\ loop.pc = "failed" /\ loop.sock # NoSocket => state'[loop.sock] \in {"closing", "closed"}
          /\ ws' # ws => loop.pc = "failed" /\ loop.sock # NoSocket /\ ws = loop.sock
        BY <1>1, <1>3, <2>1 DEF LoopContinues, DropFailedSocket, ClientTypeOK, connVars, Loops, ResetQueues
    <2>6. ClientTypeOK'
        <3>1. /\ generation' \in {generation, NoSocket}
              /\ UNCHANGED <<active, arrived, handling, started>>
              /\ queue' = queue \/ queue' = <<>>
              /\ events' = events \/ events' = <<>>
            BY <1>1, <1>3, <2>1 DEF LoopContinues, DropFailedSocket, ResetQueues, connVars, frameVars, eventVars
        <3>2. /\ ws' \in Sockets \cup {NoSocket} /\ generation' \in Sockets \cup {NoSocket}
              /\ protoClosing' \subseteq Sockets /\ pending' \in [Calls -> Sockets \cup {NoSocket}]
              /\ closing' \in BOOLEAN /\ timer' \in BOOLEAN /\ after' \in BOOLEAN
              /\ established' \in BOOLEAN /\ made' = made
            BY <1>1, <2>5, <3>1 DEF ClientTypeOK, callVars
        <3> QED
            BY <2>4, <2>5, <3>1, <3>2, ConnectionTypes
    <2>7. ~Connected'
        BY <1>1, <2>1, <2>5 DEF Connected, ClientTypeOK
    <2>8. LoopCoherent'
        BY <1>1, <1>3, <2>3, <2>4 DEF Recovering, LoopCoherent
    <2>9. SocketsCoherent'
        <3>1. ASSUME NEW s \in Sockets PROVE state'[s] # "opening"
            BY <1>3, <2>5 DEF Recovering, SocketsCoherent, Sockets, NoSocket
        <3>2. ASSUME NEW s \in protoClosing PROVE state'[s] \notin {"unused", "opening"}
            BY <2>5, <3>1 DEF Recovering, SocketsCoherent, ClientTypeOK
        <3>3. loop'.pc # "opening"
            BY <2>3, <2>4
        <3> QED
            BY <1>1, <2>7, <3>1, <3>2, <3>3 DEF SocketsCoherent
    <2>10. OneLiveSocket'
        BY <1>1, <2>5 DEF Recovering, OneLiveSocket, ClientTypeOK
    <2>11. LoopWillReturn' /\ RecoveryPending'
        BY <1>1, <2>1, <2>3, <2>4 DEF LoopWillReturn, RecoveryPending
    <2> QED
        BY <2>6, <2>8, <2>9, <2>10, <2>11 DEF Recovering
<1> QED
    BY <1>2, <1>3 DEF LoopContinues

LEMMA LoopEndsStep ==
    ASSUME ClientTypeOK, Recovering, LoopEnds
    PROVE  ClientTypeOK' /\ Recovering'
<1> USE ClientAssumption
<1>1. /\ loop.pc \in {"won", "lost"} /\ loop' = Idle /\ after' = FALSE
      /\ timer' = (timer \/ ((after \/ (loop.pc = "lost" /\ loop.again /\ ~closing)) /\ ~closing /\ ~Connected))
      /\ UNCHANGED <<connVars, closing, callVars, frameVars, eventVars, established>>
    BY DEF LoopEnds
<1>2. /\ loop' \in Loops /\ loop'.pc = "none"
    BY <1>1 DEF Loops, Idle, NoSocket
<1>3. timer' \in BOOLEAN
    BY <1>1 DEF ClientTypeOK
<1>4. ClientTypeOK'
    BY <1>1, <1>2, <1>3 DEF ClientTypeOK, connVars, callVars, frameVars, eventVars, Loops
<1>5. Connected' = Connected /\ UNCHANGED <<state, ws, protoClosing>>
    BY <1>1 DEF Connected, connVars
<1>6. LoopCoherent' /\ SocketsCoherent' /\ OneLiveSocket'
    BY <1>1, <1>2, <1>5 DEF Recovering, LoopCoherent, SocketsCoherent, OneLiveSocket
<1>7. RecoveryPending'
    <2>1. CASE established /\ ~Connected
        <3>1. ~closing /\ (after \/ (loop.again /\ loop.pc = "lost"))
            BY <1>1, <2>1 DEF Recovering, LoopCoherent, LoopWillReturn
        <3> QED
            BY <1>1, <2>1, <3>1 DEF RecoveryPending
    <2>2. CASE ~(established /\ ~Connected)
        BY <1>1, <1>5, <2>2 DEF RecoveryPending
    <2> QED
        BY <2>1, <2>2
<1>8. LoopWillReturn'
    BY <1>2 DEF LoopWillReturn
<1> QED
    BY <1>4, <1>6, <1>7, <1>8 DEF Recovering

LEMMA SocketClosesStep ==
    ASSUME ClientTypeOK, Recovering, NEW s \in Sockets, SocketCloses(s)
    PROVE  ClientTypeOK' /\ Recovering'
<1> USE ClientAssumption
<1>1. /\ state[s] \in {"opening", "open", "closing"}
      /\ state' = [state EXCEPT ![s] = "closed"]
      /\ UNCHANGED <<protoClosing, established>> /\ loop \in Loops
    BY DEF SocketCloses, ClientTypeOK, Loops
<1>2. CASE ws # s
    <2>1. UNCHANGED <<ws, generation, loopVars, callVars, frameVars, eventVars>>
        BY <1>2 DEF SocketCloses
    <2>2. ClientTypeOK'
        BY <1>1, <2>1 DEF ClientTypeOK, loopVars, callVars, frameVars, eventVars
    <2>3. ws # NoSocket => state'[ws] = state[ws]
        BY <1>1, <1>2 DEF ClientTypeOK
    <2>4. Connected' = Connected
        BY <1>1, <2>1, <2>3 DEF Connected
    <2>5. \A r \in Sockets : state'[r] = state[r] \/ (r = s /\ state'[r] = "closed")
        BY <1>1 DEF ClientTypeOK
    <2>6. LoopCoherent' /\ SocketsCoherent' /\ OneLiveSocket'
        BY <1>1, <2>1, <2>3, <2>4, <2>5 DEF Recovering, LoopCoherent, SocketsCoherent, OneLiveSocket, loopVars, ClientTypeOK
    <2>7. LoopWillReturn' /\ RecoveryPending'
        BY <1>1, <2>1, <2>3, <2>4 DEF Recovering, LoopWillReturn, RecoveryPending, loopVars
    <2> QED
        BY <2>2, <2>6, <2>7 DEF Recovering
<1>3. CASE ws = s
    <2>1. /\ ws' = NoSocket /\ closing' = closing /\ ~Connected'
          /\ generation' = NoSocket /\ queue' = <<>> /\ events' = <<>>
          /\ UNCHANGED <<active, arrived, handling, started, made>>
          /\ pending' = [c \in Calls |-> NoSocket]
        BY <1>3 DEF SocketCloses, ResetQueues, RejectPending, Connected
    <2>2. OneLiveSocket'
        BY <1>1, <1>3, <2>1 DEF Recovering, OneLiveSocket, ClientTypeOK
    <2>3. state' \in [Sockets -> {"unused", "opening", "open", "closing", "closed"}]
        BY <1>1 DEF ClientTypeOK
    <2>4. CASE loop.sock = s /\ loop.pc \in {"opening", "failed"}
        <3>1. loop' = [loop EXCEPT !.pc = "failed"] /\ UNCHANGED <<timer, after>>
            BY <1>3, <2>4 DEF SocketCloses
        <3>2. /\ loop' \in Loops /\ loop'.pc = "failed" /\ loop'.sock = s /\ loop'.again = loop.again
            BY <1>1, <2>4, <3>1, LoopMoved
        <3>3. ClientTypeOK'
            BY <1>1, <2>1, <2>3, <3>1, <3>2 DEF ClientTypeOK, Loops
        <3>4. LoopCoherent'
            BY <1>1, <2>1, <2>4, <3>1, <3>2 DEF Recovering, LoopCoherent
        <3>5. SocketsCoherent'
            BY <1>1, <1>3, <2>1, <3>2 DEF Recovering, SocketsCoherent, ClientTypeOK
        <3>6. ~Connected
            BY <2>4 DEF Recovering, SocketsCoherent
        <3>7. LoopWillReturn' /\ RecoveryPending'
            BY <1>1, <2>4, <3>1, <3>2, <3>6 DEF Recovering, LoopWillReturn, RecoveryPending
        <3> QED
            BY <2>2, <3>3, <3>4, <3>5, <3>7 DEF Recovering
    <2>5. CASE ~(loop.sock = s /\ loop.pc \in {"opening", "failed"})
        <3>1. ScheduleReconnect /\ loop' = loop
            BY <1>3, <2>5 DEF SocketCloses
        <3>2. ClientTypeOK'
            <4>1. timer' \in BOOLEAN /\ after' \in BOOLEAN
                BY <3>1 DEF ClientTypeOK, ScheduleReconnect
            <4>2. /\ protoClosing' \subseteq Sockets /\ closing' \in BOOLEAN /\ established' \in BOOLEAN
                BY <1>1, <2>1 DEF ClientTypeOK
            <4> QED
                BY <1>1, <2>1, <2>3, <3>1, <4>1, <4>2, ConnectionTypes, NoPending
        <3>3. LoopCoherent'
            BY <1>1, <2>1, <3>1 DEF Recovering, LoopCoherent, ScheduleReconnect
        <3>4. loop.pc # "opening"
            BY <1>3, <2>5 DEF Recovering, SocketsCoherent
        <3>5. SocketsCoherent'
            BY <1>1, <1>3, <2>1, <3>1, <3>4 DEF Recovering, SocketsCoherent, ClientTypeOK
        <3>6. ASSUME established PROVE IF loop.pc = "none" THEN timer' ELSE after'
            BY <3>1, <3>6 DEF Recovering, LoopCoherent, ScheduleReconnect
        <3>7. LoopWillReturn' /\ RecoveryPending'
            BY <1>1, <3>1, <3>6 DEF LoopWillReturn, RecoveryPending
        <3> QED
            BY <2>2, <3>2, <3>3, <3>5, <3>7 DEF Recovering
    <2> QED
        BY <2>4, <2>5
<1> QED
    BY <1>2, <1>3

LEMMA CloseStep ==
    ASSUME ClientTypeOK, Recovering, Close
    PROVE  ClientTypeOK' /\ Recovering'
<1> USE ClientAssumption DEF Sockets, NoSocket
<1>1. /\ closing' = TRUE /\ after' = FALSE /\ timer' = FALSE /\ established' = FALSE
      /\ ws' = NoSocket /\ protoClosing' = protoClosing
      /\ state' = [s \in Sockets |-> IF s = ws /\ state[s] \in {"opening", "open"}
                                     THEN "closing" ELSE state[s]]
    BY DEF Close
<1>2. /\ generation' = NoSocket /\ queue' = <<>> /\ events' = <<>>
      /\ UNCHANGED <<active, arrived, handling, started, made>>
      /\ pending' = [c \in Calls |-> NoSocket]
    BY DEF Close, ResetQueues, RejectPending
<1>3. loop \in Loops
    BY DEF ClientTypeOK, Loops
<1>4. PICK p \in {"none", "opened", "failed", "won", "lost"} : loop' = [loop EXCEPT !.pc = p]
    BY <1>3 DEF Close, Loops
<1>5. loop' \in Loops /\ loop'.pc = p
    BY <1>3, <1>4 DEF Loops
<1>6. ClientTypeOK'
    <2>1. state' \in [Sockets -> {"unused", "opening", "open", "closing", "closed"}]
        BY <1>1 DEF ClientTypeOK
    <2>2. protoClosing' \subseteq Sockets
        BY <1>1 DEF ClientTypeOK
    <2> QED
        BY <1>1, <1>2, <1>5, <2>1, <2>2, ConnectionTypes, NoPending
<1>7. LoopCoherent' /\ LoopWillReturn' /\ RecoveryPending'
    BY <1>1, <1>5 DEF LoopCoherent, LoopWillReturn, RecoveryPending
<1>8. OneLiveSocket'
    BY <1>1 DEF Recovering, OneLiveSocket, ClientTypeOK
<1>9. SocketsCoherent'
    BY <1>1, <1>5 DEF Recovering, SocketsCoherent, ClientTypeOK, Connected
<1> QED
    BY <1>6, <1>7, <1>8, <1>9 DEF Recovering

LEMMA OversizedStep ==
    ASSUME ClientTypeOK, Recovering, NEW s \in Sockets, OversizedArrives(s)
    PROVE  ClientTypeOK' /\ Recovering'
<1> USE ClientAssumption
<1>1. /\ state[s] = "open" /\ ~closing /\ ws = s /\ s \notin protoClosing /\ ~Resumes
      /\ protoClosing' = protoClosing \cup {s}
      /\ UNCHANGED <<closing, loop, established>>
    BY DEF OversizedArrives, IsCurrent
<1>2. /\ generation' = NoSocket /\ queue' = <<>> /\ events' = <<>>
      /\ UNCHANGED <<active, arrived, handling, started, made>>
      /\ pending' = [c \in Calls |-> NoSocket]
    BY DEF OversizedArrives, ResetQueues, RejectPending
<1>3. loop.pc = "none"
    BY <1>1 DEF Recovering, SocketsCoherent, Connected, Resumes, Sockets, NoSocket
<1>4. ~Connected'
    BY <1>1 DEF OversizedArrives, Connected, ClientTypeOK
<1>5. CASE ws' = NoSocket /\ ScheduleReconnect /\ UNCHANGED state
    <2>1. timer' = TRUE /\ after' = after
        BY <1>1, <1>3, <1>5 DEF ScheduleReconnect, ClientTypeOK
    <2>2. ClientTypeOK'
        BY <1>1, <1>2, <1>5, <2>1 DEF ClientTypeOK
    <2>3. LoopCoherent' /\ SocketsCoherent' /\ OneLiveSocket'
        BY <1>1, <1>3, <1>4, <1>5 DEF Recovering, LoopCoherent, SocketsCoherent, OneLiveSocket, ClientTypeOK
    <2>4. LoopWillReturn' /\ RecoveryPending'
        BY <1>1, <1>3, <2>1 DEF LoopWillReturn, RecoveryPending
    <2> QED
        BY <2>2, <2>3, <2>4 DEF Recovering
<1>6. CASE state' = [state EXCEPT ![s] = "closing"] /\ UNCHANGED <<ws, timer, after>>
    <2>1. ClientTypeOK'
        BY <1>1, <1>2, <1>6 DEF ClientTypeOK
    <2>2. LoopCoherent' /\ SocketsCoherent' /\ OneLiveSocket'
        BY <1>1, <1>3, <1>4, <1>6 DEF Recovering, LoopCoherent, SocketsCoherent, OneLiveSocket, ClientTypeOK
    <2>3. LoopWillReturn' /\ RecoveryPending'
        BY <1>1, <1>3, <1>6 DEF LoopWillReturn, RecoveryPending, ClientTypeOK, Sockets, NoSocket
    <2> QED
        BY <2>1, <2>2, <2>3 DEF Recovering
<1> QED
    BY <1>5, <1>6 DEF OversizedArrives

(***************************************************************************)
(* Frames and events.                                                      *)
(***************************************************************************)
Ordered == FramesOrdered /\ EventsFresh

LEMMA FrameTyped ==
    ASSUME NEW f \in Frames
    PROVE  f.sock \in Sockets /\ f.n \in 1..MaxFrames /\ f.answers \in Calls \cup {NoCall} /\ f # NoFrame
BY ClientAssumption DEF Frames, NoFrame, Sockets, NoSocket

LEMMA AppendOrdered ==
    ASSUME NEW q \in Seq(Frames), NEW f \in Frames, NEW low \in Nat,
           Ascending(q), Between(low, q, f.n - 1), low < f.n
    PROVE  /\ Append(q, f) \in Seq(Frames)
           /\ Ascending(Append(q, f)) /\ Between(low, Append(q, f), f.n)
<1> DEFINE r == Append(q, f)
<1>1. f.n \in Nat /\ \A i \in 1..Len(q) : q[i].n \in Nat
    BY FrameTyped, ClientAssumption
<1>2. /\ r \in Seq(Frames) /\ Len(r) = Len(q) + 1 /\ Len(q) \in Nat
      /\ \A i \in 1..Len(q) : r[i] = q[i]
      /\ r[Len(q) + 1] = f
    OBVIOUS
<1>3. \A i \in 1..Len(q) : low < q[i].n /\ q[i].n < f.n
    BY <1>1 DEF Between
<1>4. ASSUME NEW i \in 1..Len(r) PROVE low < r[i].n /\ r[i].n <= f.n
    BY <1>1, <1>2, <1>3, <1>4
<1>5. ASSUME NEW i \in 1..Len(r), NEW j \in 1..Len(r), i < j PROVE r[i].n < r[j].n
    <2>1. i \in 1..Len(q)
        BY <1>2, <1>5
    <2>2. CASE j \in 1..Len(q)
        BY <1>2, <1>5, <2>1, <2>2 DEF Ascending
    <2>3. CASE j = Len(q) + 1
        BY <1>2, <1>3, <2>1, <2>3
    <2> QED
        BY <1>2, <2>2, <2>3
<1>6. Ascending(r)
    BY <1>5 DEF Ascending
<1>7. Between(low, r, f.n)
    BY <1>4 DEF Between
<1> QED
    BY <1>2, <1>6, <1>7

LEMMA TailOrdered ==
    ASSUME NEW q \in Seq(Frames), q # <<>>, NEW low \in Nat, NEW high \in Int,
           Ascending(q), Between(low, q, high)
    PROVE  /\ Head(q) \in Frames /\ Tail(q) \in Seq(Frames)
           /\ low < Head(q).n /\ Head(q).n <= high
           /\ Ascending(Tail(q)) /\ Between(Head(q).n, Tail(q), high)
<1>1. /\ Len(q) \in Nat /\ Len(q) >= 1 /\ Head(q) = q[1] /\ Head(q) \in Frames
      /\ Tail(q) \in Seq(Frames) /\ Len(Tail(q)) = Len(q) - 1
      /\ \A i \in 1..Len(q) - 1 : Tail(q)[i] = q[i + 1]
    OBVIOUS
<1>2. low < Head(q).n /\ Head(q).n <= high
    BY <1>1 DEF Between
<1>3. ASSUME NEW i \in 1..Len(Tail(q)) PROVE Head(q).n < Tail(q)[i].n /\ Tail(q)[i].n <= high
    <2>1. i + 1 \in 1..Len(q) /\ 1 \in 1..Len(q) /\ 1 < i + 1 /\ Tail(q)[i] = q[i + 1]
        BY <1>1, <1>3
    <2> QED
        BY <1>1, <2>1 DEF Ascending, Between
<1>4. ASSUME NEW i \in 1..Len(Tail(q)), NEW j \in 1..Len(Tail(q)), i < j PROVE Tail(q)[i].n < Tail(q)[j].n
    <2>1. /\ i + 1 \in 1..Len(q) /\ j + 1 \in 1..Len(q) /\ i + 1 < j + 1
          /\ Tail(q)[i] = q[i + 1] /\ Tail(q)[j] = q[j + 1]
        BY <1>1, <1>4
    <2> QED
        BY <2>1 DEF Ascending
<1>5. Ascending(Tail(q)) /\ Between(Head(q).n, Tail(q), high)
    BY <1>3, <1>4 DEF Ascending, Between
<1> QED
    BY <1>1, <1>2, <1>5

LEMMA Widened ==
    ASSUME NEW q \in Seq(Frames), NEW low \in Int, NEW high \in Int, NEW higher \in Int,
           Between(low, q, high), high <= higher
    PROVE  Between(low, q, higher)
<1>1. \A i \in 1..Len(q) : q[i].n \in Int
    BY FrameTyped, ClientAssumption
<1> QED
    BY <1>1 DEF Between

LEMMA NothingOrdered ==
    ASSUME NEW low, NEW high
    PROVE  Ascending(<<>>) /\ Between(low, <<>>, high)
BY DEF Ascending, Between

(* The queues are emptied; what is in hand and in progress stays. *)
LEMMA ResetOrdered ==
    ASSUME ClientTypeOK, Ordered, queue' = <<>>, events' = <<>>, UNCHANGED <<active, arrived, handling, started>>
    PROVE  Ordered'
<1>1. FramesOrdered'
    BY NothingOrdered DEF Ordered, FramesOrdered
<1>2. EventsFresh'
    BY DEF EventsFresh
<1> QED
    BY <1>1, <1>2 DEF Ordered

(* The queues stay, and so does the connection they belong to. *)
LEMMA KeptOrdered ==
    ASSUME Ordered, UNCHANGED <<frameVars, eventVars>>, UNCHANGED <<ws, generation, protoClosing>>,
           closing' => closing
    PROVE  Ordered'
<1>1. FramesOrdered'
    BY DEF Ordered, FramesOrdered, Ascending, Between, frameVars, eventVars
<1>2. EventsFresh'
    BY DEF Ordered, EventsFresh, IsCurrent, frameVars, eventVars
<1> QED
    BY <1>1, <1>2 DEF Ordered

LEMMA AttemptOrdered ==
    ASSUME ClientTypeOK, Ordered, NEW n, NEW again, Attempt(n, again), closing' => closing
    PROVE  Ordered'
<1>1. CASE OpenSocket(n, again)
    BY <1>1, ResetOrdered DEF OpenSocket
<1>2. CASE FactoryThrows(n, again)
    BY <1>2, KeptOrdered DEF FactoryThrows, connVars
<1> QED
    BY <1>1, <1>2 DEF Attempt

LEMMA ConnectionOrdered ==
    ASSUME ClientTypeOK, Ordered,
           \/ Connect \/ Close \/ ReconnectTimer \/ RetryTimer
           \/ HandshakeFails \/ LoopContinues \/ LoopEnds
           \/ \E s \in Sockets : SocketOpens(s) \/ SocketCloses(s) \/ OversizedArrives(s)
    PROVE  Ordered'
<1>1. CASE Connect
    <2>1. closing' = FALSE
        BY <1>1 DEF Connect
    <2>2. Attempt(0, FALSE) \/ UNCHANGED <<connVars, loop, timer, callVars, frameVars, eventVars>>
        BY <1>1 DEF Connect
    <2> QED
        BY <2>1, <2>2, AttemptOrdered, KeptOrdered DEF connVars
<1>2. CASE Close \/ \E s \in Sockets : OversizedArrives(s)
    BY <1>2, ResetOrdered DEF Close, OversizedArrives, ResetQueues
<1>3. CASE ReconnectTimer
    <2>1. /\ closing' = closing
          /\ Attempt(0, TRUE) \/ UNCHANGED <<connVars, loop, callVars, frameVars, eventVars>>
        BY <1>3, Zenon DEF ReconnectTimer
    <2> QED
        BY <2>1, AttemptOrdered, KeptOrdered DEF connVars
<1>4. CASE RetryTimer
    BY <1>4, AttemptOrdered DEF RetryTimer
<1>5. CASE HandshakeFails \/ LoopEnds
    BY <1>5, KeptOrdered DEF HandshakeFails, LoopEnds, connVars
<1>6. CASE LoopContinues
    <2>1. UNCHANGED <<protoClosing, closing>>
        BY <1>6 DEF LoopContinues, connVars
    <2>2. ResetQueues \/ UNCHANGED <<ws, generation, frameVars, eventVars>>
        BY <1>6 DEF LoopContinues, DropFailedSocket, connVars
    <2> QED
        BY <2>1, <2>2, ResetOrdered, KeptOrdered DEF ResetQueues
<1>7. CASE \E s \in Sockets : SocketOpens(s) \/ SocketCloses(s)
    <2>1. UNCHANGED <<protoClosing, closing>>
        BY <1>7 DEF SocketOpens, SocketCloses, loopVars
    <2>2. ResetQueues \/ UNCHANGED <<ws, generation, frameVars, eventVars>>
        BY <1>7 DEF SocketOpens, SocketCloses
    <2> QED
        BY <2>1, <2>2, ResetOrdered, KeptOrdered DEF ResetQueues
<1> QED
    BY <1>1, <1>2, <1>3, <1>4, <1>5, <1>6, <1>7

LEMMA FrameArrivesStep ==
    ASSUME ClientTypeOK, Ordered, NEW s \in Sockets, NEW a \in Calls \cup {NoCall}, FrameArrives(s, a)
    PROVE  ClientTypeOK' /\ Ordered'
<1> USE ClientAssumption
<1> DEFINE f == [sock |-> s, n |-> arrived + 1, answers |-> a]
<1>1. /\ arrived < MaxFrames /\ arrived' = arrived + 1
      /\ IF active = NoFrame THEN active' = f /\ UNCHANGED queue
                             ELSE queue' = Append(queue, f) /\ UNCHANGED active
      /\ UNCHANGED <<connVars, loopVars, callVars, eventVars, established>>
    BY DEF FrameArrives
<1>2. /\ arrived \in Nat /\ started \in Nat /\ queue \in Seq(Frames) /\ events \in Seq(Frames)
      /\ active # NoFrame => active \in Frames
    BY DEF ClientTypeOK
<1>3. f \in Frames /\ f.n = arrived + 1 /\ arrived' \in 0..MaxFrames /\ f # NoFrame
    BY <1>1, <1>2 DEF Frames, Sockets, NoFrame, NoSocket
<1> HIDE DEF f
<1>4. UNCHANGED <<events, started, handling, made, pending>>
    BY <1>1 DEF eventVars, callVars
<1>5. EventsFresh'
    BY <1>1, <1>4 DEF Ordered, EventsFresh, IsCurrent, connVars, loopVars
<1>6. CASE active = NoFrame
    <2>1. active' = f /\ queue' = <<>> /\ queue = <<>>
        BY <1>1, <1>6 DEF Ordered, FramesOrdered
    <2>2. Between(started, events, arrived) /\ arrived = f.n - 1 /\ started < f.n
        BY <1>2, <1>3, <1>6 DEF Ordered, FramesOrdered
    <2>3. Between(started, events, arrived')
        BY <1>1, <1>2, <2>2, Widened
    <2>4. FramesOrdered'
        BY <1>1, <1>2, <1>3, <1>4, <2>1, <2>2, <2>3, NothingOrdered DEF Ordered, FramesOrdered
    <2>5. ClientTypeOK'
        BY <1>1, <1>3, <1>4, <2>1 DEF ClientTypeOK, connVars, loopVars
    <2> QED
        BY <1>5, <2>4, <2>5 DEF Ordered
<1>7. CASE active # NoFrame
    <2>1. active' = active /\ queue' = Append(queue, f)
        BY <1>1, <1>7
    <2>2. /\ Ascending(queue) /\ Between(active.n, queue, arrived) /\ arrived = f.n - 1
          /\ active.n \in Nat /\ active.n < f.n
        BY <1>2, <1>3, <1>7, FrameTyped DEF Ordered, FramesOrdered
    <2>3. queue' \in Seq(Frames) /\ Ascending(queue') /\ Between(active.n, queue', arrived')
        BY <1>1, <1>2, <1>3, <2>1, <2>2, AppendOrdered
    <2>4. Between(started, events, arrived')
        BY <1>1, <1>2, Widened DEF Ordered, FramesOrdered
    <2>5. FramesOrdered'
        BY <1>1, <1>2, <1>4, <1>7, <2>1, <2>2, <2>3, <2>4 DEF Ordered, FramesOrdered
    <2>6. ClientTypeOK'
        BY <1>1, <1>3, <1>4, <2>1, <2>3 DEF ClientTypeOK, connVars, loopVars
    <2> QED
        BY <1>5, <2>5, <2>6 DEF Ordered
<1> QED
    BY <1>6, <1>7

(* The drain has gone on to the next frame, above the one it had. *)
LEMMA DrainGoesOn ==
    ASSUME ClientTypeOK, Ordered, active # NoFrame,
           active' = IF queue = <<>> THEN NoFrame ELSE Head(queue),
           queue' = IF queue = <<>> THEN queue ELSE Tail(queue)
    PROVE  /\ active' \in Frames \cup {NoFrame} /\ queue' \in Seq(Frames)
           /\ Ascending(queue')
           /\ active' = NoFrame => queue' = <<>>
           /\ active' # NoFrame => /\ active.n < active'.n /\ active'.n <= arrived
                                   /\ Between(active'.n, queue', arrived)
<1>1. /\ queue \in Seq(Frames) /\ active \in Frames /\ active.n \in Nat /\ arrived \in Int
    BY FrameTyped, ClientAssumption DEF ClientTypeOK
<1>2. Ascending(queue) /\ Between(active.n, queue, arrived)
    BY DEF Ordered, FramesOrdered
<1>3. CASE queue = <<>>
    BY <1>1, <1>2, <1>3
<1>4. CASE queue # <<>>
    BY <1>1, <1>2, <1>4, TailOrdered, FrameTyped
<1> QED
    BY <1>3, <1>4

(* Whatever events and started become, with what is below the frame that   *)
(* was in hand.                                                            *)
LEMMA FramesOrderedAgain ==
    ASSUME ClientTypeOK, Ordered, active # NoFrame, arrived' = arrived,
           active' = IF queue = <<>> THEN NoFrame ELSE Head(queue),
           queue' = IF queue = <<>> THEN queue ELSE Tail(queue),
           events' \in Seq(Frames), started' \in Nat, started' <= active.n,
           Ascending(events'), Between(started', events', active.n)
    PROVE  FramesOrdered'
<1> USE ClientAssumption
<1>1. /\ active \in Frames /\ active.n \in Nat /\ arrived \in Nat /\ active.n <= arrived
    BY FrameTyped DEF ClientTypeOK, Ordered, FramesOrdered
<1>2. Between(started', events', arrived')
    BY <1>1, Widened
<1>3. CASE active' = NoFrame
    BY <1>1, <1>2, <1>3, DrainGoesOn DEF FramesOrdered
<1>4. CASE active' # NoFrame
    <2>1. /\ active' \in Frames /\ Ascending(queue') /\ active.n < active'.n /\ active'.n <= arrived
          /\ Between(active'.n, queue', arrived)
        BY <1>4, DrainGoesOn
    <2>2. active'.n \in Nat /\ active.n <= active'.n - 1
        BY <1>1, <2>1, FrameTyped
    <2>3. Between(started', events', active'.n - 1)
        BY <1>1, <2>2, Widened
    <2> QED
        BY <1>1, <1>2, <1>4, <2>1, <2>2, <2>3 DEF FramesOrdered
<1> QED
    BY <1>3, <1>4

LEMMA FrameHandledStep ==
    ASSUME ClientTypeOK, Ordered, FrameHandled
    PROVE  /\ ClientTypeOK' /\ Ordered'
           /\ started' # started => started' > started /\ IsCurrent(handling'.sock)
<1> USE ClientAssumption
<1>1. /\ active # NoFrame /\ active \in Frames
      /\ active' = IF queue = <<>> THEN NoFrame ELSE Head(queue)
      /\ queue' = IF queue = <<>> THEN queue ELSE Tail(queue)
      /\ UNCHANGED <<connVars, loopVars, arrived, established>>
    BY DEF FrameHandled, ClientTypeOK
<1>2. active' \in Frames \cup {NoFrame} /\ queue' \in Seq(Frames)
    BY <1>1, DrainGoesOn
<1>3. /\ active.n \in Nat /\ active.n \in 0..MaxFrames /\ active.answers \in Calls \cup {NoCall}
      /\ arrived \in Nat /\ started \in Nat /\ events \in Seq(Frames)
    BY <1>1, FrameTyped DEF ClientTypeOK
<1>4. /\ started < active.n /\ Ascending(events) /\ Between(started, events, active.n - 1)
    BY <1>1 DEF Ordered, FramesOrdered
<1>5. Between(started, events, active.n)
    BY <1>3, <1>4, Widened
<1>6. UNCHANGED <<ws, generation, protoClosing, closing, state, loop, timer, after>>
    BY <1>1 DEF connVars, loopVars
<1>7. CASE UNCHANGED eventVars
    <2>1. UNCHANGED <<events, handling, started>>
        BY <1>7 DEF eventVars
    <2>2. made' = made /\ pending' \in [Calls -> Sockets \cup {NoSocket}]
        BY <1>3 DEF FrameHandled, ClientTypeOK, callVars
    <2>3. ClientTypeOK'
        BY <1>1, <1>2, <1>6, <2>1, <2>2 DEF ClientTypeOK
    <2>4. FramesOrdered'
        BY <1>1, <1>3, <1>4, <1>5, <2>1, FramesOrderedAgain
    <2>5. EventsFresh'
        BY <1>6, <2>1 DEF Ordered, EventsFresh, IsCurrent
    <2> QED
        BY <2>1, <2>3, <2>4, <2>5 DEF Ordered
<1>8. CASE IsCurrent(active.sock) /\ Enqueue(active) /\ UNCHANGED callVars
    <2>1. CASE handling = NoFrame
        <3>1. handling' = active /\ started' = active.n /\ events' = events /\ events = <<>>
            BY <1>8, <2>1 DEF Enqueue, Ordered, EventsFresh
        <3>2. ClientTypeOK'
            BY <1>1, <1>2, <1>3, <1>6, <1>8, <3>1 DEF ClientTypeOK, callVars
        <3>3. FramesOrdered'
            BY <1>1, <1>3, <3>1, NothingOrdered, FramesOrderedAgain
        <3>4. EventsFresh'
            BY <3>1 DEF EventsFresh
        <3> QED
            BY <1>3, <1>4, <1>8, <3>1, <3>2, <3>3, <3>4 DEF Ordered
    <2>2. CASE handling # NoFrame
        <3>1. /\ UNCHANGED <<handling, started>>
              /\ events' = events \/ events' = Append(events, active)
            BY <1>8, <2>2 DEF Enqueue
        <3>2. /\ Append(events, active) \in Seq(Frames) /\ Ascending(Append(events, active))
              /\ Between(started, Append(events, active), active.n)
            BY <1>1, <1>3, <1>4, AppendOrdered
        <3>3. events' \in Seq(Frames) /\ Ascending(events') /\ Between(started, events', active.n)
            BY <1>3, <1>4, <1>5, <3>1, <3>2
        <3>4. ClientTypeOK'
            BY <1>1, <1>2, <1>6, <1>8, <3>1, <3>3 DEF ClientTypeOK, callVars
        <3>5. FramesOrdered'
            BY <1>1, <1>3, <1>4, <3>1, <3>3, FramesOrderedAgain
        <3>6. ASSUME NEW i \in 1..Len(events') PROVE IsCurrent(events'[i].sock)
            <4>1. events'[i] = active \/ (i \in 1..Len(events) /\ events'[i] = events[i])
                BY <1>1, <1>3, <3>1, <3>6
            <4> QED
                BY <1>8, <4>1 DEF Ordered, EventsFresh
        <3>7. EventsFresh'
            BY <1>6, <2>2, <3>1, <3>6 DEF EventsFresh, IsCurrent
        <3> QED
            BY <3>1, <3>4, <3>5, <3>7 DEF Ordered
    <2> QED
        BY <2>1, <2>2
<1> QED
    BY <1>7, <1>8 DEF FrameHandled

LEMMA HandlerEndsStep ==
    ASSUME ClientTypeOK, Ordered, HandlerEnds
    PROVE  /\ ClientTypeOK' /\ Ordered'
           /\ started' # started => started' > started /\ IsCurrent(handling'.sock)
<1> USE ClientAssumption
<1>1. UNCHANGED <<connVars, loopVars, callVars, frameVars, established>>
    BY DEF HandlerEnds
<1>2. /\ UNCHANGED <<ws, generation, protoClosing, closing, state, loop, timer, after>>
      /\ UNCHANGED <<made, pending, queue, active, arrived>>
    BY <1>1 DEF connVars, loopVars, callVars, frameVars
<1>3. /\ arrived \in Nat /\ started \in Nat /\ events \in Seq(Frames)
      /\ active # NoFrame => active \in Frames /\ active.n \in Nat
    BY FrameTyped DEF ClientTypeOK
<1>4. CASE events = <<>>
    <2>1. handling' = NoFrame /\ UNCHANGED <<events, started>>
        BY <1>4 DEF HandlerEnds
    <2>2. ClientTypeOK'
        BY <1>1, <1>2, <2>1 DEF ClientTypeOK
    <2>3. FramesOrdered'
        BY <1>2, <2>1 DEF Ordered, FramesOrdered, Ascending, Between
    <2>4. EventsFresh'
        BY <1>4, <2>1 DEF EventsFresh
    <2> QED
        BY <2>1, <2>2, <2>3, <2>4 DEF Ordered
<1>5. CASE events # <<>>
    <2>1. handling' = Head(events) /\ events' = Tail(events) /\ started' = Head(events).n
        BY <1>5 DEF HandlerEnds
    <2> DEFINE high == IF active = NoFrame THEN arrived ELSE active.n - 1
    <2>2. high \in Int /\ Ascending(events) /\ Between(started, events, high) /\ high <= arrived
        BY <1>3 DEF Ordered, FramesOrdered
    <2>3. /\ handling' \in Frames /\ events' \in Seq(Frames)
          /\ started < started' /\ started' <= high
          /\ Ascending(events') /\ Between(started', events', high)
        BY <1>3, <1>5, <2>1, <2>2, TailOrdered
    <2>4. started' \in Nat /\ started' \in 0..MaxFrames
        BY <2>1, <2>3, FrameTyped
    <2>5. Between(started', events', arrived)
        BY <1>3, <2>2, <2>3, <2>4, Widened
    <2>6. ClientTypeOK'
        BY <1>1, <1>2, <2>3, <2>4 DEF ClientTypeOK
    <2>7. FramesOrdered'
        BY <1>2, <1>3, <2>2, <2>3, <2>4, <2>5 DEF Ordered, FramesOrdered
    <2>8. /\ \A i \in 1..Len(events) : IsCurrent(events[i].sock)
          /\ Head(events) = events[1] /\ 1 \in 1..Len(events)
          /\ \A i \in 1..Len(Tail(events)) : i + 1 \in 1..Len(events) /\ Tail(events)[i] = events[i + 1]
        BY <1>3, <1>5 DEF Ordered, EventsFresh
    <2>9. \A i \in 1..Len(events') : IsCurrent(events'[i].sock)
        BY <2>1, <2>8
    <2>10. EventsFresh'
        BY <1>2, <2>3, <2>9, FrameTyped DEF EventsFresh, IsCurrent
    <2>11. IsCurrent(handling'.sock)
        BY <2>1, <2>8
    <2> QED
        BY <2>3, <2>4, <2>6, <2>7, <2>10, <2>11, <1>3 DEF Ordered
<1> QED
    BY <1>4, <1>5

(***************************************************************************)
(* All together.                                                           *)
(***************************************************************************)
LEMMA CallsStep ==
    ASSUME ClientTypeOK, Ordered, NEW c \in Calls, CallSends(c) \/ CallTimesOut(c)
    PROVE  ClientTypeOK' /\ Ordered'
<1>1. /\ UNCHANGED <<connVars, loopVars, frameVars, eventVars, established>>
      /\ made' \subseteq Calls /\ pending' \in [Calls -> Sockets \cup {NoSocket}]
    BY DEF CallSends, CallTimesOut, ClientTypeOK
<1>2. ClientTypeOK'
    BY <1>1 DEF ClientTypeOK, connVars, loopVars, frameVars, eventVars
<1>3. Ordered'
    BY <1>1, KeptOrdered DEF connVars, loopVars
<1> QED
    BY <1>2, <1>3

LEMMA ClientInit == Init => ClientIndInv
<1> USE ClientAssumption
<1>1. ASSUME Init PROVE ClientTypeOK
    <2>1. <<>> \in Seq(Frames) /\ Idle \in Loops
        BY DEF Idle, Loops
    <2>2. queue \in Seq(Frames) /\ events \in Seq(Frames) /\ loop \in Loops
        BY <1>1, <2>1 DEF Init
    <2>3. /\ state \in [Sockets -> {"unused", "opening", "open", "closing", "closed"}]
          /\ pending \in [Calls -> Sockets \cup {NoSocket}]
        BY <1>1 DEF Init
    <2>4. /\ ws \in Sockets \cup {NoSocket} /\ generation \in Sockets \cup {NoSocket}
          /\ protoClosing \subseteq Sockets /\ made \subseteq Calls
        BY <1>1 DEF Init
    <2>5. closing = FALSE /\ timer = FALSE /\ after = FALSE /\ established = FALSE
        BY <1>1, Zenon DEF Init
    <2>6. closing \in BOOLEAN /\ timer \in BOOLEAN /\ after \in BOOLEAN /\ established \in BOOLEAN
        BY <2>5
    <2>7. active \in Frames \cup {NoFrame} /\ handling \in Frames \cup {NoFrame}
        BY <1>1 DEF Init
    <2>8. arrived \in 0..MaxFrames /\ started \in 0..MaxFrames
        BY <1>1 DEF Init
    <2> QED
        BY <2>2, <2>3, <2>4, <2>6, <2>7, <2>8 DEF ClientTypeOK, Loops
<1>2. ASSUME Init PROVE Recovering
    BY <1>2 DEF Init, Recovering, LoopCoherent, SocketsCoherent, OneLiveSocket, LoopWillReturn,
                RecoveryPending, Connected, Idle
<1>3. ASSUME Init PROVE Ordered
    BY <1>3, NothingOrdered DEF Init, Ordered, FramesOrdered, EventsFresh
<1> QED
    BY <1>1, <1>2, <1>3 DEF ClientIndInv, Recovering, Ordered

LEMMA ClientInductive ==
    ASSUME ClientIndInv, [Next]_vars
    PROVE  ClientIndInv'
<1>1. ClientTypeOK /\ Recovering /\ Ordered
    BY DEF ClientIndInv, Recovering, Ordered
<1>2. CASE Connect \/ Close \/ ReconnectTimer \/ RetryTimer \/ HandshakeFails \/ LoopContinues \/ LoopEnds
    <2>1. Ordered'
        BY <1>1, <1>2, ConnectionOrdered
    <2>2. ClientTypeOK' /\ Recovering'
        BY <1>1, <1>2, ConnectStep, CloseStep, ReconnectTimerStep, RetryTimerStep, HandshakeFailsStep,
           LoopContinuesStep, LoopEndsStep
    <2> QED
        BY <2>1, <2>2 DEF ClientIndInv, Recovering, Ordered
<1>3. CASE \E s \in Sockets : SocketOpens(s) \/ SocketCloses(s) \/ OversizedArrives(s)
    <2>1. Ordered'
        BY <1>1, <1>3, ConnectionOrdered
    <2>2. ClientTypeOK' /\ Recovering'
        BY <1>1, <1>3, SocketOpensStep, SocketClosesStep, OversizedStep
    <2> QED
        BY <2>1, <2>2 DEF ClientIndInv, Recovering, Ordered
<1>4. CASE \/ \E c \in Calls : CallSends(c) \/ CallTimesOut(c)
           \/ \E s \in Sockets, a \in Calls \cup {NoCall} : FrameArrives(s, a)
           \/ FrameHandled \/ HandlerEnds
    <2>1. UNCHANGED <<state, ws, protoClosing, loopVars, established>>
        BY <1>4 DEF CallSends, CallTimesOut, FrameArrives, FrameHandled, HandlerEnds, connVars
    <2>2. Recovering'
        BY <1>1, <2>1, RecoveringUnchanged
    <2>3. ClientTypeOK' /\ Ordered'
        BY <1>1, <1>4, CallsStep, FrameArrivesStep, FrameHandledStep, HandlerEndsStep
    <2> QED
        BY <2>2, <2>3 DEF ClientIndInv, Recovering, Ordered
<1>5. CASE UNCHANGED vars
    <2>1. UNCHANGED <<connVars, loopVars, callVars, frameVars, eventVars, established>>
        BY <1>5 DEF vars
    <2>2. ClientTypeOK'
        BY <1>1, <2>1 DEF ClientTypeOK, connVars, loopVars, callVars, frameVars, eventVars
    <2>3. Recovering'
        BY <1>1, <2>1, RecoveringUnchanged DEF connVars
    <2>4. Ordered'
        BY <1>1, <2>1, KeptOrdered DEF connVars, loopVars
    <2> QED
        BY <2>2, <2>3, <2>4 DEF ClientIndInv, Recovering, Ordered
<1> QED
    BY <1>2, <1>3, <1>4, <1>5 DEF Next

(* The sockets, the loop, the timer and the queues agree, in every         *)
(* reachable state of client.ts.                                           *)
THEOREM ClientInvariant == Spec => []ClientIndInv
<1>1. ClientIndInv /\ [Next]_vars => ClientIndInv'
    BY ClientInductive
<1> QED
    BY <1>1, ClientInit, PTL DEF Spec

(* A lost connection is never given up. *)
THEOREM LostIsRecovered == Spec => []RecoveryPending
<1>1. ClientIndInv => RecoveryPending
    BY DEF ClientIndInv
<1> QED
    BY <1>1, ClientInvariant, PTL

(* Only the current socket is open, one that sent too large a frame aside. *)
THEOREM LiveSocketIsCurrent == Spec => []OneLiveSocket
<1>1. ClientIndInv => OneLiveSocket
    BY DEF ClientIndInv
<1> QED
    BY <1>1, ClientInvariant, PTL

(* A handler starts only for an event of the present connection, and after *)
(* every handler of an earlier one.                                        *)
THEOREM EventsInOrder == Spec => FreshEventsInOrder
<1>1. ASSUME ClientIndInv, [Next]_vars, started' # started
      PROVE  handling'.sock = ws /\ ws \notin protoClosing /\ ~closing /\ started' > started
    <2>1. ClientTypeOK /\ Ordered
        BY <1>1 DEF ClientIndInv, Ordered
    <2>2. FrameHandled \/ HandlerEnds
        <3>1. ~(Connect \/ ReconnectTimer \/ RetryTimer)
            BY <1>1 DEF Connect, ReconnectTimer, RetryTimer, Attempt, OpenSocket, FactoryThrows, eventVars
        <3>2. ~(HandshakeFails \/ LoopContinues \/ LoopEnds \/ Close)
            BY <1>1 DEF HandshakeFails, LoopContinues, LoopEnds, Close, DropFailedSocket, ResetQueues, eventVars
        <3>3. ~\E s \in Sockets : SocketOpens(s) \/ SocketCloses(s) \/ OversizedArrives(s)
            BY <1>1 DEF SocketOpens, SocketCloses, OversizedArrives, ResetQueues, eventVars
        <3>4. /\ ~\E c \in Calls : CallSends(c) \/ CallTimesOut(c)
              /\ ~\E s \in Sockets, a \in Calls \cup {NoCall} : FrameArrives(s, a)
            BY <1>1 DEF CallSends, CallTimesOut, FrameArrives, eventVars
        <3> QED
            BY <1>1, <3>1, <3>2, <3>3, <3>4 DEF Next, vars, eventVars
    <2>3. started' > started /\ IsCurrent(handling'.sock)
        BY <1>1, <2>1, <2>2, FrameHandledStep, HandlerEndsStep
    <2> QED
        BY <2>3 DEF IsCurrent
<1>2. ClientIndInv /\ [Next]_vars =>
        [started' # started =>
            handling'.sock = ws /\ ws \notin protoClosing /\ ~closing /\ started' > started]_vars
    BY <1>1
<1> QED
    BY <1>2, ClientInvariant, PTL DEF Spec, FreshEventsInOrder

-----------------------------------------------------------------------------
(***************************************************************************)
(* Standalone, for any number of SDK transports, losses and events: what   *)
(* connectionLoop selects replaces nothing, and a fallback leaves the      *)
(* native transport open.                                                  *)
(***************************************************************************)
Linked == [Transports -> {"free", "opening", "up", "lost", "shut"}]

LEMMA SupervisorStart == StandaloneInit => SupervisorInd
<1> SUFFICES ASSUME StandaloneInit
             PROVE  SupervisorInd
    OBVIOUS
<1>1. Native \in Transports
    BY DEF Transports
<1>2. links \in Linked
    BY <1>1 DEF StandaloneInit, Linked
<1>3. buffered \in Seq(1..MaxEvents) /\ Len(buffered) <= MaxBuffered
    BY StandaloneAssumption DEF StandaloneInit
<1>4. flushing \in 0..MaxEvents /\ came \in 0..MaxEvents /\ drops \in 0..MaxDrops
    BY StandaloneAssumption DEF StandaloneInit
<1> QED
    BY <1>1, <1>2, <1>3, <1>4 DEF StandaloneInit, SupervisorInd, StandaloneTypeOK, NothingYet, Linked

LEMMA ClosingTyped ==
    ASSUME NEW ts, links \in Linked
    PROVE  Closing(ts) \in Linked
BY DEF Closing, Linked

LEMMA SelectTyped ==
    ASSUME NEW t \in Transports, NEW b \in BOOLEAN, StandaloneTypeOK, SelectTransport(t, b)
    PROVE  /\ links' \in Linked /\ serving' \in Transports /\ selected' \in {"native", "sdk"}
           /\ dialling' \in Transports \cup {NoTransport}
BY DEF SelectTransport, StandaloneTypeOK, Linked, KindOf, NotDialling

(* A step of the supervisor alone. *)
LEMMA SupervisorKeeps ==
    ASSUME SupervisorInd, links' \in Linked,
           {serving', dialling', startup'} \subseteq Transports \cup {NoTransport},
           selected' \in {"none", "native", "sdk"}, over' \in BOOLEAN, handovers' \subseteq SdkTransports,
           main' \in {"connecting", "retrying", "booting", "listening", "flushing", "up", "failed", "ended"},
           startup' # NoTransport => main' = "connecting",
           main' \in {"connecting", "retrying"} => NothingYet',
           drops' \in 0..MaxDrops,
           UNCHANGED <<stopping, shutdown, server, ingressVars>>
    PROVE  SupervisorInd'
BY DEF SupervisorInd, StandaloneTypeOK, Linked, ingressVars

(* A step of main, shutdown or the events that leaves connecting alone. *)
LEMMA ProcessKeeps ==
    ASSUME SupervisorInd, UNCHANGED supervisorVars, UNCHANGED drops,
           main' \in {"booting", "listening", "flushing", "up", "failed", "ended"} \/ main' = main,
           startup = NoTransport \/ main' = main,
           shutdown' \in {"no", "router", "teardown", "done"},
           server' \in {"none", "binding", "listening", "closing"},
           stopping' \in BOOLEAN, ready' \in BOOLEAN,
           buffered' \in Seq(1..MaxEvents), Len(buffered') <= MaxBuffered,
           dispatching' \subseteq 1..MaxEvents, flushing' \in 0..MaxEvents, came' \in 0..MaxEvents
    PROVE  SupervisorInd'
BY DEF SupervisorInd, StandaloneTypeOK, supervisorVars, NothingYet

LEMMA SupervisorNext ==
    ASSUME SupervisorInd, [StandaloneNext]_standaloneVars
    PROVE  SupervisorInd'
<1> USE StandaloneAssumption
<1>0. /\ StandaloneTypeOK /\ buffered \in Seq(1..MaxEvents) /\ links \in Linked
      /\ startup # NoTransport => main = "connecting"
      /\ main \in {"connecting", "retrying"} => NothingYet
      /\ SdkTransports \subseteq Transports /\ Native \in Transports
    BY DEF SupervisorInd, StandaloneTypeOK, Linked, Transports
<1>1. CASE StartupConnects
  <2>1. startup \in Transports
    BY <1>0, <1>1 DEF StartupConnects, StandaloneTypeOK
  <2>2. /\ SelectTransport(startup, TRUE) /\ startup' = NoTransport /\ main' \in {"booting", "ended"}
        /\ UNCHANGED <<over, handovers, stopping, shutdown, server, ingressVars, drops>>
    BY <1>1 DEF StartupConnects
  <2> QED
    BY <1>0, <2>1, <2>2, SelectTyped, SupervisorKeeps DEF StandaloneTypeOK
<1>2. CASE StartupFails
  <2>1. /\ main = "connecting" /\ NothingYet
        /\ UNCHANGED <<serving, selected, over, handovers, stopping, shutdown, server, ingressVars, drops>>
    BY <1>0, <1>2 DEF StartupFails
  <2>2. NothingYet'
    BY <2>1 DEF NothingYet
  <2>3. \/ \E s \in SdkTransports :
              /\ dialling' = s /\ links' = [links EXCEPT ![Native] = "free", ![s] = "opening"]
              /\ startup' = s /\ main' = main
        \/ RetireTransport(startup) /\ startup' = NoTransport /\ main' = "retrying"
    BY <1>2 DEF StartupFails, CreateTransport
  <2>4. /\ links' \in Linked
        /\ {dialling', startup'} \subseteq Transports \cup {NoTransport}
        /\ main' \in {"connecting", "retrying"} /\ (startup' # NoTransport => main' = "connecting")
    BY <1>0, <2>1, <2>3 DEF RetireTransport, NotDialling, Linked, StandaloneTypeOK
  <2> QED
    BY <1>0, <2>1, <2>2, <2>4, SupervisorKeeps DEF StandaloneTypeOK
<1>3. ASSUME NEW t \in Transports, ConnectionDrops(t)
      PROVE  SupervisorInd'
  <2>1. UNCHANGED <<serving, selected, over, startup, processVars, ingressVars>> /\ drops' \in 0..MaxDrops
    BY <1>0, <1>3 DEF ConnectionDrops, StandaloneTypeOK
  <2>2. \/ \E s \in SdkTransports :
              /\ serving = t /\ dialling' = s /\ handovers' = handovers \cup {s}
              /\ links' = [links EXCEPT ![t] = "lost", ![s] = "opening"]
        \/ links' = [links EXCEPT ![t] = "lost"] /\ UNCHANGED <<dialling, handovers>>
    BY <1>3 DEF ConnectionDrops, CreateTransport
  <2>3. /\ links' \in Linked /\ dialling' \in Transports \cup {NoTransport}
        /\ handovers' \subseteq SdkTransports
    BY <1>0, <2>2 DEF Linked, StandaloneTypeOK
  <2>4. main \in {"connecting", "retrying"} => NothingYet'
    BY <1>0, <2>1, <2>2 DEF NothingYet
  <2> QED
    BY <1>0, <2>1, <2>3, <2>4, SupervisorKeeps DEF StandaloneTypeOK, processVars
<1>4. ASSUME NEW t \in Transports, Reconnects(t)
      PROVE  SupervisorInd'
  <2>1. UNCHANGED <<over, startup, handovers, processVars, ingressVars, drops>>
    BY <1>4 DEF Reconnects
  <2>2. CASE selected = "sdk" /\ SelectTransport(t, TRUE)
    BY <1>0, <2>1, <2>2, SelectTyped, SupervisorKeeps DEF StandaloneTypeOK, NothingYet, processVars
  <2>3. CASE links' = [links EXCEPT ![t] = "up"] /\ UNCHANGED <<serving, selected, dialling>>
    <3>1. links' \in Linked
        BY <1>0, <2>3 DEF Linked
    <3> QED
        BY <1>0, <2>1, <2>3, <3>1, SupervisorKeeps DEF StandaloneTypeOK, NothingYet, processVars
  <2> QED
    BY <1>4, <2>2, <2>3 DEF Reconnects
<1>5. ASSUME NEW s \in SdkTransports, HandoverConnects(s) \/ HandoverFails(s)
      PROVE  SupervisorInd'
  <2>1. /\ UNCHANGED <<over, startup, processVars, ingressVars, drops>> /\ handovers' \subseteq SdkTransports
        /\ main \notin {"connecting", "retrying"}
    BY <1>0, <1>5 DEF HandoverConnects, HandoverFails, StandaloneTypeOK, NothingYet
  <2>2. SelectTransport(s, FALSE) \/ (RetireTransport(s) /\ UNCHANGED <<serving, selected>>)
    BY <1>5 DEF HandoverConnects, HandoverFails, FallbackClosesPrevious
  <2>3. /\ links' \in Linked /\ {serving', dialling'} \subseteq Transports \cup {NoTransport}
        /\ selected' \in {"none", "native", "sdk"}
    <3>1. CASE SelectTransport(s, FALSE)
        BY <1>0, <3>1, SelectTyped
    <3>2. CASE RetireTransport(s) /\ UNCHANGED <<serving, selected>>
        BY <1>0, <3>2 DEF RetireTransport, NotDialling, Linked, StandaloneTypeOK
    <3> QED
        BY <2>2, <3>1, <3>2
  <2> QED
    BY <1>0, <2>1, <2>3, SupervisorKeeps DEF StandaloneTypeOK, processVars
<1>6. CASE MainRetries
  <2>1. /\ main = "retrying" /\ NothingYet
        /\ UNCHANGED <<serving, selected, over, handovers, stopping, shutdown, server, ingressVars, drops>>
    BY <1>0, <1>6 DEF MainRetries
  <2>2. NothingYet' /\ startup = NoTransport
    BY <1>0, <2>1 DEF NothingYet
  <2>3. \/ main' = "ended" /\ UNCHANGED <<links, dialling, startup>>
        \/ /\ main' = "connecting" /\ dialling' = Native /\ startup' = Native
           /\ links' = [links EXCEPT ![Native] = "opening"]
    BY <1>6 DEF MainRetries, StartLoop, CreateTransport
  <2>4. links' \in Linked /\ {dialling', startup'} \subseteq Transports \cup {NoTransport}
    BY <1>0, <2>3 DEF Linked, StandaloneTypeOK
  <2> QED
    BY <1>0, <2>1, <2>2, <2>3, <2>4, SupervisorKeeps DEF StandaloneTypeOK
<1>7. CASE \/ BootReturns \/ ListenReturns \/ FlushedEnds \/ RouterClosed
           \/ ((Signal \/ MainFails) /\ ~CloseClient)
  <2>1. /\ UNCHANGED <<supervisorVars, buffered, dispatching, came, drops>> /\ flushing' \in {flushing, 0}
        /\ main' = main \/ (startup = NoTransport /\ main' \in {"listening", "flushing", "failed"})
    BY <1>0, <1>7 DEF BootReturns, ListenReturns, FlushedEnds, Signal, BeginShutdown, MainFails, RouterClosed,
                      ingressVars, processVars, supervisorVars
  <2>2. /\ shutdown' \in {"no", "router", "teardown", "done"}
        /\ server' \in {"none", "binding", "listening", "closing"}
        /\ stopping' \in BOOLEAN /\ ready' \in BOOLEAN
    BY <1>0, <1>7 DEF BootReturns, ListenReturns, FlushedEnds, Signal, BeginShutdown, MainFails, RouterClosed,
                      ingressVars, processVars, supervisorVars, StandaloneTypeOK
  <2> QED
    BY <1>0, <2>1, <2>2, ProcessKeeps DEF StandaloneTypeOK
<1>8. CASE FlushNext
  <2>1. /\ main = "flushing" /\ UNCHANGED <<supervisorVars, stopping, shutdown, server, ready, dispatching, came, drops>>
        /\ \/ /\ buffered # <<>> /\ flushing' = Head(buffered) /\ buffered' = Tail(buffered) /\ UNCHANGED main
           \/ main' = "up" /\ UNCHANGED <<flushing, buffered>>
    BY <1>8 DEF FlushNext
  <2>2. /\ flushing' \in 0..MaxEvents /\ buffered' \in Seq(1..MaxEvents) /\ Len(buffered') <= MaxBuffered
    <3>1. CASE buffered # <<>> /\ flushing' = Head(buffered) /\ buffered' = Tail(buffered)
      <4>1. Head(buffered) \in 1..MaxEvents /\ Tail(buffered) \in Seq(1..MaxEvents)
            /\ Len(Tail(buffered)) = Len(buffered) - 1 /\ Len(buffered) \in Nat
        BY <1>0, <3>1
      <4> QED
        BY <1>0, <3>1, <4>1 DEF StandaloneTypeOK
    <3> QED
        BY <1>0, <2>1, <3>1 DEF StandaloneTypeOK
  <2> QED
    BY <1>0, <2>1, <2>2, ProcessKeeps DEF StandaloneTypeOK
<1>9. CASE ClientCloses \/ ((Signal \/ MainFails) /\ CloseClient)
  <2>1. /\ links' = Closing({serving, dialling} \ {NoTransport}) /\ over' = TRUE
        /\ serving' = NoTransport /\ dialling' = NoTransport
        /\ UNCHANGED <<selected, startup, handovers>>
    BY <1>9 DEF CloseClient, ClientCloses
  <2>2. links' \in Linked
    BY <1>0, <2>1, ClosingTyped
  <2>3. /\ UNCHANGED <<buffered, flushing, dispatching, came, drops>>
        /\ main' = main \/ (startup = NoTransport /\ main' = "failed")
        /\ shutdown' \in {"no", "router", "teardown", "done"}
        /\ server' \in {"none", "binding", "listening", "closing"}
        /\ stopping' \in BOOLEAN /\ ready' \in BOOLEAN
    BY <1>0, <1>9 DEF ClientCloses, Signal, BeginShutdown, MainFails, ingressVars, StandaloneTypeOK
  <2> QED
    BY <1>0, <2>1, <2>2, <2>3 DEF SupervisorInd, StandaloneTypeOK, NothingYet, Linked
<1>10. ASSUME NEW t \in Transports, EventArrives(t)
       PROVE  SupervisorInd'
  <2>1. /\ came' = came + 1 /\ came < MaxEvents /\ came \in Nat
        /\ UNCHANGED <<supervisorVars, processVars, ready, flushing, drops>>
    BY <1>0, <1>10 DEF EventArrives, StandaloneTypeOK
  <2> DEFINE kept == IF Len(buffered) >= MaxBuffered THEN Tail(buffered) ELSE buffered
  <2>2. kept \in Seq(1..MaxEvents) /\ Len(kept) < MaxBuffered
    <3>1. CASE Len(buffered) >= MaxBuffered
      <4>1. buffered # <<>>
        BY <1>0, <3>1
      <4>2. Tail(buffered) \in Seq(1..MaxEvents) /\ Len(Tail(buffered)) = Len(buffered) - 1
        BY <1>0, <4>1
      <4> QED
        BY <1>0, <3>1, <4>2 DEF StandaloneTypeOK
    <3>2. CASE ~(Len(buffered) >= MaxBuffered)
        BY <1>0, <3>2 DEF StandaloneTypeOK
    <3> QED
        BY <3>1, <3>2
  <2>3. \/ dispatching' = dispatching \cup {came + 1} /\ UNCHANGED buffered
        \/ buffered' = Append(kept, came + 1) /\ UNCHANGED dispatching
    BY <1>10 DEF EventArrives
  <2> HIDE DEF kept
  <2>4. came + 1 \in 1..MaxEvents
    BY <1>0, <2>1 DEF StandaloneTypeOK
  <2>5. Append(kept, came + 1) \in Seq(1..MaxEvents) /\ Len(Append(kept, came + 1)) <= MaxBuffered
    BY <2>2, <2>4
  <2>6. /\ buffered' \in Seq(1..MaxEvents) /\ Len(buffered') <= MaxBuffered
        /\ dispatching' \subseteq 1..MaxEvents
    BY <1>0, <2>3, <2>4, <2>5 DEF StandaloneTypeOK
  <2> QED
    BY <1>0, <2>1, <2>4, <2>6, ProcessKeeps DEF StandaloneTypeOK, processVars
<1>11. ASSUME NEW e \in 1..MaxEvents, DispatchEnds(e)
       PROVE  SupervisorInd'
  <2>1. /\ dispatching' = dispatching \ {e}
        /\ UNCHANGED <<supervisorVars, processVars, ready, buffered, flushing, came, drops>>
    BY <1>11 DEF DispatchEnds
  <2> QED
    BY <1>0, <2>1, ProcessKeeps DEF StandaloneTypeOK, processVars
<1>12. CASE UNCHANGED standaloneVars
  <2>1. UNCHANGED <<supervisorVars, processVars, ingressVars, drops>>
    BY <1>12 DEF standaloneVars
  <2> QED
    BY <1>0, <2>1, ProcessKeeps DEF StandaloneTypeOK, processVars, ingressVars
<1> QED
    BY <1>1, <1>2, <1>3, <1>4, <1>5, <1>6, <1>7, <1>8, <1>9, <1>10, <1>11, <1>12 DEF StandaloneNext

(* Nothing that is selected closes the native transport. *)
LEMMA NativeKept ==
    ASSUME SupervisorInd, [StandaloneNext]_standaloneVars, links[Native] \in {"up", "lost"},
           links'[Native] \in {"free", "shut"}
    PROVE  over'
<1> USE StandaloneAssumption
<1>0. /\ links \in Linked /\ SdkTransports \subseteq Transports /\ Native \in Transports
      /\ startup # NoTransport => NothingYet
      /\ handovers \subseteq SdkTransports
    BY DEF SupervisorInd, StandaloneTypeOK, Linked, Transports
<1>1. CASE StartupConnects
    BY <1>0, <1>1 DEF StartupConnects, SelectTransport, NothingYet, Linked
<1>2. CASE StartupFails
  <2>1. startup # Native
    BY <1>2 DEF StartupFails
  <2>2. RetireTransport(startup)
    BY <1>2, <2>1 DEF StartupFails
  <2> QED
    BY <1>0, <2>1, <2>2 DEF RetireTransport, Linked
<1>3. ASSUME NEW t \in Transports, ConnectionDrops(t)
      PROVE  FALSE
    BY <1>0, <1>3 DEF ConnectionDrops, Linked
<1>4. ASSUME NEW t \in Transports, Reconnects(t)
      PROVE  FALSE
    BY <1>0, <1>4 DEF Reconnects, SelectTransport, Linked
<1>5. ASSUME NEW s \in SdkTransports, HandoverConnects(s) \/ HandoverFails(s)
      PROVE  FALSE
    BY <1>0, <1>5 DEF HandoverConnects, HandoverFails, SelectTransport, RetireTransport,
                      FallbackClosesPrevious, Linked
<1>6. CASE MainRetries
    BY <1>0, <1>6 DEF MainRetries, StartLoop, Linked
<1>7. CASE CloseClient
    BY <1>7 DEF CloseClient
<1>8. CASE UNCHANGED links
    BY <1>8
<1>9. \/ BootReturns \/ ListenReturns \/ FlushNext \/ FlushedEnds \/ Signal \/ MainFails \/ RouterClosed
      \/ ClientCloses
      \/ \E t \in Transports : EventArrives(t)
      \/ \E e \in 1..MaxEvents : DispatchEnds(e)
      => UNCHANGED links \/ CloseClient
    BY DEF BootReturns, ListenReturns, FlushNext, FlushedEnds, Signal, BeginShutdown, MainFails, RouterClosed,
           ClientCloses, EventArrives, DispatchEnds, supervisorVars
<1>10. UNCHANGED standaloneVars => UNCHANGED links
    BY DEF standaloneVars, supervisorVars
<1> QED
    BY <1>1, <1>2, <1>3, <1>4, <1>5, <1>6, <1>7, <1>8, <1>9, <1>10 DEF StandaloneNext

LEMMA SupervisorIndHolds == StandaloneSpec => []SupervisorInd
<1>1. SupervisorInd /\ [StandaloneNext]_standaloneVars => SupervisorInd'
    BY SupervisorNext
<1> QED
    BY <1>1, SupervisorStart, PTL DEF StandaloneSpec

(***************************************************************************)
(* The state of the standalone process keeps its types, whatever fails:    *)
(* among them that the buffer of early events never exceeds its bound.     *)
(***************************************************************************)
THEOREM StandaloneTypeCorrect == StandaloneSpec => []StandaloneTypeOK
<1>1. SupervisorInd => StandaloneTypeOK
    BY DEF SupervisorInd
<1> QED
    BY <1>1, SupervisorIndHolds, PTL

(***************************************************************************)
(* However often the primary connection is lost and whatever the fallback  *)
(* does, only the shutdown closes a native transport that was selected.    *)
(***************************************************************************)
THEOREM NativeIsKept == StandaloneSpec => NativeIsNotGivenUp
<1>1. SupervisorInd /\ [StandaloneNext]_standaloneVars =>
        [links[Native] \in {"up", "lost"} /\ links'[Native] \in {"free", "shut"} => over']_standaloneVars
    BY NativeKept
<1> QED
    BY <1>1, SupervisorIndHolds, PTL DEF StandaloneSpec, NativeIsNotGivenUp

-----------------------------------------------------------------------------
(***************************************************************************)
(* SdkClient, for any number of attempts, queue limit and mishaps: a deaf  *)
(* client is never left to itself, a closed one always.                    *)
(***************************************************************************)
LEMMA SdkStart == SdkInit => SdkInd
<1> SUFFICES ASSUME SdkInit
             PROVE  SdkInd
    OBVIOUS
<1>1. sdkLoop.at = "making" /\ sdkLoop.attempt = 0
      /\ sdkLoop \in [at : {"making", "dialling", "retrying", "done", "failed"}, attempt : 0..SdkMaxAttempts]
    BY SdkClientAssumption DEF SdkInit
<1>2. /\ sdkTimer \in BOOLEAN /\ sdkBlocked \in BOOLEAN /\ sdkPolicyClose \in BOOLEAN
      /\ sdkClosing \in BOOLEAN /\ refused \in BOOLEAN
    BY DEF SdkInit
<1>3. sdkQueued \in 0..SdkEventLimit /\ mishaps \in 0..MaxSdkMishaps
    BY SdkClientAssumption DEF SdkInit
<1>4. sdk = "none" /\ sdkDials = {}
    BY DEF SdkInit
<1>5. SdkClientTypeOK
    BY <1>1, <1>2, <1>3, <1>4 DEF SdkClientTypeOK
<1> QED
    BY <1>1, <1>5, SdkClientAssumption
       DEF SdkInit, SdkInd, SomebodyReconnects, ClosedForGood, LoopSound, BlockedSound

LEMMA SdkTyped ==
    ASSUME SdkInd, [SdkNext]_sdkVars
    PROVE  SdkClientTypeOK'
<1> USE SdkClientAssumption
<1> DEFINE Loop == [at : {"making", "dialling", "retrying", "done", "failed"}, attempt : 0..SdkMaxAttempts]
           Client == {"none", "idle", "opening", "open", "closing", "waiting", "shut"}
           Flags == {sdkTimer, sdkBlocked, sdkPolicyClose, sdkClosing, refused} \subseteq BOOLEAN
           Rest == /\ sdk \in Client /\ sdkLoop \in Loop /\ sdkDials \subseteq {"loop", "timer"}
                   /\ sdkQueued \in 0..SdkEventLimit /\ mishaps \in 0..MaxSdkMishaps
<1>1. Flags /\ Rest
    BY DEF SdkInd, SdkClientTypeOK
<1>2. sdkLoop \in Loop
    BY <1>1
<1>3. Rest'
  <2>1. CASE ClientMade \/ SdkOpens \/ RetryDelayEnds \/ SdkCloses
    <3>1. sdkLoop' \in Loop
        BY <1>2, <2>1 DEF ClientMade, SdkOpens, RetryDelayEnds, SdkCloses
    <3>2. /\ sdk' \in Client /\ sdkDials' \subseteq {"loop", "timer"}
          /\ sdkQueued' \in 0..SdkEventLimit /\ mishaps' = mishaps
        BY <1>1, <2>1 DEF ClientMade, SdkOpens, RetryDelayEnds, SdkCloses, OpenListener, ReleaseClient
    <3> QED
        BY <1>1, <3>1, <3>2
  <2>2. CASE DialFails
    <3>1. sdkLoop' \in Loop
      <4>1. CASE "loop" \in sdkDials
        <5>1. sdkLoop.attempt < SdkMaxAttempts /\ sdkLoop.attempt \in Nat
            BY <1>2, <4>1 DEF SdkInd, LoopSound
        <5>2. PICK at \in {"failed", "retrying"} : sdkLoop' = [at |-> at, attempt |-> sdkLoop.attempt + 1]
            BY <2>2, <4>1 DEF DialFails
        <5> QED
            BY <5>1, <5>2
      <4>2. CASE "loop" \notin sdkDials
        BY <1>2, <2>2, <4>2 DEF DialFails
      <4> QED
        BY <4>1, <4>2
    <3>2. sdk' \in Client /\ sdkDials' = {} /\ sdkQueued' \in 0..SdkEventLimit
        BY <1>1, <2>2 DEF DialFails, ReleaseClient
    <3>3. mishaps' \in 0..MaxSdkMishaps
        BY <1>1, <2>2 DEF DialFails, Mishap
    <3> QED
        BY <3>1, <3>2, <3>3
  <2>3. CASE EventEnqueued \/ EventHandled \/ SdkOversizedArrives \/ SdkClosed \/ SdkDrops \/ ProtocolTimerFires
    <3>1. sdkLoop' = sdkLoop
        BY <2>3 DEF EventEnqueued, EventHandled, SdkOversizedArrives, SdkClosed, SdkDrops, ProtocolTimerFires
    <3>2. sdk' \in Client /\ sdkDials' \subseteq {"loop", "timer"}
        BY <1>1, <2>3 DEF EventEnqueued, EventHandled, SdkOversizedArrives, SdkClosed, SdkDrops, ProtocolTimerFires
    <3>3. sdkQueued' \in 0..SdkEventLimit /\ mishaps' \in 0..MaxSdkMishaps
        BY <1>1, <2>3 DEF EventEnqueued, EventHandled, SdkOversizedArrives, SdkClosed, SdkDrops,
                          ProtocolTimerFires, CloseListener, Mishap
    <3> QED
        BY <1>2, <3>1, <3>2, <3>3
  <2>4. CASE UNCHANGED sdkVars
    BY <1>1, <2>4 DEF sdkVars
  <2> QED
    BY <2>1, <2>2, <2>3, <2>4 DEF SdkNext
<1>4. Flags'
  <2>1. CASE ClientMade \/ SdkOpens \/ RetryDelayEnds \/ SdkCloses \/ DialFails
    BY <1>1, <2>1 DEF ClientMade, SdkOpens, RetryDelayEnds, SdkCloses, DialFails, OpenListener, ReleaseClient,
                      RedialFails, ScheduleProtocolReconnect
  <2>2. CASE EventEnqueued \/ EventHandled \/ SdkOversizedArrives \/ SdkClosed \/ SdkDrops \/ ProtocolTimerFires
    BY <1>1, <2>2 DEF EventEnqueued, EventHandled, SdkOversizedArrives, SdkClosed, SdkDrops, ProtocolTimerFires,
                      CloseListener, ScheduleProtocolReconnect
  <2>3. CASE UNCHANGED sdkVars
    BY <1>1, <2>3 DEF sdkVars
  <2> QED
    BY <2>1, <2>2, <2>3 DEF SdkNext
<1> QED
    BY <1>3, <1>4 DEF SdkClientTypeOK

(* Who waits for the client, and what it is while somebody does. *)
LEMMA SdkLoopSound ==
    ASSUME SdkInd, [SdkNext]_sdkVars
    PROVE  LoopSound' /\ BlockedSound' /\ ClosedForGood'
<1> USE SdkClientAssumption
<1>1. /\ sdkLoop \in [at : {"making", "dialling", "retrying", "done", "failed"}, attempt : 0..SdkMaxAttempts]
      /\ sdkDials \subseteq {"loop", "timer"} /\ sdkClosing \in BOOLEAN
      /\ LoopSound /\ BlockedSound /\ ClosedForGood
    BY DEF SdkInd, SdkClientTypeOK
<1> USE DEF LoopSound, BlockedSound, ClosedForGood
<1>2. CASE ClientMade
    BY <1>1, <1>2 DEF ClientMade
<1>3. CASE SdkOpens
    BY <1>1, <1>3 DEF SdkOpens, OpenListener
<1>4. CASE DialFails
  <2>1. CASE "loop" \in sdkDials
    <3>1. /\ sdkLoop' = [at |-> IF sdkLoop.attempt + 1 >= SdkMaxAttempts THEN "failed" ELSE "retrying",
                         attempt |-> sdkLoop.attempt + 1]
          /\ sdk' = "none" /\ sdkDials' = {} /\ sdkTimer' = FALSE /\ sdkClosing' = sdkClosing
        BY <1>4, <2>1 DEF DialFails, ReleaseClient
    <3>2. sdkLoop.attempt \in Nat
        BY <1>1
    <3> QED
        BY <3>1, <3>2
  <2>2. CASE "loop" \notin sdkDials
    BY <1>1, <1>4, <2>2 DEF DialFails, RedialFails, ScheduleProtocolReconnect
  <2> QED
    BY <2>1, <2>2
<1>5. CASE RetryDelayEnds
    BY <1>1, <1>5 DEF RetryDelayEnds
<1>6. CASE EventEnqueued \/ EventHandled
  <2>1. UNCHANGED <<sdk, sdkLoop, sdkDials, sdkTimer, sdkBlocked, sdkPolicyClose, sdkClosing, refused>>
    BY <1>6 DEF EventEnqueued, EventHandled
  <2> QED
    BY <1>1, <2>1
<1>7. CASE SdkOversizedArrives
    BY <1>1, <1>7 DEF SdkOversizedArrives, ScheduleProtocolReconnect
<1>8. CASE SdkClosed \/ SdkDrops
    BY <1>1, <1>8 DEF SdkClosed, SdkDrops, CloseListener, ScheduleProtocolReconnect
<1>9. CASE ProtocolTimerFires
    BY <1>1, <1>9 DEF ProtocolTimerFires
<1>10. CASE SdkCloses
    BY <1>1, <1>10 DEF SdkCloses, ReleaseClient
<1>11. CASE UNCHANGED sdkVars
    BY <1>1, <1>11 DEF sdkVars
<1> QED
    BY <1>2, <1>3, <1>4, <1>5, <1>6, <1>7, <1>8, <1>9, <1>10, <1>11 DEF SdkNext

(* Every step that ends one way back leaves another. *)
LEMMA DeafIsReconnected ==
    ASSUME SdkInd, [SdkNext]_sdkVars
    PROVE  SomebodyReconnects'
<1>1. /\ LoopSound /\ BlockedSound /\ ClosedForGood /\ SomebodyReconnects
      /\ sdkTimer \in BOOLEAN /\ sdkClosing \in BOOLEAN
      /\ sdkLoop \in [at : {"making", "dialling", "retrying", "done", "failed"}, attempt : 0..SdkMaxAttempts]
    BY DEF SdkInd, SdkClientTypeOK
<1> USE DEF LoopSound, BlockedSound, ClosedForGood, SomebodyReconnects, ReconnectionPending
<1>2. CASE ClientMade
    BY <1>1, <1>2 DEF ClientMade
<1>3. CASE SdkOpens
    BY <1>1, <1>3 DEF SdkOpens, OpenListener
<1>4. CASE DialFails
  <2>1. CASE "loop" \in sdkDials
    <3>1. sdkLoop' = [at |-> IF sdkLoop.attempt + 1 >= SdkMaxAttempts THEN "failed" ELSE "retrying",
                      attempt |-> sdkLoop.attempt + 1]
        BY <1>4, <2>1 DEF DialFails
    <3>2. sdkLoop'.at # "done"
        BY <3>1
    <3> QED
        BY <3>2
  <2>2. CASE "loop" \notin sdkDials
    BY <1>1, <1>4, <2>2 DEF DialFails, RedialFails, ScheduleProtocolReconnect
  <2> QED
    BY <2>1, <2>2
<1>5. CASE RetryDelayEnds
    BY <1>1, <1>5 DEF RetryDelayEnds
<1>6. CASE EventEnqueued \/ EventHandled
    BY <1>1, <1>6 DEF EventEnqueued, EventHandled
<1>7. CASE SdkOversizedArrives
    BY <1>1, <1>7 DEF SdkOversizedArrives
<1>8. CASE SdkClosed
    BY <1>1, <1>8 DEF SdkClosed, CloseListener, AfterPolicyClose, ScheduleProtocolReconnect
<1>9. CASE SdkDrops
    BY <1>1, <1>9 DEF SdkDrops
<1>10. CASE ProtocolTimerFires
    BY <1>1, <1>10 DEF ProtocolTimerFires
<1>11. CASE SdkCloses
    BY <1>1, <1>11 DEF SdkCloses
<1>12. CASE UNCHANGED sdkVars
    BY <1>1, <1>12 DEF sdkVars
<1> QED
    BY <1>2, <1>3, <1>4, <1>5, <1>6, <1>7, <1>8, <1>9, <1>10, <1>11, <1>12 DEF SdkNext

LEMMA SdkIndHolds == SdkSpec => []SdkInd
<1>1. SdkInd /\ [SdkNext]_sdkVars => SdkInd'
    BY SdkTyped, SdkLoopSound, DeafIsReconnected DEF SdkInd
<1> QED
    BY <1>1, SdkStart, PTL DEF SdkSpec

(***************************************************************************)
(* While a connected SDK client is deaf, the SDK, the close event it waits *)
(* for, a handshake or the timer is about to reconnect it, whatever fails  *)
(* on the way, unless it is being closed or the SDK refused to close: the  *)
(* safety half of DeafnessEnds.                                            *)
(***************************************************************************)
THEOREM DeafnessIsNoticed == SdkSpec => []SomebodyReconnects
<1>1. SdkInd => SomebodyReconnects
    BY DEF SdkInd
<1> QED
    BY <1>1, SdkIndHolds, PTL

(***************************************************************************)
(* After close() no timer, handshake or reconnection of before brings the  *)
(* SDK client back.                                                        *)
(***************************************************************************)
THEOREM SdkStaysClosed == SdkSpec => []ClosedForGood
<1>1. SdkInd => ClosedForGood
    BY DEF SdkInd
<1> QED
    BY <1>1, SdkIndHolds, PTL

-----------------------------------------------------------------------------
(***************************************************************************)
(* OneBotPort, for any calls, hosts and errors: what the count of calls in *)
(* flight is worth when calls outlive the host they were made through.     *)
(***************************************************************************)
Tracker == [inFlight : Int, override : {"none", "disconnected", "auth_failed"}, at : 0..MaxClock]
Diagnoses == [state : {"disconnected", "connected", "reconnecting"}, at : 0..MaxClock, ever : BOOLEAN]

LEMMA PortStart == PortInit => PortInd
BY PortAssumption DEF PortInit, PortInd, PortTypeOK, NewTracker

LEMMA DiagnoseTyped ==
    ASSUME PortTypeOK
    PROVE  Diagnose \in Diagnoses
BY DEF PortTypeOK, Diagnose, Diagnoses

LEMMA SnapshotKeeps ==
    ASSUME NEW t \in Tracker, NEW d
    PROVE  SnapshotOf(t, d) \in Tracker /\ SnapshotOf(t, d).inFlight = t.inFlight
BY DEF SnapshotOf, NoOverride, Tracker

LEMMA RecordErrorKeeps ==
    ASSUME NEW t \in Tracker, NEW category, clock \in 0..MaxClock
    PROVE  RecordError(t, category) \in Tracker /\ RecordError(t, category).inFlight = t.inFlight
<1> DEFINE r == [t EXCEPT !.override = "auth_failed", !.at = clock]
           s == [t EXCEPT !.override = "disconnected", !.at = clock]
<1>1. /\ r \in Tracker /\ r.inFlight = t.inFlight
      /\ s \in Tracker /\ s.inFlight = t.inFlight
    BY DEF Tracker
<1>2. RecordError(t, category) \in {r, s, t}
    BY DEF RecordError
<1> QED
    BY <1>1, <1>2

LEMMA FinishKeeps ==
    ASSUME NEW t \in Tracker, t.inFlight >= 0
    PROVE  /\ FinishAction(t) \in Tracker /\ FinishAction(t).inFlight >= 0
           /\ FinishAction(t).inFlight = IF t.inFlight > 0 THEN t.inFlight - 1 ELSE 0
BY DEF FinishAction, Tracker

(* What is left of a call that comes back: its tracker one call lower. *)
LEMMA ReturnKeeps ==
    ASSUME PortInd, NEW c \in PortCalls, NEW verdict, CallReturns(c, verdict), host # 0
    PROVE  /\ telemetry' \in Tracker /\ diagnosis' \in Diagnoses /\ failures' \in 0..MaxPortErrors
           /\ telemetry'.inFlight = IF telemetry.inFlight > 0 THEN telemetry.inFlight - 1 ELSE 0
<1>1. /\ telemetry \in Tracker /\ telemetry.inFlight >= 0 /\ PortTypeOK /\ clock \in 0..MaxClock
      /\ failures \in 0..MaxPortErrors /\ MaxPortErrors \in Nat
    BY PortAssumption DEF PortInd, PortTypeOK, Tracker
<1> DEFINE t == FinishAction(telemetry)
           ended == IF verdict = "ok" THEN NoOverride(t) ELSE RecordError(t, verdict)
<1>2. /\ telemetry' = SnapshotOf(ended, Diagnose) /\ diagnosis' = Diagnose
      /\ failures' = IF verdict = "ok" THEN failures ELSE failures + 1
      /\ verdict # "ok" => failures < MaxPortErrors
    BY DEF CallReturns, FinishFailedAction
<1>3. t \in Tracker /\ t.inFlight = IF telemetry.inFlight > 0 THEN telemetry.inFlight - 1 ELSE 0
    BY <1>1, FinishKeeps
<1> HIDE DEF t
<1>4. NoOverride(t) \in Tracker /\ NoOverride(t).inFlight = t.inFlight
    BY <1>3 DEF NoOverride, Tracker
<1>5. RecordError(t, verdict) \in Tracker
      /\ RecordError(t, verdict).inFlight = t.inFlight
    BY <1>1, <1>3, RecordErrorKeeps
<1>6. ended \in Tracker /\ ended.inFlight = t.inFlight
    BY <1>4, <1>5
<1> HIDE DEF ended
<1>7. SnapshotOf(ended, Diagnose) \in Tracker /\ SnapshotOf(ended, Diagnose).inFlight = ended.inFlight
    BY <1>6, SnapshotKeeps
<1>8. failures' \in 0..MaxPortErrors
    BY <1>1, <1>2
<1> QED
    BY <1>1, <1>2, <1>3, <1>6, <1>7, <1>8, DiagnoseTyped

(* Steps that neither begin nor end a call of the host, nor change it. *)
LEMMA PortKeeps ==
    ASSUME PortInd, UNCHANGED <<host, hosts, calls>>, telemetry' \in Tracker,
           telemetry'.inFlight = telemetry.inFlight, host # 0 \/ telemetry' = telemetry,
           diagnosis' \in Diagnoses, linkUp' \in BOOLEAN,
           clock' \in 0..MaxClock, failures' \in 0..MaxPortErrors
    PROVE  PortInd'
<1>1. CallsOfHost' = CallsOfHost
    BY DEF CallsOfHost
<1> QED
    BY <1>1 DEF PortInd, PortTypeOK, Tracker, Diagnoses, NeverOvercounted

LEMMA PortInductive ==
    ASSUME PortInd, [PortNext]_portVars
    PROVE  PortInd'
<1> USE PortAssumption
<1>0. /\ PortTypeOK /\ telemetry \in Tracker /\ diagnosis \in Diagnoses
      /\ host \in 0..MaxHosts /\ hosts \in 0..MaxHosts /\ calls \in [PortCalls -> 0..hosts \cup {NoCallYet}]
      /\ linkUp \in BOOLEAN /\ clock \in 0..MaxClock /\ failures \in 0..MaxPortErrors
    BY DEF PortInd, PortTypeOK, Tracker, Diagnoses
<1>1. CASE SetRuntimeHost
  <2>1. /\ hosts' = hosts + 1 /\ host' = hosts + 1 /\ hosts < MaxHosts /\ telemetry' = NewTracker
        /\ UNCHANGED <<calls, linkUp, diagnosis, clock, failures>>
    BY <1>1 DEF SetRuntimeHost
  <2>2. \A c \in PortCalls : calls[c] # hosts + 1
    BY <1>0
  <2>3. CallsOfHost' = {}
    BY <2>1, <2>2 DEF CallsOfHost
  <2>4. IsFiniteSet({}) /\ Cardinality({}) = 0
    BY FS_EmptySet
  <2>5. NewTracker \in Tracker /\ NewTracker.inFlight = 0
    BY DEF NewTracker, Tracker
  <2>6. hosts' \in 0..MaxHosts /\ calls' \in [PortCalls -> 0..hosts' \cup {NoCallYet}]
        /\ \A c \in PortCalls : calls'[c] \in 0..MaxHosts \cup {NoCallYet}
    BY <1>0, <2>1
  <2> QED
    BY <1>0, <2>1, <2>3, <2>4, <2>5, <2>6 DEF PortInd, PortTypeOK, Tracker, Diagnoses, NeverOvercounted
<1>2. CASE ClearRuntimeHost
  <2>1. /\ host' = 0 /\ telemetry' = NewTracker /\ UNCHANGED <<hosts, calls, linkUp, diagnosis, clock, failures>>
    BY <1>2 DEF ClearRuntimeHost
  <2>2. NewTracker \in Tracker /\ NewTracker.inFlight = 0
    BY DEF NewTracker, Tracker
  <2> QED
    BY <1>0, <2>1, <2>2 DEF PortInd, PortTypeOK, Tracker, Diagnoses
<1>3. ASSUME NEW c \in PortCalls, CallOneBot(c)
      PROVE  PortInd'
  <2>1. /\ calls[c] = NoCallYet /\ host # 0 /\ calls' = [calls EXCEPT ![c] = host]
        /\ telemetry' = [telemetry EXCEPT !.inFlight = @ + 1]
        /\ UNCHANGED <<host, hosts, linkUp, diagnosis, clock, failures>>
    BY <1>3 DEF CallOneBot
  <2>2. IsFiniteSet(CallsOfHost) /\ telemetry.inFlight <= Cardinality(CallsOfHost) /\ telemetry.inFlight >= 0
        /\ host <= hosts
    BY <2>1 DEF PortInd, NeverOvercounted
  <2>3. c \notin CallsOfHost /\ CallsOfHost' = CallsOfHost \cup {c}
    BY <1>0, <2>1 DEF CallsOfHost
  <2>4. IsFiniteSet(CallsOfHost') /\ Cardinality(CallsOfHost') = Cardinality(CallsOfHost) + 1
        /\ Cardinality(CallsOfHost) \in Nat
    BY <2>2, <2>3, FS_AddElement, FS_CardinalityType
  <2>5. telemetry' \in Tracker /\ telemetry'.inFlight = telemetry.inFlight + 1 /\ telemetry.inFlight \in Int
    BY <1>0, <2>1 DEF Tracker
  <2>6. calls' \in [PortCalls -> 0..hosts \cup {NoCallYet}]
        /\ \A k \in PortCalls : calls'[k] \in 0..MaxHosts \cup {NoCallYet}
    BY <1>0, <2>1, <2>2
  <2> QED
    BY <1>0, <2>1, <2>2, <2>4, <2>5, <2>6 DEF PortInd, PortTypeOK, Tracker, Diagnoses, NeverOvercounted
<1>4. ASSUME NEW c \in PortCalls, NEW verdict, CallReturns(c, verdict)
      PROVE  PortInd'
  <2>1. /\ calls[c] \notin {NoCallYet, 0} /\ calls' = [calls EXCEPT ![c] = 0]
        /\ UNCHANGED <<host, hosts, linkUp, clock>>
    BY <1>4 DEF CallReturns
  <2>2. calls' \in [PortCalls -> 0..hosts \cup {NoCallYet}]
        /\ \A k \in PortCalls : calls'[k] \in 0..MaxHosts \cup {NoCallYet}
    BY <1>0, <2>1
  <2>3. CASE host = 0
    <3>1. UNCHANGED <<telemetry, diagnosis, failures>>
        BY <1>4, <2>3 DEF CallReturns
    <3> QED
        BY <1>0, <2>1, <2>2, <2>3, <3>1 DEF PortInd, PortTypeOK, Tracker, Diagnoses
  <2>4. CASE host # 0
    <3>1. /\ telemetry' \in Tracker /\ diagnosis' \in Diagnoses /\ failures' \in 0..MaxPortErrors
          /\ telemetry'.inFlight = IF telemetry.inFlight > 0 THEN telemetry.inFlight - 1 ELSE 0
        BY <1>4, <2>4, ReturnKeeps
    <3>2. /\ IsFiniteSet(CallsOfHost) /\ telemetry.inFlight <= Cardinality(CallsOfHost)
          /\ telemetry.inFlight >= 0 /\ telemetry.inFlight \in Int /\ host <= hosts
        BY <1>0, <2>4 DEF PortInd, NeverOvercounted, Tracker
    <3>3. CallsOfHost' = CallsOfHost \ {c}
        BY <1>0, <2>1, <2>4 DEF CallsOfHost
    <3>4. /\ IsFiniteSet(CallsOfHost') /\ Cardinality(CallsOfHost) \in Nat
          /\ Cardinality(CallsOfHost') = IF c \in CallsOfHost THEN Cardinality(CallsOfHost) - 1
                                         ELSE Cardinality(CallsOfHost)
        BY <3>2, <3>3, FS_RemoveElement, FS_CardinalityType
    <3>5. Cardinality(CallsOfHost') \in Nat
        BY <3>4, FS_CardinalityType
    <3>6. telemetry'.inFlight <= Cardinality(CallsOfHost') /\ telemetry'.inFlight >= 0
        BY <3>1, <3>2, <3>4, <3>5
    <3> QED
        BY <1>0, <2>1, <2>2, <2>4, <3>1, <3>2, <3>4, <3>6
           DEF PortInd, PortTypeOK, Tracker, Diagnoses, NeverOvercounted
  <2> QED
    BY <2>3, <2>4
<1>5. CASE RecordProviderEvent
  <2>1. /\ host # 0 /\ telemetry' = NoOverride(telemetry)
        /\ UNCHANGED <<host, hosts, calls, linkUp, diagnosis, clock, failures>>
    BY <1>5 DEF RecordProviderEvent, AfterEvent
  <2>2. NoOverride(telemetry) \in Tracker /\ NoOverride(telemetry).inFlight = telemetry.inFlight
    BY <1>0 DEF NoOverride, Tracker
  <2> QED
    BY <1>0, <2>1, <2>2, PortKeeps
<1>6. CASE RecordProviderError
  <2>1. PICK category \in ErrorCategories : telemetry' = RecordError(telemetry, category)
    BY <1>6 DEF RecordProviderError
  <2>2. /\ host # 0 /\ failures < MaxPortErrors /\ failures' = failures + 1
        /\ UNCHANGED <<host, hosts, calls, linkUp, diagnosis, clock>>
    BY <1>6 DEF RecordProviderError
  <2>3. telemetry' \in Tracker /\ telemetry'.inFlight = telemetry.inFlight
    BY <1>0, <2>1, RecordErrorKeeps
  <2>4. failures' \in 0..MaxPortErrors
    BY <1>0, <2>2
  <2> QED
    BY <1>0, <2>2, <2>3, <2>4, PortKeeps
<1>7. CASE GetProviderTelemetry
  <2>1. /\ host # 0 /\ diagnosis' = Diagnose /\ telemetry' = SnapshotOf(telemetry, Diagnose)
        /\ UNCHANGED <<host, hosts, calls, linkUp, clock, failures>>
    BY <1>7 DEF GetProviderTelemetry
  <2> QED
    BY <1>0, <2>1, SnapshotKeeps, DiagnoseTyped, PortKeeps
<1>8. CASE LinkChanges
  <2>1. /\ clock < MaxClock /\ linkUp' = ~linkUp /\ clock' = clock + 1
        /\ UNCHANGED <<host, hosts, telemetry, calls, diagnosis, failures>>
    BY <1>8 DEF LinkChanges
  <2>2. clock' \in 0..MaxClock /\ linkUp' \in BOOLEAN
    BY <1>0, <2>1
  <2> QED
    BY <1>0, <2>1, <2>2, PortKeeps
<1>9. CASE UNCHANGED portVars
    BY <1>0, <1>9, PortKeeps DEF portVars
<1> QED
    BY <1>1, <1>2, <1>3, <1>4, <1>5, <1>6, <1>7, <1>8, <1>9 DEF PortNext

(***************************************************************************)
(* The count of calls in flight never exceeds the calls begun through the  *)
(* host of the time and not over, whatever outlives an earlier host.       *)
(***************************************************************************)
THEOREM CountIsALowerBound == PortSpec => []NeverOvercounted
<1>1. PortInd /\ [PortNext]_portVars => PortInd'
    BY PortInductive
<1>2. PortInd => NeverOvercounted
    BY DEF PortInd, NeverOvercounted
<1> QED
    BY <1>1, <1>2, PortStart, PTL DEF PortSpec

-----------------------------------------------------------------------------
(***************************************************************************)
(* SafeFetch, for any hosts, addresses, policies and calls, and whatever   *)
(* resolver and servers answer: connections stay within the policy of      *)
(* their call and credentials at the origin they were given for.           *)
(***************************************************************************)
(* Every step writes one call; it is enough to look at what it becomes. *)
LEMMA OneCallWritten ==
    ASSUME FetchIndInv, NEW f \in Fetches, NEW r,
           fetch' = [fetch EXCEPT ![f] = r], r \in Request \cup {None},
           r # None => Abides(r),
           deadline' \in [Fetches -> {"off", "armed", "fired"}],
           artifact' \in [Fetches -> 0..MaxChunks \cup {None}],
           connected' = connected \/
               (/\ connected' \in Connection
                /\ UrlAllowed(connected'.guard, connected'.url)
                /\ ResolvedAddressesAllowed(connected'.guard, {connected'.address})
                /\ connected'.secret => connected'.url = connected'.origin)
    PROVE  FetchIndInv'
<1>1. FetchTypeOK'
    BY DEF FetchIndInv, FetchTypeOK
<1>2. ASSUME NEW g \in Fetches, fetch'[g] # None PROVE Abides(fetch'[g])
    BY <1>2 DEF FetchIndInv, FetchTypeOK
<1>3. ConnectionsAreAllowed' /\ CredentialsStayHome'
    <2>1. CASE connected' = connected
        BY <2>1 DEF FetchIndInv, ConnectionsAreAllowed, CredentialsStayHome
    <2>2. CASE connected' # connected
        BY <2>2 DEF ConnectionsAreAllowed, CredentialsStayHome
    <2> QED
        BY <2>1, <2>2
<1>4. \A g \in Fetches : fetch'[g] # None => Abides(fetch'[g])
    BY <1>2
<1>5. (\A g \in Fetches : fetch[g] # None => Abides(fetch[g]))'
    BY <1>4 DEF Abides
<1> QED
    BY <1>1, <1>3, <1>5 DEF FetchIndInv

LEMMA MovedAbides ==
    ASSUME NEW r \in Request, Abides(r), NEW stage \in Stage,
           stage \in {"validating", "connecting", "answered"} =>
               r.at \in {"validating", "connecting", "answered"}
    PROVE  Moved(r, stage) \in Request /\ Abides(Moved(r, stage))
<1>1. /\ Moved(r, stage).at = stage /\ Moved(r, stage).guard = r.guard
      /\ Moved(r, stage).url = r.url /\ Moved(r, stage).origin = r.origin
      /\ Moved(r, stage).secret = r.secret /\ Moved(r, stage) \in Request
    BY DEF Moved, Request
<1> QED
    BY <1>1 DEF Abides

(* A step that moves a call on, or ends it, connecting nowhere. *)
LEMMA MovedKeeps ==
    ASSUME FetchIndInv, NEW f \in Fetches, fetch[f] # None, NEW stage \in Stage,
           stage \in {"validating", "connecting", "answered"} =>
               fetch[f].at \in {"validating", "connecting", "answered"},
           Go(f, stage), connected' = connected,
           deadline' \in [Fetches -> {"off", "armed", "fired"}],
           artifact' \in [Fetches -> 0..MaxChunks \cup {None}]
    PROVE  FetchIndInv'
<1>1. fetch[f] \in Request /\ Abides(fetch[f])
    BY DEF FetchIndInv, FetchTypeOK
<1>2. Moved(fetch[f], stage) \in Request /\ Abides(Moved(fetch[f], stage))
    BY <1>1, MovedAbides
<1>3. fetch' = [fetch EXCEPT ![f] = Moved(fetch[f], stage)]
    BY DEF Go
<1> QED
    BY <1>2, <1>3, OneCallWritten

LEMMA FetchInductive ==
    ASSUME FetchIndInv, [FetchNext]_fetchVars
    PROVE  FetchIndInv'
<1>1. FetchTypeOK
    BY DEF FetchIndInv
<1> USE SafeFetchAssumption
<1>2. ASSUME NEW f \in Fetches, FetchRemote(f) PROVE FetchIndInv'
    <2>1. PICK guard \in Guards, url \in Url, secret \in BOOLEAN :
             fetch' = [fetch EXCEPT ![f] =
                [at |-> IF UrlAllowed(guard, url) THEN "validating" ELSE "thrown",
                 guard |-> guard, url |-> url, origin |-> url, secret |-> secret,
                 redirects |-> 0, size |-> 0, read |-> 0]]
        BY <1>2 DEF FetchRemote
    <2> DEFINE r == [at |-> IF UrlAllowed(guard, url) THEN "validating" ELSE "thrown",
                     guard |-> guard, url |-> url, origin |-> url, secret |-> secret,
                     redirects |-> 0, size |-> 0, read |-> 0]
    <2>2. r \in Request
        BY DEF Request, Stage
    <2>3. Abides(r)
        BY DEF Abides
    <2> HIDE DEF r
    <2>4. fetch' = [fetch EXCEPT ![f] = r]
        BY <2>1 DEF r
    <2> QED
        BY <1>1, <1>2, <2>2, <2>3, <2>4, OneCallWritten DEF FetchRemote, FetchTypeOK
<1>3. ASSUME NEW f \in Fetches, fetch[f] # None, Throw(f), UNCHANGED connected,
             artifact' \in [Fetches -> 0..MaxChunks \cup {None}]
      PROVE  FetchIndInv'
    BY <1>1, <1>3, MovedKeeps DEF Throw, Settle, Stage, FetchTypeOK
<1>4. ASSUME NEW f \in Fetches, TargetValidated(f) PROVE FetchIndInv'
    <2>1. fetch[f] # None /\ fetch[f].at = "validating" /\ UNCHANGED <<artifact, connected>>
        BY <1>4 DEF TargetValidated, At
    <2>2. CASE Throw(f)
        BY <1>1, <1>3, <2>1, <2>2 DEF FetchTypeOK
    <2>3. CASE Go(f, "connecting") /\ deadline' \in [Fetches -> {"off", "armed", "fired"}]
        BY <1>1, <2>1, <2>3, MovedKeeps DEF FetchTypeOK, Stage
    <2> QED
        BY <1>1, <1>4, <2>2, <2>3 DEF TargetValidated, FetchTypeOK
<1>5. ASSUME NEW f \in Fetches, ConnectHop(f) PROVE FetchIndInv'
    <2>1. fetch[f] # None /\ fetch[f].at = "connecting" /\ UNCHANGED artifact
        BY <1>5 DEF ConnectHop, At
    <2>2. CASE Throw(f) /\ UNCHANGED connected
        BY <1>1, <1>3, <2>1, <2>2 DEF FetchTypeOK
    <2>3. CASE ~(Throw(f) /\ UNCHANGED connected)
        <3>1. PICK answers \in SUBSET Addresses :
                 /\ Lookup(fetch[f].guard, answers)
                 /\ \E a \in answers :
                       connected' = [address |-> a, url |-> fetch[f].url, origin |-> fetch[f].origin,
                                     secret |-> fetch[f].secret, guard |-> fetch[f].guard]
                 /\ Go(f, "answered") /\ UNCHANGED deadline
            BY <1>5, <2>3 DEF ConnectHop
        <3>2. PICK a \in answers :
                 connected' = [address |-> a, url |-> fetch[f].url, origin |-> fetch[f].origin,
                               secret |-> fetch[f].secret, guard |-> fetch[f].guard]
            BY <3>1
        <3>3. fetch[f] \in Request /\ Abides(fetch[f])
            BY <1>1, <2>1 DEF FetchIndInv, FetchTypeOK
        <3>4. Moved(fetch[f], "answered") \in Request /\ Abides(Moved(fetch[f], "answered"))
            BY <2>1, <3>3, MovedAbides DEF Stage
        <3>5. connected' \in Connection
            BY <3>2, <3>3 DEF Connection, Request
        <3>6. UrlAllowed(connected'.guard, connected'.url)
            BY <2>1, <3>2, <3>3 DEF Abides
        <3>7. ResolvedAddressesAllowed(connected'.guard, {connected'.address})
            BY <3>1, <3>2 DEF Lookup, ResolvedAddressesAllowed
        <3>8. connected'.secret => connected'.url = connected'.origin
            BY <3>2, <3>3 DEF Abides
        <3>9. fetch' = [fetch EXCEPT ![f] = Moved(fetch[f], "answered")]
            BY <3>1 DEF Go
        <3>10. /\ deadline' \in [Fetches -> {"off", "armed", "fired"}]
               /\ artifact' \in [Fetches -> 0..MaxChunks \cup {None}]
            BY <1>1, <2>1, <3>1 DEF FetchTypeOK
        <3> QED
            BY <3>4, <3>5, <3>6, <3>7, <3>8, <3>9, <3>10, OneCallWritten
    <2> QED
        BY <2>2, <2>3
<1>6. ASSUME NEW f \in Fetches, RequestFails(f) \/ ResponseRefused(f) PROVE FetchIndInv'
    BY <1>1, <1>3, <1>6 DEF RequestFails, ResponseRefused, At, FetchTypeOK
<1>7. ASSUME NEW f \in Fetches, Redirected(f) PROVE FetchIndInv'
    <2>1. fetch[f] # None /\ UNCHANGED <<artifact, connected>>
        BY <1>7 DEF Redirected, At
    <2>2. fetch[f] \in Request
        BY <1>1, <2>1 DEF FetchTypeOK
    <2>3. CASE Throw(f)
        BY <1>1, <1>3, <2>1, <2>3 DEF FetchTypeOK
    <2>4. CASE ~Throw(f)
        <3>1. PICK next \in Url : /\ UrlAllowed(fetch[f].guard, next)
                                  /\ fetch' = [fetch EXCEPT ![f] = Redirection(fetch[f], next)]
                                  /\ UNCHANGED deadline /\ ~(fetch[f].redirects >= MaxRedirects)
            BY <1>7, <2>4 DEF Redirected
        <3> DEFINE r == Redirection(fetch[f], next)
        <3>2. fetch[f].redirects + 1 \in 0..MaxRedirects /\ Credentials(fetch[f], next) \in BOOLEAN
            BY <2>2, <3>1 DEF Request, Credentials
        <3>3. r \in Request /\ r.guard = fetch[f].guard /\ r.url = next /\ r.origin = fetch[f].origin
              /\ r.secret = Credentials(fetch[f], next)
            BY <2>2, <3>2 DEF Redirection, Request, Stage
        <3>4. Abides(fetch[f])
            BY <2>1 DEF FetchIndInv
        <3>5. Abides(r)
            BY <3>1, <3>3, <3>4 DEF Abides, Credentials
        <3> HIDE DEF r
        <3>6. fetch' = [fetch EXCEPT ![f] = r]
            BY <3>1 DEF r
        <3> QED
            BY <1>1, <2>1, <3>1, <3>3, <3>5, <3>6, OneCallWritten DEF FetchTypeOK
    <2> QED
        BY <2>3, <2>4
<1>8. ASSUME NEW f \in Fetches, ResponseAccepted(f) \/ ChunkArrives(f) PROVE FetchIndInv'
    <2>1. fetch[f] # None /\ UNCHANGED <<artifact, connected>> /\ fetch[f] \in Request /\ Abides(fetch[f])
        BY <1>1, <1>8 DEF ResponseAccepted, ChunkArrives, At, FetchIndInv, FetchTypeOK
    <2>2. CASE Throw(f)
        BY <1>1, <1>3, <2>1, <2>2 DEF FetchTypeOK
    <2>3. ASSUME NEW r \in Request, r.at = "reading", r.secret = fetch[f].secret, r.url = fetch[f].url,
                 r.origin = fetch[f].origin, fetch' = [fetch EXCEPT ![f] = r], UNCHANGED deadline
          PROVE  FetchIndInv'
        <3>1. Abides(r)
            BY <2>1, <2>3 DEF Abides
        <3> QED
            BY <1>1, <2>1, <2>3, <3>1, OneCallWritten DEF FetchTypeOK
    <2>4. CASE ResponseAccepted(f)
        <3>1. PICK size \in 0..MaxChunks :
                 fetch' = [fetch EXCEPT ![f] = [fetch[f] EXCEPT !.at = "reading", !.size = size]]
            BY <2>4 DEF ResponseAccepted
        <3> DEFINE r == [fetch[f] EXCEPT !.at = "reading", !.size = size]
        <3>2. /\ r \in Request /\ r.at = "reading" /\ r.secret = fetch[f].secret
              /\ r.url = fetch[f].url /\ r.origin = fetch[f].origin
            BY <2>1 DEF Request, Stage
        <3> QED
            BY <2>3, <2>4, <3>1, <3>2 DEF ResponseAccepted, BodyCovered
    <2>5. CASE ChunkArrives(f) /\ ~Throw(f)
        <3>1. /\ fetch' = [fetch EXCEPT ![f] = [fetch[f] EXCEPT !.read = fetch[f].read + 1]]
              /\ fetch[f].read # MaxChunks /\ UNCHANGED deadline /\ fetch[f].at = "reading"
            BY <2>5 DEF ChunkArrives, At
        <3> DEFINE r == [fetch[f] EXCEPT !.read = fetch[f].read + 1]
        <3>2. fetch[f].read + 1 \in 0..MaxChunks
            BY <2>1, <3>1 DEF Request
        <3>3. /\ r \in Request /\ r.at = "reading" /\ r.secret = fetch[f].secret
              /\ r.url = fetch[f].url /\ r.origin = fetch[f].origin
            BY <2>1, <3>1, <3>2 DEF Request, Stage
        <3> QED
            BY <2>3, <3>1, <3>3
    <2> QED
        BY <1>8, <2>2, <2>4, <2>5
<1>9. ASSUME NEW f \in Fetches, BytesRead(f) \/ FileWritten(f) PROVE FetchIndInv'
    <2>1. fetch[f] # None /\ UNCHANGED connected /\ fetch[f] \in Request
        BY <1>1, <1>9 DEF BytesRead, FileWritten, At, FetchTypeOK
    <2>2. artifact' \in [Fetches -> 0..MaxChunks \cup {None}]
        BY <1>1, <1>9, <2>1 DEF BytesRead, FileWritten, Publish, FetchTypeOK, Request
    <2>3. PICK stage \in {"returned", "thrown"} : Settle(f, stage)
        BY <1>9 DEF BytesRead, FileWritten
    <2> QED
        BY <1>1, <2>1, <2>2, <2>3, MovedKeeps DEF Settle, Stage, FetchTypeOK
<1>10. ASSUME NEW f \in Fetches, DeadlineFires(f) PROVE FetchIndInv'
    <2>1. FetchTypeOK' /\ UNCHANGED <<fetch, connected>>
        BY <1>1, <1>10 DEF DeadlineFires, FetchTypeOK
    <2> QED
        BY <2>1 DEF FetchIndInv, Abides, ConnectionsAreAllowed, CredentialsStayHome
<1>11. ASSUME NEW f \in Fetches, Aborted(f) PROVE FetchIndInv'
    BY <1>1, <1>3, <1>11 DEF Aborted, At, FetchTypeOK
<1>12. ASSUME NEW f \in Fetches, CallerEnds(f) PROVE FetchIndInv'
    BY <1>1, <1>12, OneCallWritten DEF CallerEnds, FetchTypeOK
<1>13. CASE UNCHANGED fetchVars
    BY <1>13 DEF fetchVars, FetchIndInv, FetchTypeOK, Abides, ConnectionsAreAllowed, CredentialsStayHome
<1> QED
    BY <1>2, <1>4, <1>5, <1>6, <1>7, <1>8, <1>9, <1>10, <1>11, <1>12, <1>13 DEF FetchNext

LEMMA FetchStart == FetchInit => FetchIndInv
BY DEF FetchInit, FetchIndInv, FetchTypeOK, ConnectionsAreAllowed, CredentialsStayHome

(***************************************************************************)
(* A call keeps within its policy and its credential at its origin in      *)
(* every reachable state, at every hop.                                    *)
(***************************************************************************)
THEOREM FetchInvariant == FetchSpec => []FetchIndInv
<1>1. FetchIndInv /\ [FetchNext]_fetchVars => FetchIndInv'
    BY FetchInductive
<1> QED
    BY <1>1, FetchStart, PTL DEF FetchSpec

(***************************************************************************)
(* No connection reaches an address, host or scheme its policy forbids,    *)
(* however the resolver changes its answers (safe-fetch.ts:161).           *)
(***************************************************************************)
THEOREM EveryConnectionIsAllowed == FetchSpec => []ConnectionsAreAllowed
<1>1. FetchIndInv => ConnectionsAreAllowed
    BY DEF FetchIndInv
<1> QED
    BY <1>1, FetchInvariant, PTL

(***************************************************************************)
(* Redirects never carry a credential to another origin, nor back to its   *)
(* own after they left it (safe-fetch.ts:323).                             *)
(***************************************************************************)
THEOREM NoCredentialLeaves == FetchSpec => []CredentialsStayHome
<1>1. FetchIndInv => CredentialsStayHome
    BY DEF FetchIndInv
<1> QED
    BY <1>1, FetchInvariant, PTL
=============================================================================
