------------------------- MODULE PersistentProtocol -------------------------
(***************************************************************************)
(* The class PersistentProtocol of base/parts/ipc/common/ipc.net.ts: an    *)
(* acknowledged message flow that survives the replacement of the socket   *)
(* under it.  Two instances, one per peer, talk over sockets 1, 2, ...     *)
(* Every endpoint field is a function of the peer and keeps the name it    *)
(* has in the class, without the underscore.  The writer of a peer         *)
(* (ProtocolWriter) is the variables data, paused and writeNowTimeout.     *)
(*                                                                         *)
(* Clock readings are abstracted to the comparisons the code makes:        *)
(*   quiet[p]            the three 20s conditions of _recvAckCheck hold    *)
(*   replayThrottled[p]  the last replay request is at most 10s old        *)
(***************************************************************************)
EXTENDS Integers, Sequences

CONSTANTS
    Data,         \* payloads of regular messages
    Controls,     \* payloads of control messages
    NoData,       \* the empty payload of every other message
    Calls,        \* the optional operations the peers' users call
    MaxMsgs,      \* bound: regular messages sent by each peer
    MaxSockets,   \* bound: sockets opened, the first included
    MaxBuffered,  \* bound: frames queued before another optional frame
    MaxDrops,     \* bound: frames an open socket may lose
    IdLimit       \* 2^32: ids and acks are written with writeUInt32BE

Peers == {"client", "server"}

ASSUME BoundsAssumption ==
    /\ MaxMsgs \in [Peers -> Nat]
    /\ MaxSockets \in Nat \ {0}
    /\ MaxBuffered \in Nat
    /\ MaxDrops \in Nat
    /\ IdLimit \in Nat
    /\ \A p \in Peers : MaxMsgs[p] < IdLimit

VARIABLES
    isReconnecting, didSendDisconnect,
    outgoingUnackMsg, outgoingMsgId, outgoingAckId, outgoingAckTimeout,
    incomingMsgId, incomingAckId, incomingAckTimeout,
    keepAliveInterval, replayThrottled, quiet,
    data, paused, writeNowTimeout,   \* ProtocolWriter: _data, _isPaused, timer
    disposed,      \* the current writer and reader are disposed
    socket,        \* the socket the peer uses
    taken,         \* the sockets the peer has ever used
    socketTimeout, \* onSocketTimeout has fired since the last reconnection
    socketClose,   \* onSocketClose has fired since the last reconnection
    didDispose,    \* onDidDispose has fired
    farewell,      \* messages sent before sendDisconnect(), see there
    sent,          \* payloads passed to send(), in order
    delivered,     \* payloads fired by onMessage, in order
    opened, open,  \* how many sockets exist, and which are still connected
    wire,          \* wire[c][p]: frames from p under way on socket c
    drops          \* frames lost so far by open sockets

disconnectVars == <<didSendDisconnect, farewell>>
sendVars == <<outgoingUnackMsg, outgoingMsgId, outgoingAckId, sent>>
recvVars == <<incomingMsgId, incomingAckId, delivered>>
timerVars == <<outgoingAckTimeout, incomingAckTimeout, keepAliveInterval>>
writerVars == <<data, paused, writeNowTimeout>>
eventVars == <<socketTimeout, socketClose, didDispose>>
socketVars == <<disposed, socket, taken, opened>>
netVars == <<open, wire, drops>>
vars == <<isReconnecting, disconnectVars, sendVars, recvVars, timerVars,
          replayThrottled, quiet, writerVars, eventVars, socketVars, netVars>>

Other(p) == IF p = "client" THEN "server" ELSE "client"
Sockets == 1..MaxSockets

-----------------------------------------------------------------------------
(* Messages.  Only regular messages have an id; only regular, Ack and      *)
(* KeepAlive messages carry an acknowledgement.                            *)

Types == {"Regular", "Control", "Ack", "Disconnect", "ReplayRequest",
          "Pause", "Resume", "KeepAlive"}
Payloads == Data \cup Controls \cup {NoData}
Msg == [type : Types, id : Nat, ack : Nat, data : Payloads]

ProtocolMessage(type, id, ack, d) ==
    [type |-> type, id |-> id, ack |-> ack, data |-> d]

\* The header keeps the low 32 bits of the id and of the ack.
Header(m) == [m EXCEPT !.id = @ % IdLimit, !.ack = @ % IdLimit]
Headers(ms) == [i \in DOMAIN ms |-> Header(ms[i])]

Init ==
    /\ isReconnecting = [p \in Peers |-> FALSE]
    /\ didSendDisconnect = [p \in Peers |-> FALSE]
    /\ farewell = [p \in Peers |-> 0]
    /\ outgoingUnackMsg = [p \in Peers |-> <<>>]
    /\ outgoingMsgId = [p \in Peers |-> 0]
    /\ outgoingAckId = [p \in Peers |-> 0]
    /\ outgoingAckTimeout = [p \in Peers |-> FALSE]
    /\ incomingMsgId = [p \in Peers |-> 0]
    /\ incomingAckId = [p \in Peers |-> 0]
    /\ incomingAckTimeout = [p \in Peers |-> FALSE]
    /\ keepAliveInterval = [p \in Peers |-> TRUE]
    /\ replayThrottled = [p \in Peers |-> FALSE]
    /\ quiet = [p \in Peers |-> FALSE]
    /\ data = [p \in Peers |-> <<>>]
    /\ paused = [p \in Peers |-> FALSE]
    /\ writeNowTimeout = [p \in Peers |-> FALSE]
    /\ disposed = [p \in Peers |-> FALSE]
    /\ socket = [p \in Peers |-> 1]
    /\ taken = [p \in Peers |-> {1}]
    /\ socketTimeout = [p \in Peers |-> FALSE]
    /\ socketClose = [p \in Peers |-> FALSE]
    /\ didDispose = [p \in Peers |-> FALSE]
    /\ sent = [p \in Peers |-> <<>>]
    /\ delivered = [p \in Peers |-> <<>>]
    /\ opened = 1
    /\ open = {1}
    /\ wire = [c \in Sockets |-> [p \in Peers |-> <<>>]]
    /\ drops = 0

-----------------------------------------------------------------------------
(* ProtocolWriter.                                                         *)

MutantWrite(p, ms) ==
    /\ data' = [data EXCEPT ![p] = IF disposed[p] THEN @ ELSE @ \o Headers(ms)]
    /\ UNCHANGED writeNowTimeout

\* write() of each message of ms: ignored by a disposed writer, otherwise
\* buffered; a timer is scheduled when the buffer was empty.
Write(p, ms) ==
    /\ data' = [data EXCEPT ![p] = IF disposed[p] THEN @ ELSE @ \o Headers(ms)]
    /\ writeNowTimeout' =
         [writeNowTimeout EXCEPT ![p] =
            @ \/ (~disposed[p] /\ data[p] = <<>> /\ ms # <<>>)]

\* socket.write(): bytes written to a socket that is gone disappear.
SocketWrite(w, c, p, ms) ==
    IF c \in open THEN [w EXCEPT ![c][p] = @ \o ms] ELSE w

\* What flush() hands to the socket.
Flushed(p, ms) == IF paused[p] THEN <<>> ELSE ms

\* The timer of _scheduleWriting fires.
WriteNow(p) ==
    /\ writeNowTimeout[p]
    /\ writeNowTimeout' = [writeNowTimeout EXCEPT ![p] = FALSE]
    /\ wire' = SocketWrite(wire, socket[p], p, Flushed(p, data[p]))
    /\ data' = [data EXCEPT ![p] = IF paused[p] THEN @ ELSE <<>>]
    /\ UNCHANGED <<isReconnecting, disconnectVars, sendVars, recvVars,
                   timerVars, replayThrottled, quiet, paused, eventVars,
                   socketVars, open, drops>>

\* flush(), also reached through drain().
Flush(p) ==
    /\ data[p] # <<>> /\ ~paused[p]
    /\ wire' = SocketWrite(wire, socket[p], p, data[p])
    /\ data' = [data EXCEPT ![p] = <<>>]
    /\ UNCHANGED <<isReconnecting, disconnectVars, sendVars, recvVars,
                   timerVars, replayThrottled, quiet, paused, writeNowTimeout,
                   eventVars, socketVars, open, drops>>

\* pauseSocketWriting()
PauseSocketWriting(p) ==
    /\ ~paused[p]
    /\ paused' = [paused EXCEPT ![p] = TRUE]
    /\ UNCHANGED <<isReconnecting, disconnectVars, sendVars, recvVars,
                   timerVars, replayThrottled, quiet, data, writeNowTimeout,
                   eventVars, socketVars, netVars>>

-----------------------------------------------------------------------------
(* Acknowledgement bookkeeping.                                            *)

MutantNothingToWatch(timer, out, ack, reconnecting) ==
    out <= ack + 1 \/ timer \/ reconnecting

\* The early returns of _recvAckCheck().
NothingToWatch(timer, out, ack, reconnecting) ==
    out <= ack \/ timer \/ reconnecting

\* _recvAckCheck() with timer, out, ack, reconnecting and late the values of
\* _outgoingAckTimeout, _outgoingMsgId, _outgoingAckId, _isReconnecting and
\* of the 20s conditions when it runs.  A late answer is a socket timeout
\* unless the load is high.
RecvAckCheck(p, timer, out, ack, reconnecting, late) ==
    IF NothingToWatch(timer, out, ack, reconnecting)
    THEN /\ outgoingAckTimeout' = [outgoingAckTimeout EXCEPT ![p] = timer]
         /\ quiet' = [quiet EXCEPT ![p] = late]
         /\ UNCHANGED socketTimeout
    ELSE \/ /\ outgoingAckTimeout' = [outgoingAckTimeout EXCEPT ![p] = TRUE]
            /\ quiet' = [quiet EXCEPT ![p] = late]
            /\ UNCHANGED socketTimeout
         \/ /\ late
            /\ outgoingAckTimeout' = [outgoingAckTimeout EXCEPT ![p] = FALSE]
            /\ quiet' = [quiet EXCEPT ![p] = FALSE]
            /\ socketTimeout' = [socketTimeout EXCEPT ![p] = TRUE]

\* The loop of _receiveMessage that pops acknowledged messages: it stops at
\* the first message with a larger id.
DropAcked(q, ack) ==
    LET acked == CHOOSE n \in 0..Len(q) :
                    /\ \A i \in 1..n : q[i].id <= ack
                    /\ n < Len(q) => q[n + 1].id > ack
    IN  SubSeq(q, acked + 1, Len(q))

\* The timer of _recvAckCheck fires.
RecvAckTimeout(p) ==
    /\ outgoingAckTimeout[p]
    /\ RecvAckCheck(p, FALSE, outgoingMsgId[p], outgoingAckId[p],
                    isReconnecting[p], quiet[p])
    /\ UNCHANGED <<isReconnecting, disconnectVars, sendVars, recvVars,
                   incomingAckTimeout, keepAliveInterval, replayThrottled,
                   writerVars, socketClose, didDispose, socketVars, netVars>>

MutantAckDue(p, id) == id > incomingAckId[p] + 1

\* There is something to acknowledge once message id has been received.
AckDue(p, id) == id > incomingAckId[p]

\* The timer of _sendAckCheck fires 2s after the last message: an Ack is
\* written if there is something to acknowledge.  (Less than 2s after the
\* last message the timer is set again, which changes nothing here.)
SendAckTimeout(p) ==
    /\ incomingAckTimeout[p]
    /\ incomingAckTimeout' = [incomingAckTimeout EXCEPT ![p] = FALSE]
    /\ IF ~AckDue(p, incomingMsgId[p])
       THEN UNCHANGED <<incomingAckId, data, writeNowTimeout>>
       ELSE /\ incomingAckId' = [incomingAckId EXCEPT ![p] = incomingMsgId[p]]
            /\ Write(p, <<ProtocolMessage("Ack", 0, incomingMsgId[p], NoData)>>)
    /\ UNCHANGED <<isReconnecting, disconnectVars, sendVars, incomingMsgId,
                   delivered, outgoingAckTimeout, keepAliveInterval,
                   replayThrottled, quiet, paused, eventVars, socketVars,
                   netVars>>

-----------------------------------------------------------------------------
(* Public operations.                                                      *)

\* Bound on the frames that peers may send at any time.
Room(p) == Len(data[p]) + Len(wire[socket[p]][p]) < MaxBuffered

\* send()
Send(p, d) ==
    LET id == outgoingMsgId[p] + 1
        m == ProtocolMessage("Regular", id, incomingMsgId[p], d)
    IN  /\ id <= MaxMsgs[p]
        /\ outgoingMsgId' = [outgoingMsgId EXCEPT ![p] = id]
        /\ incomingAckId' = [incomingAckId EXCEPT ![p] = incomingMsgId[p]]
        /\ outgoingUnackMsg' = [outgoingUnackMsg EXCEPT ![p] = Append(@, m)]
        /\ sent' = [sent EXCEPT ![p] = Append(@, d)]
        /\ IF isReconnecting[p]
           THEN UNCHANGED <<data, writeNowTimeout, outgoingAckTimeout, quiet,
                            socketTimeout>>
           ELSE /\ Write(p, <<m>>)
                /\ RecvAckCheck(p, outgoingAckTimeout[p], id, outgoingAckId[p],
                                FALSE,
                                quiet[p] /\ (outgoingUnackMsg[p] # <<>> \/ disposed[p]))
        /\ UNCHANGED <<isReconnecting, disconnectVars, outgoingAckId,
                       incomingMsgId, delivered, incomingAckTimeout,
                       keepAliveInterval, replayThrottled, paused, socketClose,
                       didDispose, socketVars, netVars>>

\* A frame outside the acknowledged flow: sendControl(), sendPause() and
\* sendResume().
SendFrame(p, m) ==
    /\ Room(p)
    /\ Write(p, <<m>>)
    /\ UNCHANGED <<isReconnecting, disconnectVars, sendVars, recvVars,
                   timerVars, replayThrottled, quiet, paused, eventVars,
                   socketVars, netVars>>

SendControl(p, x) == SendFrame(p, ProtocolMessage("Control", 0, 0, x))
SendPause(p) == SendFrame(p, ProtocolMessage("Pause", 0, 0, NoData))
SendResume(p) == SendFrame(p, ProtocolMessage("Resume", 0, 0, NoData))

MutantWithDisconnect(p) == <<ProtocolMessage("Disconnect", 0, 0, NoData)>> \o data[p]

WithDisconnect(p) == data[p] \o <<ProtocolMessage("Disconnect", 0, 0, NoData)>>

\* sendDisconnect(): once, and flushed.  farewell records how many messages
\* were written before it (those sent during a reconnection were not).
SendDisconnect(p) ==
    /\ ~didSendDisconnect[p]
    /\ didSendDisconnect' = [didSendDisconnect EXCEPT ![p] = TRUE]
    /\ farewell' = [farewell EXCEPT ![p] = IF isReconnecting[p] THEN 0
                                                               ELSE outgoingMsgId[p]]
    /\ IF disposed[p]
       THEN UNCHANGED <<data, writeNowTimeout, wire>>
       ELSE /\ data' = [data EXCEPT ![p] = IF paused[p] THEN WithDisconnect(p) ELSE <<>>]
            /\ writeNowTimeout' = [writeNowTimeout EXCEPT ![p] = @ \/ data[p] = <<>>]
            /\ wire' = SocketWrite(wire, socket[p], p, Flushed(p, WithDisconnect(p)))
    /\ UNCHANGED <<isReconnecting, sendVars, recvVars, timerVars,
                   replayThrottled, quiet, paused, eventVars, socketVars,
                   open, drops>>

\* acceptDisconnect(): the owner reports the end of the connection.
AcceptDisconnect(p) ==
    /\ didDispose' = [didDispose EXCEPT ![p] = TRUE]
    /\ UNCHANGED <<isReconnecting, disconnectVars, sendVars, recvVars,
                   timerVars, replayThrottled, quiet, writerVars,
                   socketTimeout, socketClose, socketVars, netVars>>

\* The keep alive interval: _sendKeepAlive()
SendKeepAlive(p) ==
    /\ keepAliveInterval[p]
    /\ Room(p)
    /\ incomingAckId' = [incomingAckId EXCEPT ![p] = incomingMsgId[p]]
    /\ Write(p, <<ProtocolMessage("KeepAlive", 0, incomingMsgId[p], NoData)>>)
    /\ UNCHANGED <<isReconnecting, disconnectVars, sendVars, incomingMsgId,
                   delivered, timerVars, replayThrottled, quiet, paused,
                   eventVars, socketVars, netVars>>

\* dispose(): clears the timers, then disposes the writer, which flushes,
\* and the reader.  The socket stays open.
Dispose(p) ==
    /\ outgoingAckTimeout' = [outgoingAckTimeout EXCEPT ![p] = FALSE]
    /\ incomingAckTimeout' = [incomingAckTimeout EXCEPT ![p] = FALSE]
    /\ keepAliveInterval' = [keepAliveInterval EXCEPT ![p] = FALSE]
    /\ disposed' = [disposed EXCEPT ![p] = TRUE]
    /\ wire' = SocketWrite(wire, socket[p], p, Flushed(p, data[p]))
    /\ data' = [data EXCEPT ![p] = IF paused[p] THEN @ ELSE <<>>]
    /\ UNCHANGED <<isReconnecting, disconnectVars, sendVars, recvVars,
                   replayThrottled, quiet, paused, writeNowTimeout, eventVars,
                   socket, taken, opened, open, drops>>

-----------------------------------------------------------------------------
(* Reconnection.                                                           *)

\* beginAcceptReconnection() with the connected or formerly connected socket
\* c: the old writer flushes, the old socket is destroyed, and a new writer,
\* neither paused nor scheduled, takes over.
BeginAcceptReconnection(p, c) ==
    LET old == socket[p]
        flushed == SocketWrite(wire, old, p, Flushed(p, data[p]))
    IN  /\ isReconnecting' = [isReconnecting EXCEPT ![p] = TRUE]
        /\ wire' = [flushed EXCEPT ![old][Other(p)] = <<>>]
        /\ data' = [data EXCEPT ![p] = <<>>]
        /\ paused' = [paused EXCEPT ![p] = FALSE]
        /\ writeNowTimeout' = [writeNowTimeout EXCEPT ![p] = FALSE]
        /\ disposed' = [disposed EXCEPT ![p] = FALSE]
        /\ socketTimeout' = [socketTimeout EXCEPT ![p] = FALSE]
        /\ socketClose' = [socketClose EXCEPT ![p] = FALSE]
        /\ replayThrottled' = [replayThrottled EXCEPT ![p] = FALSE]
        /\ quiet' = [quiet EXCEPT ![p] = FALSE]
        /\ socket' = [socket EXCEPT ![p] = c]
        /\ taken' = [taken EXCEPT ![p] = @ \cup {c}]
        /\ UNCHANGED <<disconnectVars, sendVars, recvVars, timerVars,
                       didDispose, drops>>

\* The client connects a new socket and starts to reconnect over it.
ClientReconnects ==
    /\ opened < MaxSockets
    /\ opened' = opened + 1
    /\ open' = (open \ {socket["client"]}) \cup {opened + 1}
    /\ BeginAcceptReconnection("client", opened + 1)

\* The server accepts, in any order, a socket the client has connected.
ServerReconnects(c) ==
    /\ c \in 1..opened \ taken["server"]
    /\ open' = open \ {socket["server"]}
    /\ BeginAcceptReconnection("server", c)
    /\ UNCHANGED opened

MutantResendNoMessages(p) == <<ProtocolMessage("Ack", 0, incomingMsgId[p], NoData)>>

\* What endAcceptReconnection() writes: the acknowledgement again, then every
\* message that is not acknowledged again.
Resend(p) ==
    <<ProtocolMessage("Ack", 0, incomingMsgId[p], NoData)>> \o outgoingUnackMsg[p]

EndAcceptReconnection(p) ==
    /\ isReconnecting[p]
    /\ isReconnecting' = [isReconnecting EXCEPT ![p] = FALSE]
    /\ incomingAckId' = [incomingAckId EXCEPT ![p] = incomingMsgId[p]]
    /\ Write(p, Resend(p))
    /\ RecvAckCheck(p, outgoingAckTimeout[p], outgoingMsgId[p],
                    outgoingAckId[p], FALSE,
                    quiet[p] /\ (outgoingUnackMsg[p] = <<>> \/ disposed[p]))
    /\ UNCHANGED <<disconnectVars, sendVars, incomingMsgId, delivered,
                   incomingAckTimeout, keepAliveInterval, replayThrottled,
                   paused, socketClose, didDispose, socketVars, netVars>>

-----------------------------------------------------------------------------
(* _receiveMessage(): the common part, then one action per message type.   *)

Incoming(p) == wire[socket[p]][Other(p)]

Receive(p, type) ==
    /\ ~disposed[p]
    /\ Incoming(p) # <<>>
    /\ Head(Incoming(p)).type = type
    /\ wire' = [wire EXCEPT ![socket[p]][Other(p)] = Tail(@)]
    /\ LET ack == Head(Incoming(p)).ack
       IN  IF ack > outgoingAckId[p]
           THEN /\ outgoingAckId' = [outgoingAckId EXCEPT ![p] = ack]
                /\ outgoingUnackMsg' =
                     [outgoingUnackMsg EXCEPT ![p] = DropAcked(@, ack)]
           ELSE UNCHANGED <<outgoingAckId, outgoingUnackMsg>>
    /\ UNCHANGED <<isReconnecting, disconnectVars, outgoingMsgId, sent,
                   keepAliveInterval, socketClose, socketVars, open, drops>>

MutantIsNext(p, m) == m.id > incomingMsgId[p]

IsNext(p, m) == m.id = incomingMsgId[p] + 1

\* A reading of the socket: less than 20s have passed since.
Heard(p) == quiet' = [quiet EXCEPT ![p] = FALSE]

\* The next message in order is delivered; a check to acknowledge it is due.
ReceiveNext(p) ==
    LET m == Head(Incoming(p))
    IN  /\ Receive(p, "Regular")
        /\ m.id > incomingMsgId[p]
        /\ IsNext(p, m)
        /\ incomingMsgId' = [incomingMsgId EXCEPT ![p] = m.id]
        /\ incomingAckTimeout' =
             [incomingAckTimeout EXCEPT ![p] = @ \/ AckDue(p, m.id)]
        /\ delivered' = [delivered EXCEPT ![p] = Append(@, m.data)]
        /\ Heard(p)
        /\ UNCHANGED <<incomingAckId, outgoingAckTimeout, replayThrottled,
                       writerVars, socketTimeout, didDispose>>

\* A message that is further ahead: ask for a replay, at most once in 10s.
ReceiveGap(p) ==
    LET m == Head(Incoming(p))
    IN  /\ Receive(p, "Regular")
        /\ m.id > incomingMsgId[p]
        /\ ~IsNext(p, m)
        /\ IF replayThrottled[p]
           THEN UNCHANGED <<data, writeNowTimeout>>
           ELSE Write(p, <<ProtocolMessage("ReplayRequest", 0, 0, NoData)>>)
        /\ replayThrottled' = [replayThrottled EXCEPT ![p] = TRUE]
        /\ Heard(p)
        /\ UNCHANGED <<recvVars, outgoingAckTimeout, incomingAckTimeout, paused,
                       socketTimeout, didDispose>>

\* A message that was received before is ignored.
ReceiveDuplicate(p) ==
    /\ Receive(p, "Regular")
    /\ Head(Incoming(p)).id <= incomingMsgId[p]
    /\ Heard(p)
    /\ UNCHANGED <<recvVars, outgoingAckTimeout, incomingAckTimeout,
                   replayThrottled, writerVars, socketTimeout, didDispose>>

\* Nothing but the common part; a control message is handed to its listeners.
ReceivePlain(p, type) ==
    /\ Receive(p, type)
    /\ Heard(p)
    /\ UNCHANGED <<recvVars, outgoingAckTimeout, incomingAckTimeout,
                   replayThrottled, writerVars, socketTimeout, didDispose>>

ReceiveAck(p) == ReceivePlain(p, "Ack")
ReceiveKeepAlive(p) == ReceivePlain(p, "KeepAlive")
ReceiveControl(p) == ReceivePlain(p, "Control")

ReceiveDisconnect(p) ==
    /\ Receive(p, "Disconnect")
    /\ didDispose' = [didDispose EXCEPT ![p] = TRUE]
    /\ Heard(p)
    /\ UNCHANGED <<recvVars, outgoingAckTimeout, incomingAckTimeout,
                   replayThrottled, writerVars, socketTimeout>>

\* Every unacknowledged message is written again, reconnecting or not.
ReceiveReplayRequest(p) ==
    /\ Receive(p, "ReplayRequest")
    /\ Write(p, outgoingUnackMsg'[p])
    /\ RecvAckCheck(p, outgoingAckTimeout[p], outgoingMsgId[p],
                    outgoingAckId'[p], isReconnecting[p], FALSE)
    /\ UNCHANGED <<recvVars, incomingAckTimeout, replayThrottled, paused,
                   didDispose>>

ReceivePause(p) ==
    /\ Receive(p, "Pause")
    /\ paused' = [paused EXCEPT ![p] = TRUE]
    /\ Heard(p)
    /\ UNCHANGED <<recvVars, outgoingAckTimeout, incomingAckTimeout,
                   replayThrottled, data, writeNowTimeout, socketTimeout,
                   didDispose>>

\* resume() schedules the timer even when nothing is buffered.
ReceiveResume(p) ==
    /\ Receive(p, "Resume")
    /\ paused' = [paused EXCEPT ![p] = FALSE]
    /\ writeNowTimeout' = [writeNowTimeout EXCEPT ![p] = TRUE]
    /\ Heard(p)
    /\ UNCHANGED <<recvVars, outgoingAckTimeout, incomingAckTimeout,
                   replayThrottled, data, socketTimeout, didDispose>>

ReceiveMessage(p) ==
    \/ ReceiveNext(p)
    \/ ReceiveGap(p)
    \/ ReceiveDuplicate(p)
    \/ ReceiveAck(p)
    \/ ReceiveKeepAlive(p)
    \/ ReceiveControl(p)
    \/ ReceiveDisconnect(p)
    \/ ReceiveReplayRequest(p)
    \/ ReceivePause(p)
    \/ ReceiveResume(p)

\* The socket's close event, after its last data.
SocketClose(p) ==
    /\ socket[p] \notin open
    /\ ~disposed[p]
    /\ Incoming(p) = <<>>
    /\ ~socketClose[p]
    /\ socketClose' = [socketClose EXCEPT ![p] = TRUE]
    /\ UNCHANGED <<isReconnecting, disconnectVars, sendVars, recvVars,
                   timerVars, replayThrottled, quiet, writerVars,
                   socketTimeout, didDispose, socketVars, netVars>>

-----------------------------------------------------------------------------
(* The environment: time, sockets, and the server's handshake.             *)

endpointVars == <<isReconnecting, disconnectVars, sendVars, recvVars,
                  timerVars, writerVars, eventVars, socketVars>>

\* 20s without data, an acknowledgement or a timeout; only looked at while a
\* message is not acknowledged.
Silence(p) ==
    /\ ~quiet[p]
    /\ outgoingUnackMsg[p] # <<>> \/ disposed[p]
    /\ quiet' = [quiet EXCEPT ![p] = TRUE]
    /\ UNCHANGED <<endpointVars, replayThrottled, netVars>>

\* 10s since the last replay request.
ReplayAllowed(p) ==
    /\ replayThrottled[p]
    /\ replayThrottled' = [replayThrottled EXCEPT ![p] = FALSE]
    /\ UNCHANGED <<endpointVars, quiet, netVars>>

\* The connection breaks; what is under way may still arrive or not.
SocketBreaks(c) ==
    /\ c \in open
    /\ open' = open \ {c}
    /\ UNCHANGED <<endpointVars, replayThrottled, quiet, wire, drops>>

LoseTail(c, p) ==
    /\ c \notin open
    /\ wire[c][p] # <<>>
    /\ wire' = [wire EXCEPT ![c][p] = SubSeq(@, 1, Len(@) - 1)]
    /\ UNCHANGED <<endpointVars, replayThrottled, quiet, open, drops>>

\* A frame is lost on an open socket (no socket should do that; the replay
\* request exists for the case that one does).
Drop(c, p, i) ==
    /\ c \in open
    /\ drops < MaxDrops
    /\ drops' = drops + 1
    /\ wire' = [wire EXCEPT ![c][p] =
                  SubSeq(@, 1, i - 1) \o SubSeq(@, i + 1, Len(@))]
    /\ UNCHANGED <<endpointVars, replayThrottled, quiet, open>>

\* Until the server accepts socket c, the frames on it are read by the
\* protocol object of the handshake, which nobody listens to for messages.
HandshakeRead(c) ==
    /\ c \in 1..opened \ taken["server"]
    /\ wire[c]["client"] # <<>>
    /\ wire' = [wire EXCEPT ![c]["client"] = Tail(@)]
    /\ UNCHANGED <<endpointVars, replayThrottled, quiet, open, drops>>

\* The client ends its reconnection when the server has accepted the socket;
\* the server ends its own as soon as it likes.
MayEnd(p) == p = "client" => socket[p] \in taken["server"]

\* What the users of the two protocol objects do.
UserCall(p) ==
    \/ \E d \in Data : Send(p, d)
    \/ "control" \in Calls /\ \E x \in Controls : SendControl(p, x)
    \/ "pause" \in Calls /\ SendPause(p)
    \/ "pause" \in Calls /\ SendResume(p)
    \/ "debugPause" \in Calls /\ PauseSocketWriting(p)
    \/ "disconnect" \in Calls /\ SendDisconnect(p)
    \/ "disconnect" \in Calls /\ AcceptDisconnect(p)
    \/ "flush" \in Calls /\ Flush(p)
    \/ "dispose" \in Calls /\ Dispose(p)
    \/ MayEnd(p) /\ EndAcceptReconnection(p)

\* Timers and events of the socket.
Callback(p) ==
    \/ WriteNow(p)
    \/ RecvAckTimeout(p)
    \/ SendAckTimeout(p)
    \/ "keepAlive" \in Calls /\ SendKeepAlive(p)
    \/ ReceiveMessage(p)
    \/ SocketClose(p)

Environment ==
    \/ ClientReconnects
    \/ \E c \in Sockets : ServerReconnects(c)
    \/ \E c \in Sockets : HandshakeRead(c)
    \/ \E c \in Sockets : SocketBreaks(c)
    \/ \E c \in Sockets, p \in Peers : LoseTail(c, p)
    \/ \E c \in Sockets, p \in Peers :
          \E i \in DOMAIN wire[c][p] : Drop(c, p, i)
    \/ "timeout" \in Calls /\ \E p \in Peers : Silence(p)
    \/ \E p \in Peers : ReplayAllowed(p)

Next == Environment \/ \E p \in Peers : UserCall(p) \/ Callback(p)

Spec == Init /\ [][Next]_vars

\* Timers fire, the event loop hands arriving data to the reader, and a
\* handshake that both sides have reached is completed.  Nothing is assumed
\* of the network or of the users.
Fairness ==
    \A p \in Peers :
        /\ WF_vars(WriteNow(p))
        /\ WF_vars(ReceiveMessage(p))
        /\ WF_vars(SendAckTimeout(p))
        /\ WF_vars(MayEnd(p) /\ EndAcceptReconnection(p))

FairSpec == Spec /\ Fairness

-----------------------------------------------------------------------------
(* Properties.                                                             *)

\* Type invariant of the fields of PersistentProtocol and of the network.
TypeOK ==
    /\ isReconnecting \in [Peers -> BOOLEAN]
    /\ didSendDisconnect \in [Peers -> BOOLEAN]
    /\ farewell \in [Peers -> Nat]
    /\ outgoingUnackMsg \in [Peers -> Seq(Msg)]
    /\ outgoingMsgId \in [Peers -> Nat]
    /\ outgoingAckId \in [Peers -> Nat]
    /\ outgoingAckTimeout \in [Peers -> BOOLEAN]
    /\ incomingMsgId \in [Peers -> Nat]
    /\ incomingAckId \in [Peers -> Nat]
    /\ incomingAckTimeout \in [Peers -> BOOLEAN]
    /\ keepAliveInterval \in [Peers -> BOOLEAN]
    /\ replayThrottled \in [Peers -> BOOLEAN]
    /\ quiet \in [Peers -> BOOLEAN]
    /\ data \in [Peers -> Seq(Msg)]
    /\ paused \in [Peers -> BOOLEAN]
    /\ writeNowTimeout \in [Peers -> BOOLEAN]
    /\ disposed \in [Peers -> BOOLEAN]
    /\ socket \in [Peers -> Sockets]
    /\ taken \in [Peers -> SUBSET Sockets]
    /\ socketTimeout \in [Peers -> BOOLEAN]
    /\ socketClose \in [Peers -> BOOLEAN]
    /\ didDispose \in [Peers -> BOOLEAN]
    /\ sent \in [Peers -> Seq(Data)]
    /\ delivered \in [Peers -> Seq(Payloads)]
    /\ opened \in Sockets
    /\ open \in SUBSET Sockets
    /\ wire \in [Sockets -> [Peers -> Seq(Msg)]]
    /\ drops \in 0..MaxDrops

\* What onMessage has fired at a peer is a prefix of what the other peer
\* passed to send(): exactly once, in order, whatever sockets, retransmission
\* and replay did (the promise of the class comment, ipc.net.ts:806-809).
InOrderExactlyOnce ==
    \A p \in Peers :
        /\ Len(delivered[p]) <= Len(sent[Other(p)])
        /\ delivered[p] = SubSeq(sent[Other(p)], 1, Len(delivered[p]))

\* The unacknowledged queue holds exactly the messages after _outgoingAckId,
\* in order, with the payloads they were sent with: peek() in _recvAckCheck
\* is never undefined, and a retransmission repeats the original messages.
UnackWindow ==
    \A p \in Peers :
        /\ Len(outgoingUnackMsg[p]) = outgoingMsgId[p] - outgoingAckId[p]
        /\ \A i \in 1..Len(outgoingUnackMsg[p]) :
             /\ outgoingUnackMsg[p][i].id = outgoingAckId[p] + i
             /\ outgoingUnackMsg[p][i].data = sent[p][outgoingAckId[p] + i]

\* A message is dropped from the unacknowledged queue only after the other
\* peer has delivered it, so a reconnection can always resend what is missing.
AckedWasDelivered ==
    \A p \in Peers : outgoingAckId[p] <= Len(delivered[Other(p)])

\* Frames on the way from p to its peer over the socket both use.
Pipeline(p) == wire[socket[p]][p] \o data[p]

\* Both peers use the same unbroken socket and p is not reconnecting.
Connected(p) ==
    /\ socket[p] = socket[Other(p)]
    /\ socket[p] \in open
    /\ ~isReconnecting[p]
    /\ ~disposed[p]
    /\ drops = 0

\* Over a socket that both peers use, every message that has not been
\* delivered is under way: reconnection leaves no message behind.
UndeliveredIsUnderWay ==
    \A p \in Peers :
        Connected(p) =>
            \A k \in incomingMsgId[Other(p)] + 1 .. outgoingMsgId[p] :
                \E i \in DOMAIN Pipeline(p) :
                    /\ Pipeline(p)[i].type = "Regular"
                    /\ Pipeline(p)[i].id = k

\* Over such a socket, the latest acknowledgement is known or under way, even
\* if it was first "sent" in a message that was not written because the peer
\* was reconnecting, or in a frame that only the handshake saw.
AckIsUnderWay ==
    \A p \in Peers :
        Connected(p) =>
            \/ outgoingAckId[Other(p)] >= incomingAckId[p]
            \/ \E i \in DOMAIN Pipeline(p) :
                  Pipeline(p)[i].ack >= incomingAckId[p]

\* As long as open sockets lose nothing, no peer ever sees a gap, broken
\* sockets and late acceptance of sockets included: the replay request is
\* never needed.
NoGapWithoutDrops ==
    drops = 0 =>
        \A p \in Peers :
            /\ Incoming(p) # <<>>
            /\ Head(Incoming(p)).type = "Regular"
            => Head(Incoming(p)).id <= incomingMsgId[p] + 1

\* Messages that await an acknowledgement are watched by a timer, except
\* during a reconnection, after a timeout was reported, or after dispose().
UnackIsWatched ==
    \A p \in Peers :
        outgoingMsgId[p] > outgoingAckId[p] =>
            \/ outgoingAckTimeout[p] \/ isReconnecting[p]
            \/ socketTimeout[p] \/ ~keepAliveInterval[p]

\* A message that is not acknowledged yet has an acknowledgement scheduled.
AckIsScheduled ==
    \A p \in Peers :
        incomingMsgId[p] > incomingAckId[p] =>
            incomingAckTimeout[p] \/ ~keepAliveInterval[p]

\* Buffered frames are always going to be written, unless writing is paused.
BufferIsScheduled ==
    \A p \in Peers :
        data[p] # <<>> /\ ~paused[p] => writeNowTimeout[p]

\* When a Disconnect is about to be read, every message that was sent before
\* sendDisconnect() outside a reconnection has been delivered, so that
\* onDidDispose never fires ahead of messages the other side still owes.
DisconnectComesLast ==
    drops = 0 =>
        \A p \in Peers :
            /\ Incoming(p) # <<>>
            /\ Head(Incoming(p)).type = "Disconnect"
            => Len(delivered[p]) >= farewell[Other(p)]

\* No reconnection leaves a message or an acknowledgement behind: what the other
\* peer lacks is in a queue, a buffer or on a wire that still leads to it.
EverythingIsUnderWay == UndeliveredIsUnderWay /\ AckIsUnderWay

\* The timers that keep the protocol going are armed: that of _recvAckCheck() while
\* a message is not acknowledged, that of _sendAckCheck() while one owes an
\* acknowledgement.
TimersAreArmed == UnackIsWatched /\ AckIsScheduled

\* onMessage fires a prefix of what the other peer has sent, and as long as sockets
\* lose nothing no peer ever sees a gap that makes it ask for a replay.
DeliveryIsExact == InOrderExactlyOnce /\ NoGapWithoutDrops

\* With Pause, Resume, pauseSocketWriting() and flush() in any order, buffered frames
\* are going to be written unless writing is paused, and an acknowledgement that the
\* other peer lacks is under way.
FlowGoesOn == BufferIsScheduled /\ AckIsUnderWay

\* Both peers use one unbroken socket that loses nothing and is not paused.
Healthy ==
    /\ socket["client"] = socket["server"]
    /\ socket["client"] \in open
    /\ \A p \in Peers : ~disposed[p] /\ ~paused[p]
    /\ drops = 0

\* If the connection is healthy from some time on, then whatever happened
\* before, every message is delivered and acknowledged: reconnection and the
\* acknowledgement timers never leave the two sides waiting for each other.
EventuallyDelivered ==
    <>[]Healthy =>
        <>[](\A p \in Peers : /\ delivered[p] = sent[Other(p)]
                              /\ outgoingUnackMsg[p] = <<>>)

\* The protocol implements a reliable channel: no reconnection, replay,
\* duplicate or lost frame makes onMessage fire anything but the next message.
Channel == INSTANCE ReliableChannel
ImplementsReliableChannel == Channel!Spec

-----------------------------------------------------------------------------
(* The inductive invariant behind the first three properties.              *)

\* m may come from a peer that has sent s and received inc messages: its ack
\* is for something received, and a regular message, the only kind with an
\* id, is one that was sent.
Genuine(s, inc, m) ==
    /\ m.ack <= inc
    /\ m.id <= Len(s)
    /\ m.type = "Regular" <=> m.id > 0
    /\ m.type = "Regular" => m.data = s[m.id]

AllGenuine(s, inc, q) == \A i \in 1..Len(q) : Genuine(s, inc, q[i])

\* Every frame a peer keeps, buffers or has written is genuine.
FramesGenuine ==
    \A p \in Peers :
        /\ AllGenuine(sent[p], incomingMsgId[p], outgoingUnackMsg[p])
        /\ AllGenuine(sent[p], incomingMsgId[p], data[p])
        /\ \A c \in Sockets : AllGenuine(sent[p], incomingMsgId[p], wire[c][p])

\* The counters count, and nothing is acknowledged that was not received.
CountersAgree ==
    \A p \in Peers :
        /\ outgoingMsgId[p] = Len(sent[p])
        /\ outgoingMsgId[p] <= MaxMsgs[p]
        /\ incomingMsgId[p] = Len(delivered[p])
        /\ incomingAckId[p] <= incomingMsgId[p]

IInv == /\ TypeOK
        /\ CountersAgree
        /\ FramesGenuine
        /\ InOrderExactlyOnce
        /\ UnackWindow
        /\ AckedWasDelivered

=============================================================================
