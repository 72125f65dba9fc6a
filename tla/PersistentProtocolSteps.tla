---------------------- MODULE PersistentProtocolSteps ----------------------
(***************************************************************************)
(* How the steps of PersistentProtocol that read, lose or repeat frames    *)
(* keep the invariant of PersistentProtocolFlow.                           *)
(***************************************************************************)
EXTENDS PersistentProtocolFlow, TLAPS

-----------------------------------------------------------------------------
(* Frames that are read or lost.                                           *)

\* Some frames of x on socket c are gone and the others are still in order.
LEMMA ShorterFlow ==
    ASSUME IInv, NEW x \in Peers, Sender(x), NEW c \in Sockets, NEW r \in Seq(Msg), NEW jnc \in Nat,
           wire'[c][x] = r, \A e \in Sockets \ {c} : wire'[e][x] = wire[e][x],
           UNCHANGED <<data[x], socket[x], isReconnecting[x], didSendDisconnect[x], farewell[x]>>,
           socket[x] \in open' => socket[x] \in open,
           taken["server"] \subseteq taken'["server"],
           jnc = incomingMsgId'[Other(x)], incomingMsgId[Other(x)] <= jnc,
           \A t \in Types : NoneOf(wire[c][x], t) => NoneOf(r, t),
           Orderly(r, jnc, farewell[x]),
           socket[x] = c /\ c \in open' => Orderly(r \o data[x], jnc, farewell[x])
    PROVE  Sender(x)'
  <1>0. /\ socket[x] \in Sockets /\ \A e \in Sockets : wire[e][x] \in Seq(Msg)
        /\ Pipeline(x) \in Seq(Msg) /\ incomingMsgId[Other(x)] \in Nat /\ farewell[x] \in Nat
    BY Zenon, FlowTypes
  <1>1. ASSUME NEW e \in Sockets PROVE Orderly(wire'[e][x], jnc, farewell[x])
    <2>1. CASE e = c
      BY Zenon, <2>1
    <2>2. CASE e # c
      <3>1. wire'[e][x] = wire[e][x] /\ Orderly(wire[e][x], incomingMsgId[Other(x)], farewell[x])
        BY Zenon, <2>2 DEF Sender
      <3> QED BY Zenon, <1>0, <3>1, OrderlyMonotone
    <2> QED BY Zenon, <2>1, <2>2
  <1>2. ASSUME NEW e \in Sockets, NEW t \in Types, NoneOf(wire[e][x], t)
        PROVE  NoneOf(wire'[e][x], t)
    BY Zenon, <1>2
  <1>3. ASSUME socket[x] \in open' PROVE Orderly(Pipeline(x)', jnc, farewell[x])
    <2>1. CASE socket[x] = c
      BY Zenon, <1>3, <2>1 DEF Pipeline
    <2>2. CASE socket[x] # c
      <3>1. Pipeline(x)' = Pipeline(x)
        BY Zenon, <1>0, <2>2 DEF Pipeline
      <3>2. Orderly(Pipeline(x), incomingMsgId[Other(x)], farewell[x])
        BY Zenon, <1>3 DEF Sender
      <3> QED BY Zenon, <1>0, <3>1, <3>2, OrderlyMonotone
    <2> QED BY Zenon, <2>1, <2>2
  <1>4. "Regular" \in Types /\ "Disconnect" \in Types
    BY Zenon DEF Types
  <1>5. isReconnecting'[x] => NoneOf(wire'[socket'[x]][x], "Regular")
    BY Zenon, <1>0, <1>2, <1>4 DEF Sender
  <1>6. \A e \in Sockets \ taken'["server"] : NoneOf(wire'[e][x], "Regular")
    BY Zenon, <1>2, <1>4 DEF Sender
  <1>7. ~didSendDisconnect'[x] => \A e \in Sockets : NoneOf(wire'[e][x], "Disconnect")
    BY Zenon, <1>2, <1>4 DEF Sender
  <1>8. Sender(x)
    BY Zenon
  <1> QED BY Zenon, <1>1, <1>3, <1>5, <1>6, <1>7, <1>8 DEF Sender

\* The first frame of x on socket c is read.
LEMMA ConsumedFlow ==
    ASSUME IInv, NEW x \in Peers, Sender(x), NEW c \in Sockets, wire[c][x] # <<>>, NEW jnc \in Nat,
           wire' = [wire EXCEPT ![c][x] = Tail(wire[c][x])],
           UNCHANGED <<data[x], socket[x], isReconnecting[x], didSendDisconnect[x], farewell[x]>>,
           UNCHANGED <<open, taken>>,
           jnc = incomingMsgId'[Other(x)], incomingMsgId[Other(x)] <= jnc,
           Head(wire[c][x]).type = "Regular" => Head(wire[c][x]).id <= jnc
    PROVE  /\ Sender(x)'
           /\ socket[x] = c => /\ Pipeline(x) # <<>> /\ Pipeline(x)' = Tail(Pipeline(x))
                               /\ Head(Pipeline(x)) = Head(wire[c][x])
           /\ socket[x] # c => Pipeline(x)' = Pipeline(x)
  <1> DEFINE q == wire[c][x]
             r == Tail(wire[c][x])
  <1>0. /\ q \in Seq(Msg) /\ data[x] \in Seq(Msg) /\ r \in Seq(Msg) /\ q # <<>>
        /\ incomingMsgId[Other(x)] \in Nat /\ farewell[x] \in Nat /\ Pipeline(x) \in Seq(Msg)
    BY FlowTypes
  <1>1. /\ wire'[c][x] = r /\ \A e \in Sockets \ {c} : wire'[e][x] = wire[e][x]
        /\ \A e \in Sockets : wire'[e] \in [Peers -> Seq(Msg)]
    BY Zenon, <1>0 DEF IInv, TypeOK
  <1>2. \A t \in Types : NoneOf(q, t) => NoneOf(r, t)
    BY Zenon, <1>0, NoneOfShorter
  <1>3. Orderly(r, jnc, farewell[x])
    BY Zenon, <1>0, OrderlyTail DEF Sender
  <1>4. /\ Tail(q \o data[x]) = r \o data[x] /\ Head(q \o data[x]) = Head(q)
        /\ q \o data[x] # <<>>
    BY Zenon, <1>0, FramesTail
  <1>5. socket[x] = c => /\ Pipeline(x) # <<>> /\ Pipeline(x)' = Tail(Pipeline(x))
                         /\ Head(Pipeline(x)) = Head(q)
    BY Zenon, <1>1, <1>4 DEF Pipeline
  <1>6. socket[x] # c => Pipeline(x)' = Pipeline(x)
    BY Zenon, <1>1, FlowTypes DEF Pipeline
  <1>7. ASSUME socket[x] = c, c \in open PROVE Orderly(r \o data[x], jnc, farewell[x])
    <2>1. Pipeline(x) = q \o data[x] /\ Orderly(Pipeline(x), incomingMsgId[Other(x)], farewell[x])
      BY Zenon, <1>7 DEF Pipeline, Sender
    <2>2. Orderly(Tail(Pipeline(x)), jnc, farewell[x])
      BY Zenon, <1>0, <1>4, <2>1, OrderlyTail
    <2> QED BY Zenon, <1>4, <2>1, <2>2
  <1> HIDE DEF q, r
  <1>8. Sender(x)'
    BY ZenonT(30), <1>0, <1>1, <1>2, <1>3, <1>7, ShorterFlow DEF q
  <1> QED BY Zenon, <1>5, <1>6, <1>8 DEF q

\* A frame that is read is a message of the other peer; its ack is kept if it is
\* larger than the last one.
LEMMA AcksGrow ==
    ASSUME IInv, NEW p \in Peers, NEW type \in Types, Receive(p, type)
    PROVE  /\ outgoingAckId' \in [Peers -> Nat]
           /\ \A x \in Peers : outgoingAckId'[x] >= outgoingAckId[x]
           /\ \A x \in Peers \ {p} : outgoingAckId'[x] = outgoingAckId[x]
           /\ Head(Incoming(p)) \in Msg /\ Head(Incoming(p)).ack \in Nat
           /\ outgoingAckId'[p] >= Head(Incoming(p)).ack
  <1>1. Incoming(p) \in Seq(Msg) /\ Incoming(p) # <<>>
    BY FlowTypes DEF Incoming, Receive
  <1>2. Head(Incoming(p)) \in Msg
    <2> DEFINE q == Incoming(p)
    <2>1. q \in Seq(Msg) /\ q # <<>>
      BY <1>1
    <2> HIDE DEF q
    <2>2. Head(q) \in Msg
      BY <2>1
    <2> QED BY <2>2 DEF q
  <1> DEFINE ack == Head(Incoming(p)).ack
  <1>3. outgoingAckId' = IF ack > outgoingAckId[p] THEN [outgoingAckId EXCEPT ![p] = ack]
                                                    ELSE outgoingAckId
    BY DEF Receive
  <1>4. ack \in Nat
    BY <1>2 DEF Msg
  <1> HIDE DEF ack
  <1>5. outgoingAckId \in [Peers -> Nat]
    BY Zenon DEF IInv, TypeOK
  <1>6. outgoingAckId' \in [Peers -> Nat]
    BY <1>3, <1>4, <1>5
  <1>7. \A x \in Peers : outgoingAckId'[x] >= outgoingAckId[x]
    BY <1>3, <1>4, <1>5
  <1>8. \A x \in Peers \ {p} : outgoingAckId'[x] = outgoingAckId[x]
    BY <1>3, <1>5
  <1>9. outgoingAckId'[p] >= ack
    BY <1>3, <1>4, <1>5
  <1> QED BY <1>2, <1>4, <1>6, <1>7, <1>8, <1>9 DEF ack

\* What every handler of _receiveMessage() leaves alone, and how the others
\* but a ReplayRequest leave the watching of messages to the timer.
LEMMA ReceiveHandlers ==
    ASSUME NEW p \in Peers, ReceiveMessage(p)
    PROVE  \E type \in Types :
             /\ Receive(p, type)
             /\ ReceiveReplayRequest(p) \/ UNCHANGED <<outgoingAckTimeout, socketTimeout>>
             /\ ReceiveNext(p) \/ UNCHANGED <<recvVars, incomingAckTimeout>>
             /\ \/ ReceiveGap(p) \/ ReceiveReplayRequest(p) \/ ReceiveResume(p)
                \/ ReceivePause(p) \/ UNCHANGED writerVars
  <1> USE DEF recvVars, writerVars, Types
  <1>1. CASE ReceiveNext(p)
    BY Zenon, <1>1 DEF ReceiveNext
  <1>2. CASE ReceiveGap(p)
    BY Zenon, <1>2 DEF ReceiveGap
  <1>3. CASE ReceiveDuplicate(p)
    BY Zenon, <1>3 DEF ReceiveDuplicate
  <1>4. CASE ReceiveAck(p) \/ ReceiveKeepAlive(p) \/ ReceiveControl(p)
    BY Zenon, <1>4 DEF ReceiveAck, ReceiveKeepAlive, ReceiveControl, ReceivePlain
  <1>5. CASE ReceiveDisconnect(p)
    BY Zenon, <1>5 DEF ReceiveDisconnect
  <1>6. CASE ReceiveReplayRequest(p)
    BY Zenon, <1>6 DEF ReceiveReplayRequest
  <1>7. CASE ReceivePause(p) \/ ReceiveResume(p)
    BY Zenon, <1>7 DEF ReceivePause, ReceiveResume
  <1> QED BY <1>1, <1>2, <1>3, <1>4, <1>5, <1>6, <1>7 DEF ReceiveMessage

\* What _receiveMessage() does with a frame while nothing was lost: it is no
\* gap and no request to replay.
LEMMA ReceiveInOrder ==
    ASSUME IInv, NEW p \in Peers, ReceiveMessage(p), Sender(Other(p))
    PROVE  LET h == Head(Incoming(p)) IN
           /\ UNCHANGED <<data, incomingAckId>>
           /\ \E type \in Types : Receive(p, type)
           /\ incomingMsgId'[p] \in Nat /\ incomingMsgId[p] <= incomingMsgId'[p]
           /\ h.type = "Regular" => h.id <= incomingMsgId'[p]
           /\ \A x \in Peers \ {p} : UNCHANGED incomingMsgId[x]
  <1> DEFINE h == Head(Incoming(p))
             inc == incomingMsgId[p]
  <1>0. /\ Other(p) \in Peers /\ Other(Other(p)) = p /\ socket[p] \in Sockets
        /\ wire[socket[p]][Other(p)] \in Seq(Msg) /\ inc \in Nat
        /\ incomingMsgId \in [Peers -> Nat]
    BY Zenon, FlowTypes DEF IInv, TypeOK
  <1>1. PICK type \in Types :
          /\ Receive(p, type)
          /\ ReceiveNext(p) \/ UNCHANGED <<recvVars, incomingAckTimeout>>
          /\ \/ ReceiveGap(p) \/ ReceiveReplayRequest(p) \/ ReceiveResume(p)
             \/ ReceivePause(p) \/ UNCHANGED writerVars
    BY Zenon, ReceiveHandlers
  <1>2. /\ h \in Msg /\ h.type # "ReplayRequest" /\ h.id \in Nat
        /\ h.type = "Regular" => h.id <= inc + 1
    <2> DEFINE q == wire[socket[p]][Other(p)]
    <2>1. q # <<>> /\ h = q[1] /\ q \in Seq(Msg)
      BY <1>0, <1>1 DEF Receive, Incoming
    <2>2. Orderly(q, inc, farewell[Other(p)])
      BY Zenon, <1>0 DEF Sender
    <2> HIDE DEF q, h
    <2>3. 1 \in 1..Len(q) /\ h \in Msg
      BY <2>1
    <2>4. h.type # "ReplayRequest" /\ (h.type = "Regular" => h.id <= inc + 1)
      BY <2>1, <2>2, <2>3 DEF Orderly
    <2> QED BY Zenon, <2>3, <2>4 DEF Msg
  <1>3. ~ReceiveReplayRequest(p)
    BY Zenon, <1>2 DEF ReceiveReplayRequest, Receive
  <1>4. ~ReceiveGap(p)
    <2> SUFFICES ASSUME ReceiveGap(p) PROVE FALSE
      BY Zenon
    <2>1. h.type = "Regular" /\ h.id > inc /\ h.id # inc + 1
      BY Zenon DEF ReceiveGap, Receive, IsNext
    <2> HIDE DEF h
    <2> QED BY <1>0, <1>2, <2>1
  <1>5. UNCHANGED <<data, incomingAckId>>
    BY Zenon, <1>1, <1>3, <1>4
       DEF ReceiveNext, ReceiveResume, ReceivePause, writerVars, recvVars
  <1>6. CASE ReceiveNext(p)
    <2>1. incomingMsgId' = [incomingMsgId EXCEPT ![p] = h.id] /\ h.id > inc
      BY Zenon, <1>6 DEF ReceiveNext
    <2> HIDE DEF h
    <2>2. incomingMsgId'[p] = h.id /\ \A x \in Peers \ {p} : UNCHANGED incomingMsgId[x]
      BY Zenon, <1>0, <2>1
    <2> QED BY <1>0, <1>1, <1>2, <1>5, <2>1, <2>2 DEF h
  <1>7. CASE ~ReceiveNext(p)
    <2>1. UNCHANGED incomingMsgId
      BY Zenon, <1>1, <1>7 DEF recvVars
    <2>2. h.type = "Regular" => h.id <= inc
      <3>1. \/ ReceiveDuplicate(p) \/ ReceivePlain(p, "Ack") \/ ReceivePlain(p, "KeepAlive")
            \/ ReceivePlain(p, "Control") \/ ReceiveDisconnect(p) \/ ReceivePause(p)
            \/ ReceiveResume(p)
        BY Zenon, <1>3, <1>4, <1>7
           DEF ReceiveMessage, ReceiveAck, ReceiveKeepAlive, ReceiveControl
      <3>2. \/ h.id <= inc
            \/ h.type \in {"Ack", "KeepAlive", "Control", "Disconnect", "Pause", "Resume"}
        BY Zenon, <3>1 DEF ReceiveDuplicate, ReceivePlain, ReceiveDisconnect, ReceivePause,
                           ReceiveResume, Receive
      <3> QED BY Zenon, <3>2
    <2> HIDE DEF h
    <2> QED BY <1>0, <1>1, <1>5, <2>1, <2>2 DEF h
  <1> QED BY Zenon, <1>6, <1>7

\* _receiveMessage()
LEMMA ReceiveFlow ==
    ASSUME IInv, FlowInv, NEW p \in Peers, ReceiveMessage(p)
    PROVE  FlowInv'
  <1> DEFINE x == Other(p)
             c == socket[p]
             h == Head(Incoming(p))
  <1>0. /\ x \in Peers /\ x # p /\ Other(x) = p /\ c \in Sockets /\ wire[c][x] \in Seq(Msg)
        /\ incomingMsgId[p] \in Nat /\ outgoingAckId[p] \in Nat /\ incomingAckId[x] \in Nat
        /\ outgoingMsgId[x] \in Nat /\ Pipeline(x) \in Seq(Msg) /\ outgoingAckId[x] \in Nat
        /\ \A y \in Peers : y = x \/ y = p
    BY Zenon, FlowTypes DEF Peers, Other
  <1>1. PICK type \in Types : Receive(p, type)
    BY Zenon, ReceiveHandlers
  <1>2. /\ wire' = [wire EXCEPT ![c][x] = Tail(wire[c][x])] /\ wire[c][x] # <<>>
        /\ h = Head(wire[c][x])
        /\ UNCHANGED <<isReconnecting, didSendDisconnect, farewell, outgoingMsgId, disposed,
                       socket, taken, opened, open, drops>>
    BY Zenon, <1>1 DEF Receive, Incoming, disconnectVars, socketVars
  <1>3. SocketsAgree'
    BY Zenon, <1>2 DEF FlowInv, SocketsAgree
  <1>4. ASSUME drops = 0 PROVE Sender(x)' /\ UnderWay(x)' /\ Sender(p)' /\ UnderWay(p)'
    <2>0. Sender(x) /\ UnderWay(x) /\ Sender(p) /\ UnderWay(p)
      BY Zenon, <1>0, <1>4 DEF FlowInv
    <2> HIDE DEF x, c, h
    <2>1. /\ UNCHANGED <<data, incomingAckId>>
          /\ incomingMsgId'[p] \in Nat /\ incomingMsgId[p] <= incomingMsgId'[p]
          /\ h.type = "Regular" => h.id <= incomingMsgId'[p]
          /\ UNCHANGED incomingMsgId[x]
      BY Zenon, <1>0, <2>0, ReceiveInOrder DEF x, h
    <2>2. /\ outgoingAckId'[p] \in Nat /\ outgoingAckId'[x] = outgoingAckId[x]
          /\ outgoingAckId'[p] >= outgoingAckId[p]
          /\ h.ack \in Nat /\ outgoingAckId'[p] >= h.ack /\ h \in Msg
      BY Zenon, <1>0, <1>1, AcksGrow DEF h
    <2>3. /\ Sender(x)'
          /\ socket[x] = c => /\ Pipeline(x) # <<>> /\ Pipeline(x)' = Tail(Pipeline(x))
                              /\ Head(Pipeline(x)) = h
      BY Zenon, <1>0, <1>2, <2>0, <2>1, ConsumedFlow
    <2>4. ASSUME Connected(x)'
          PROVE  /\ \A k \in incomingMsgId'[p] + 1 .. outgoingMsgId'[x] : Carries(Pipeline(x)', k)
                 /\ outgoingAckId'[p] >= incomingAckId'[x] \/ Acks(Pipeline(x)', incomingAckId'[x])
      <3>1. Connected(x)
        BY Zenon, <1>2, <2>4 DEF Connected
      <3>2. socket[x] = c
        BY Zenon, <1>0, <3>1 DEF Connected, c
      <3>3. /\ \A k \in incomingMsgId[p] + 1 .. outgoingMsgId[x] : Carries(Pipeline(x), k)
            /\ outgoingAckId[p] >= incomingAckId[x] \/ Acks(Pipeline(x), incomingAckId[x])
        BY Zenon, <1>0, <2>0, <3>1 DEF UnderWay
      <3>4. ASSUME NEW k \in incomingMsgId'[p] + 1 .. outgoingMsgId'[x]
            PROVE  Carries(Pipeline(x)', k)
        <4>1. outgoingMsgId'[x] = outgoingMsgId[x]
          BY Zenon, <1>2
        <4>2. k \in incomingMsgId[p] + 1 .. outgoingMsgId[x]
          BY <1>0, <2>1, <4>1
        <4>3. ~IsMessage(h, k)
          BY <1>0, <2>1, <4>1 DEF IsMessage
        <4> QED BY Zenon, <1>0, <2>3, <3>2, <3>3, <4>2, <4>3, CarriesTail
      <3>5. incomingAckId'[x] = incomingAckId[x]
        BY Zenon, <2>1
      <3>6. CASE outgoingAckId[p] >= incomingAckId[x]
        BY <1>0, <2>2, <3>4, <3>5, <3>6
      <3>7. CASE Acks(Pipeline(x), incomingAckId[x])
        <4>1. Acks(Pipeline(x)', incomingAckId[x]) \/ h.ack >= incomingAckId[x]
          BY Zenon, <1>0, <2>3, <3>2, <3>7, AcksTail
        <4> QED BY <1>0, <2>2, <3>4, <3>5, <4>1
      <3> QED BY Zenon, <3>3, <3>6, <3>7
    <2>5. UnderWay(x)'
      BY Zenon, <1>0, <2>4 DEF UnderWay
    <2>6. Kept(p)
      <3>1. \A e \in Sockets : wire'[e][p] = wire[e][p]
        BY Zenon, <1>0, <1>2 DEF IInv, TypeOK
      <3>2. Connected(p)' => Connected(p)
        BY Zenon, <1>2 DEF Connected
      <3>3. outgoingAckId'[x] \in Nat /\ outgoingAckId'[x] >= outgoingAckId[x]
        BY <1>0, <2>2
      <3>4. open' \subseteq open /\ taken["server"] \subseteq taken'["server"]
        BY Zenon, <1>2
      <3> QED BY Zenon, <1>2, <2>1, <3>1, <3>2, <3>3, <3>4 DEF Kept, x
    <2> QED BY Zenon, <2>0, <2>3, <2>5, <2>6, KeptFlow
  <1> QED BY Zenon, <1>0, <1>2, <1>3, <1>4 DEF FlowInv

\* beginAcceptReconnection() with a socket the server has not accepted yet:
\* the old socket keeps what was flushed, the other peer's frames on it are lost.
Begun(p, c) ==
    /\ socket[p] \in open => wire'[socket[p]][p] = wire[socket[p]][p] \o Flushed(p, data[p])
    /\ socket[p] \notin open => wire'[socket[p]][p] = wire[socket[p]][p]
    /\ \A e \in Sockets \ {socket[p]} : wire'[e][p] = wire[e][p]
    /\ wire'[socket[p]][Other(p)] = <<>>
    /\ \A e \in Sockets \ {socket[p]} : wire'[e][Other(p)] = wire[e][Other(p)]
    /\ data'[p] = <<>> /\ data'[Other(p)] = data[Other(p)]
    /\ isReconnecting'[p] /\ isReconnecting'[Other(p)] = isReconnecting[Other(p)]
    /\ socket'[p] = c /\ socket'[Other(p)] = socket[Other(p)]
    /\ disposed'[Other(p)] = disposed[Other(p)]
    /\ taken["server"] \subseteq taken'["server"]
    /\ UNCHANGED <<didSendDisconnect, farewell, incomingMsgId, drops>>

\* BeginAcceptReconnection(p, c) does that.
LEMMA BeginWires ==
    ASSUME IInv, NEW p \in Peers, NEW c \in Sockets, BeginAcceptReconnection(p, c)
    PROVE  Begun(p, c)
  <1> DEFINE x == Other(p)
             old == socket[p]
             ms == Flushed(p, data[p])
             w == SocketWrite(wire, old, p, ms)
  <1>0. x \in Peers /\ x # p /\ old \in Sockets /\ ms \in Seq(Msg)
    BY FlowTypes DEF Flushed
  <1>1. /\ old \in open => w[old][p] = wire[old][p] \o ms
        /\ old \notin open => w[old][p] = wire[old][p]
        /\ \A e \in Sockets \ {old} : w[e][p] = wire[e][p]
        /\ \A e \in Sockets : w[e][x] = wire[e][x]
    <2>1. Appended(w, p, ms)
      BY Zenon, <1>0, Written
    <2> HIDE DEF w, ms
    <2> QED BY Zenon, <1>0, <2>1 DEF Appended
  <1>2. DOMAIN w = Sockets /\ \A e \in Sockets : DOMAIN w[e] = Peers
    BY Zenon, <1>0 DEF SocketWrite, IInv, TypeOK
  <1>3. /\ wire' = [w EXCEPT ![old][x] = <<>>]
        /\ isReconnecting' = [isReconnecting EXCEPT ![p] = TRUE]
        /\ data' = [data EXCEPT ![p] = <<>>] /\ socket' = [socket EXCEPT ![p] = c]
        /\ disposed' = [disposed EXCEPT ![p] = FALSE]
        /\ taken' = [taken EXCEPT ![p] = taken[p] \cup {c}]
        /\ UNCHANGED <<didSendDisconnect, farewell, incomingMsgId, drops>>
    BY Zenon DEF BeginAcceptReconnection, disconnectVars, recvVars
  <1> HIDE DEF w
  <1>4. /\ wire'[old][x] = <<>> /\ wire'[old][p] = w[old][p]
        /\ \A e \in Sockets \ {old} : wire'[e] = w[e]
    BY Zenon, <1>0, <1>2, <1>3
  <1>5. /\ data'[p] = <<>> /\ data'[x] = data[x]
        /\ isReconnecting'[p] /\ isReconnecting'[x] = isReconnecting[x]
        /\ socket'[p] = c /\ socket'[x] = socket[x] /\ disposed'[x] = disposed[x]
        /\ taken["server"] \subseteq taken'["server"]
    BY Zenon, <1>0, <1>3 DEF IInv, TypeOK, Peers
  <1> HIDE DEF ms
  <1> QED BY Zenon, <1>0, <1>1, <1>3, <1>4, <1>5 DEF ms, Begun

\* The frames of p itself are in order, and none is a message, on its new socket.
LEMMA BeginSender ==
    ASSUME IInv, SocketsAgree, NEW p \in Peers, NEW c \in Sockets \ taken["server"],
           c # socket[p], BeginAcceptReconnection(p, c), Sender(p)
    PROVE  Sender(p)' /\ UnderWay(p)'
  <1> DEFINE old == socket[p]
             ms == Flushed(p, data[p])
             q == wire'[old][p]
             inc == incomingMsgId[Other(p)]
             f == farewell[p]
  <1>0. /\ old \in Sockets /\ wire[old][p] \in Seq(Msg) /\ data[p] \in Seq(Msg)
        /\ ms \in Seq(Msg) /\ wire[c][p] \in Seq(Msg)
    BY FlowTypes DEF Flushed
  <1>b. Begun(p, c)
    BY Zenon, BeginWires
  <1>1. /\ wire'[old][p] = q /\ \A e \in Sockets \ {old} : wire'[e][p] = wire[e][p]
        /\ data'[p] = <<>> /\ isReconnecting'[p] /\ socket'[p] = c
        /\ taken["server"] \subseteq taken'["server"]
        /\ UNCHANGED <<didSendDisconnect, farewell, incomingMsgId, drops>>
    BY Zenon, <1>b DEF Begun
  <1>2. q = wire[old][p] \/ (old \in open /\ q = Pipeline(p))
    <2>1. ms = <<>> \/ ms = data[p]
      BY Zenon DEF Flushed
    <2>2. wire[old][p] \o <<>> = wire[old][p]
      BY <1>0
    <2>3. /\ old \in open => q = wire[old][p] \o ms
          /\ old \notin open => q = wire[old][p]
      BY Zenon, <1>b DEF Begun
    <2> HIDE DEF ms, q
    <2> QED BY Zenon, <2>1, <2>2, <2>3 DEF Pipeline
  <1> HIDE DEF q, ms
  <1>3. ASSUME NEW t, NoneOf(data[p], t), NoneOf(wire[old][p], t)
        PROVE  NoneOf(q, t)
    <2>1. NoneOf(Pipeline(p), t)
      BY Zenon, <1>0, <1>3, NoneOfConcat DEF Pipeline
    <2> QED BY Zenon, <1>2, <1>3, <2>1
  <1>4. \A e \in Sockets : Orderly(wire'[e][p], inc, f)
    BY Zenon, <1>1, <1>2 DEF Sender
  <1>5. /\ wire'[c][p] = wire[c][p] /\ Pipeline(p)' = wire[c][p]
        /\ NoneOf(wire[c][p], "Regular") /\ NoneOf(data'[p], "Regular")
        /\ NoneOf(data'[p], "Disconnect")
    BY <1>0, <1>1 DEF Pipeline, Sender, NoneOf
  <1>6. \A e \in Sockets \ taken["server"] : NoneOf(wire'[e][p], "Regular")
    <2>1. old \notin taken["server"] => isReconnecting[p]
      BY Zenon DEF SocketsAgree, Peers
    <2> QED BY Zenon, <1>0, <1>1, <1>3, <2>1 DEF Sender
  <1>7. ~didSendDisconnect[p] => \A e \in Sockets : NoneOf(wire'[e][p], "Disconnect")
    BY Zenon, <1>0, <1>1, <1>3 DEF Sender
  <1>8. Sender(p)'
    <2>1. \A e \in Sockets \ taken'["server"] : NoneOf(wire'[e][p], "Regular")
      BY Zenon, <1>1, <1>6
    <2> QED BY Zenon, <1>1, <1>4, <1>5, <1>7, <2>1 DEF Sender
  <1>9. ~Connected(p)'
    BY Zenon, <1>1 DEF Connected
  <1> QED BY Zenon, <1>8, <1>9 DEF UnderWay

\* The frames of the other peer on that socket are gone.
LEMMA BeginOther ==
    ASSUME IInv, NEW p \in Peers, NEW c \in Sockets, BeginAcceptReconnection(p, c),
           NEW x \in Peers, x # p, Sender(x), socket[p] \notin open',
           socket[x] \in open' => socket[x] \in open, ~Connected(x)'
    PROVE  Sender(x)' /\ UnderWay(x)'
  <1>0. /\ x = Other(p) /\ socket[p] \in Sockets /\ <<>> \in Seq(Msg)
        /\ incomingMsgId[Other(x)] \in Nat
        /\ \A e \in Sockets : wire[e][x] \in Seq(Msg)
    BY FlowTypes DEF Peers, Other
  <1>b. Begun(p, c)
    BY Zenon, BeginWires
  <1>1. /\ wire'[socket[p]][x] = <<>>
        /\ \A e \in Sockets \ {socket[p]} : wire'[e][x] = wire[e][x]
        /\ UNCHANGED <<data[x], socket[x], isReconnecting[x], didSendDisconnect[x], farewell[x]>>
        /\ taken["server"] \subseteq taken'["server"]
        /\ incomingMsgId' = incomingMsgId
    BY Zenon, <1>0, <1>b DEF Begun
  <1>2. /\ Orderly(<<>>, incomingMsgId[Other(x)], farewell[x])
        /\ \A t \in Types : NoneOf(<<>>, t)
    BY DEF Orderly, NoneOf
  <1>3. incomingMsgId[Other(x)] <= incomingMsgId[Other(x)]
    BY <1>0
  <1>4. Sender(x)'
    BY Zenon, <1>0, <1>1, <1>2, <1>3, ShorterFlow
  <1> QED BY Zenon, <1>4 DEF UnderWay

\* The client reconnects: its new socket is the only one that is open.
LEMMA ClientReconnectsFlow ==
    ASSUME IInv, FlowInv, ClientReconnects
    PROVE  FlowInv'
  <1> DEFINE c == opened + 1
  <1>0. /\ opened \in Nat /\ c \in Sockets /\ SocketsAgree
        /\ "client" \in Peers /\ "server" \in Peers /\ Other("client") = "server"
        /\ taken \in [Peers -> SUBSET Sockets]
    <2>1. opened \in Sockets /\ taken \in [Peers -> SUBSET Sockets] /\ SocketsAgree
      BY Zenon DEF IInv, TypeOK, FlowInv
    <2>2. opened < MaxSockets
      BY Zenon DEF ClientReconnects
    <2> QED BY <2>1, <2>2, BoundsAssumption DEF Sockets, Peers, Other
  <1>1. /\ BeginAcceptReconnection("client", c) /\ opened' = c
        /\ open' = (open \ {socket["client"]}) \cup {c}
    BY Zenon DEF ClientReconnects
  <1>2. /\ open' = {c} /\ socket["client"] \notin open' /\ socket["server"] \notin open'
        /\ c \notin taken["server"] /\ c # socket["client"]
    <2>1. /\ socket["client"] = opened /\ open \subseteq {opened}
          /\ taken["server"] \subseteq 1..opened /\ socket["server"] \in 1..opened
      BY Zenon, <1>0 DEF SocketsAgree
    <2>2. open' = {c}
      BY Zenon, <1>1, <2>1
    <2> QED BY <1>0, <2>1, <2>2
  <1>3. /\ isReconnecting'["client"] /\ socket'["client"] = c
        /\ socket'["server"] = socket["server"] /\ drops' = drops
    <2>1. Begun("client", c)
      BY Zenon, <1>0, <1>1, BeginWires
    <2> QED BY Zenon, <1>0, <2>1 DEF Begun
  <1>4. taken'["server"] = taken["server"]
    BY Zenon, <1>0, <1>1 DEF BeginAcceptReconnection
  <1>5. SocketsAgree'
    BY <1>0, <1>1, <1>2, <1>3, <1>4 DEF SocketsAgree
  <1>6. ASSUME drops = 0 PROVE \A x \in Peers : Sender(x)' /\ UnderWay(x)'
    <2>1. Sender("client") /\ Sender("server")
      BY Zenon, <1>0, <1>6 DEF FlowInv
    <2>2. Sender("client")' /\ UnderWay("client")'
      BY Zenon, <1>0, <1>1, <1>2, <2>1, BeginSender
    <2>3. ~Connected("server")'
      BY Zenon, <1>2, <1>3 DEF Connected
    <2>4. Sender("server")' /\ UnderWay("server")'
      BY Zenon, <1>0, <1>1, <1>2, <2>1, <2>3, BeginOther
    <2> QED BY Zenon, <2>2, <2>4 DEF Peers
  <1> QED BY Zenon, <1>3, <1>5, <1>6 DEF FlowInv

\* The server accepts a socket: the client has not ended its reconnection over
\* that one, and no other is open.
LEMMA ServerReconnectsFlow ==
    ASSUME IInv, FlowInv, NEW c \in Sockets, ServerReconnects(c)
    PROVE  FlowInv'
  <1>0. /\ opened \in Nat /\ SocketsAgree
        /\ "client" \in Peers /\ "server" \in Peers /\ Other("server") = "client"
        /\ Other("client") = "server" /\ taken \in [Peers -> SUBSET Sockets]
    <2>1. opened \in Sockets /\ taken \in [Peers -> SUBSET Sockets] /\ SocketsAgree
      BY Zenon DEF IInv, TypeOK, FlowInv
    <2> QED BY <2>1, BoundsAssumption DEF Sockets, Peers, Other
  <1>1. /\ BeginAcceptReconnection("server", c) /\ opened' = opened
        /\ open' = open \ {socket["server"]} /\ c \in 1..opened \ taken["server"]
    BY Zenon DEF ServerReconnects
  <1>2. c # socket["server"] /\ socket["server"] \notin open'
    BY Zenon, <1>0, <1>1 DEF SocketsAgree
  <1>3. /\ isReconnecting'["client"] = isReconnecting["client"] /\ socket'["server"] = c
        /\ socket'["client"] = socket["client"] /\ drops' = drops
    <2>1. Begun("server", c)
      BY Zenon, <1>0, <1>1, BeginWires
    <2> QED BY Zenon, <1>0, <2>1 DEF Begun
  <1>4. taken'["server"] = taken["server"] \cup {c}
    BY Zenon, <1>0, <1>1 DEF BeginAcceptReconnection
  <1>5. SocketsAgree'
    BY Zenon, <1>0, <1>1, <1>2, <1>3, <1>4 DEF SocketsAgree
  <1>6. ASSUME drops = 0 PROVE \A x \in Peers : Sender(x)' /\ UnderWay(x)'
    <2>1. Sender("client") /\ Sender("server")
      BY Zenon, <1>0, <1>6 DEF FlowInv
    <2>2. Sender("server")' /\ UnderWay("server")'
      BY Zenon, <1>0, <1>1, <1>2, <2>1, BeginSender
    <2>3. ~Connected("client")'
      BY Zenon, <1>0, <1>1, <1>3 DEF Connected, SocketsAgree
    <2>4. "client" # "server" /\ (socket["client"] \in open' => socket["client"] \in open)
      BY Zenon, <1>1
    <2>5. Sender("client")' /\ UnderWay("client")'
      BY Zenon, <1>0, <1>1, <1>2, <2>1, <2>3, <2>4, BeginOther
    <2> QED BY Zenon, <2>2, <2>5 DEF Peers
  <1> QED BY Zenon, <1>3, <1>5, <1>6 DEF FlowInv

\* A step that leaves all the invariant is about alone, but may break sockets.
LEMMA QuietFlow ==
    ASSUME IInv, FlowInv, open' \subseteq open,
           UNCHANGED <<wire, data, socket, opened, taken, isReconnecting, didSendDisconnect,
                       farewell, incomingMsgId, incomingAckId, outgoingMsgId, outgoingAckId,
                       disposed, drops>>
    PROVE  FlowInv'
  <1>1. SocketsAgree'
    BY Zenon DEF FlowInv, SocketsAgree
  <1>2. ASSUME drops' = 0, NEW x \in Peers PROVE Sender(x)' /\ UnderWay(x)'
    <2>1. Sender(x) /\ UnderWay(x)
      BY Zenon, <1>2 DEF FlowInv
    <2>2. outgoingAckId'[Other(x)] \in Nat /\ outgoingAckId'[Other(x)] >= outgoingAckId[Other(x)]
      BY FlowTypes
    <2>3. Connected(x)' => Connected(x)
      BY Zenon DEF Connected
    <2>4. Kept(x)
      BY Zenon, <2>2, <2>3 DEF Kept
    <2> QED BY Zenon, <2>1, <2>4, KeptFlow
  <1> QED BY Zenon, <1>1, <1>2 DEF FlowInv

\* A step of the environment that shortens the queue of x on socket c, which x
\* cannot be sending over, to r.
LEMMA ShortenedFlow ==
    ASSUME IInv, FlowInv, NEW c \in Sockets, NEW x \in Peers, NEW r \in Seq(Msg),
           wire' = [wire EXCEPT ![c][x] = r], UNCHANGED <<endpointVars, open, drops>>,
           Connected(x) => socket[x] # c, drops = 0 /\ Sender(x) => Sender(x)'
    PROVE  FlowInv'
  <1>0. /\ UNCHANGED <<data, socket, opened, taken, isReconnecting, didSendDisconnect, farewell,
                       incomingMsgId, incomingAckId, outgoingMsgId, outgoingAckId, disposed,
                       open, drops>>
    BY Zenon DEF endpointVars, disconnectVars, sendVars, recvVars, timerVars, writerVars,
       eventVars, socketVars
  <1>1. SocketsAgree'
    BY Zenon, <1>0 DEF FlowInv, SocketsAgree
  <1>2. /\ \A e \in Sockets \ {c} : wire'[e][x] = wire[e][x]
        /\ \A y \in Peers \ {x} : \A e \in Sockets : wire'[e][y] = wire[e][y]
    BY Zenon DEF IInv, TypeOK
  <1>3. ASSUME drops' = 0, NEW y \in Peers PROVE Sender(y)' /\ UnderWay(y)'
    <2>0. drops = 0 /\ Sender(y) /\ UnderWay(y)
      BY Zenon, <1>0, <1>3 DEF FlowInv
    <2>1. Connected(y)' => Connected(y)
      BY Zenon, <1>0 DEF Connected
    <2>2. CASE y = x
      <3>1. Sender(x)'
        BY Zenon, <2>0, <2>2
      <3>2. ASSUME Connected(x) PROVE Pipeline(x)' = Pipeline(x)
        <4>1. socket[x] \in Sockets \ {c}
          BY Zenon, <3>2, FlowTypes
        <4> QED BY Zenon, <1>0, <1>2, <4>1 DEF Pipeline
      <3>3. UnderWay(x)'
        BY Zenon, <1>0, <2>0, <2>1, <2>2, <3>2 DEF UnderWay
      <3> QED BY Zenon, <2>2, <3>1, <3>3
    <2>3. CASE y # x
      <3>1. outgoingAckId'[Other(y)] \in Nat /\ outgoingAckId'[Other(y)] >= outgoingAckId[Other(y)]
        BY <1>0, FlowTypes
      <3>2. open' \subseteq open /\ taken["server"] \subseteq taken'["server"]
        BY Zenon, <1>0
      <3>3. Kept(y)
        BY Zenon, <1>0, <1>2, <2>1, <2>3, <3>1, <3>2 DEF Kept
      <3> QED BY Zenon, <2>0, <3>3, KeptFlow
    <2> QED BY Zenon, <2>2, <2>3
  <1> QED BY Zenon, <1>1, <1>3 DEF FlowInv

\* Before the server accepts socket c, no message is read from it; after it has
\* broken, what is lost is at the end.
LEMMA LossFlow ==
    ASSUME IInv, FlowInv, NEW c \in Sockets
    PROVE  /\ HandshakeRead(c) => FlowInv'
           /\ \A x \in Peers : LoseTail(c, x) => FlowInv'
  <1>0. SocketsAgree
    BY Zenon DEF FlowInv
  <1>1. ASSUME HandshakeRead(c) PROVE FlowInv'
    <2> DEFINE x == "client"
               r == Tail(wire[c][x])
    <2>0. /\ x \in Peers /\ incomingMsgId[Other(x)] \in Nat /\ wire[c][x] # <<>>
          /\ wire[c][x] \in Seq(Msg) /\ r \in Seq(Msg) /\ c \in Sockets \ taken["server"]
      <3>1. /\ x \in Peers /\ wire[c][x] # <<>> /\ c \in Sockets \ taken["server"]
        BY <1>1 DEF Peers, HandshakeRead
      <3>2. incomingMsgId[Other(x)] \in Nat /\ wire[c][x] \in Seq(Msg)
        BY Zenon, <3>1, FlowTypes
      <3>3. r \in Seq(Msg)
        BY <3>1, <3>2
      <3> QED BY Zenon, <3>1, <3>2, <3>3
    <2>1. wire' = [wire EXCEPT ![c][x] = r] /\ UNCHANGED <<endpointVars, open, drops>>
      BY Zenon, <1>1 DEF HandshakeRead
    <2>2. Connected(x) => socket[x] # c
      BY Zenon, <1>0, <2>0 DEF Connected, SocketsAgree
    <2>3. ASSUME Sender(x) PROVE Sender(x)'
      <3>1. NoneOf(wire[c][x], "Regular")
        BY Zenon, <2>0, <2>3 DEF Sender
      <3>2. Head(wire[c][x]).type # "Regular"
        BY Zenon, <2>0, <3>1, NoneOfShorter
      <3>3. /\ UNCHANGED <<data[x], socket[x], isReconnecting[x], didSendDisconnect[x],
                           farewell[x]>>
            /\ UNCHANGED <<open, taken, incomingMsgId>>
        BY Zenon, <2>1 DEF endpointVars, disconnectVars, recvVars, writerVars, socketVars
      <3>4. incomingMsgId[Other(x)] <= incomingMsgId[Other(x)]
        BY <2>0
      <3> QED BY Zenon, <2>0, <2>1, <2>3, <3>2, <3>3, <3>4, ConsumedFlow
    <2> HIDE DEF x, r
    <2> QED BY Zenon, <2>0, <2>1, <2>2, <2>3, ShortenedFlow
  <1>2. ASSUME NEW x \in Peers, LoseTail(c, x) PROVE FlowInv'
    <2> DEFINE q == wire[c][x]
               r == SubSeq(q, 1, Len(q) - 1)
    <2>0. /\ incomingMsgId[Other(x)] \in Nat /\ q # <<>> /\ q \in Seq(Msg) /\ c \notin open
      BY Zenon, <1>2, FlowTypes DEF LoseTail
    <2>1. wire' = [wire EXCEPT ![c][x] = r] /\ UNCHANGED <<endpointVars, open, drops>>
      BY Zenon, <1>2 DEF LoseTail
    <2>2. r \in Seq(Msg)
      <3> HIDE DEF q
      <3>1. PICK n \in Nat : Len(q) = n + 1
        BY <2>0
      <3>2. r = SubSeq(q, 1, n)
        BY <3>1
      <3> QED BY <2>0, <3>1, <3>2
    <2>3. Connected(x) => socket[x] # c
      BY Zenon, <2>0 DEF Connected
    <2>4. ASSUME Sender(x) PROVE Sender(x)'
      <3>1. /\ wire'[c][x] = r /\ \A e \in Sockets \ {c} : wire'[e][x] = wire[e][x]
        <4> HIDE DEF r
        <4> QED BY Zenon, <2>1 DEF IInv, TypeOK
      <3>2. /\ UNCHANGED <<data[x], socket[x], isReconnecting[x], didSendDisconnect[x],
                           farewell[x]>>
            /\ UNCHANGED <<open, taken, incomingMsgId>>
        BY Zenon, <2>1 DEF endpointVars, disconnectVars, recvVars, writerVars, socketVars
      <3>3. /\ socket[x] \in open' => socket[x] \in open
            /\ taken["server"] \subseteq taken'["server"]
            /\ ~(socket[x] = c /\ c \in open')
            /\ incomingMsgId[Other(x)] <= incomingMsgId[Other(x)]
            /\ incomingMsgId[Other(x)] = incomingMsgId'[Other(x)]
        BY <2>0, <3>2
      <3>4. Orderly(r, incomingMsgId[Other(x)], farewell[x])
        BY Zenon, <2>0, <2>4, OrderlyPrefix DEF Sender
      <3>5. \A t \in Types : NoneOf(wire[c][x], t) => NoneOf(r, t)
        BY Zenon, <2>0, NoneOfShorter
      <3> HIDE DEF r
      <3> QED BY ZenonT(30), <2>0, <2>2, <2>4, <3>1, <3>2, <3>3, <3>4, <3>5, ShorterFlow
    <2> HIDE DEF r, q
    <2> QED BY Zenon, <2>1, <2>2, <2>3, <2>4, ShortenedFlow
  <1> QED BY Zenon, <1>1, <1>2

\* Time, sockets and the handshake.
LEMMA EnvironmentFlow ==
    ASSUME IInv, FlowInv, Environment
    PROVE  FlowInv'
  <1> USE DEF endpointVars, disconnectVars, sendVars, recvVars, timerVars, writerVars,
              eventVars, socketVars, netVars
  <1>1. CASE \E p \in Peers : Silence(p) \/ ReplayAllowed(p)
    <2>1. UNCHANGED <<endpointVars, netVars>>
      BY Zenon, <1>1 DEF Silence, ReplayAllowed
    <2>2. open' \subseteq open
      BY Zenon, <2>1
    <2> QED BY Zenon, <2>1, <2>2, QuietFlow
  <1>2. CASE \E c \in Sockets : SocketBreaks(c)
    <2>1. UNCHANGED <<endpointVars, wire, drops>>
      BY Zenon, <1>2 DEF SocketBreaks
    <2>2. open' \subseteq open
      BY Zenon, <1>2 DEF SocketBreaks
    <2> QED BY Zenon, <2>1, <2>2, QuietFlow
  <1>3. CASE \E c \in Sockets, p \in Peers : \E i \in DOMAIN wire[c][p] : Drop(c, p, i)
    <2>1. UNCHANGED <<socket, taken, opened, open, isReconnecting>>
      BY Zenon, <1>3 DEF Drop
    <2>2. drops \in Nat /\ drops' = drops + 1
      BY <1>3, BoundsAssumption DEF Drop, IInv, TypeOK
    <2>3. drops' # 0
      BY <2>2
    <2> QED BY Zenon, <2>1, <2>3 DEF FlowInv, SocketsAgree
  <1> QED BY Zenon, <1>1, <1>2, <1>3, ClientReconnectsFlow, ServerReconnectsFlow, LossFlow
      DEF Environment

-----------------------------------------------------------------------------
(* Every step keeps the invariant.                                         *)

\* A frame whose numbers fit in its header.
LEMMA PlainFrame ==
    ASSUME NEW type \in {"Control", "Pause", "Resume", "Ack", "KeepAlive"},
           NEW a \in Nat, a < IdLimit, NEW d \in Payloads
    PROVE  LET m == ProtocolMessage(type, 0, a, d)
           IN  m \in Msg /\ Plain(m) /\ Header(m) = m /\ m.ack = a
  <1> DEFINE m == ProtocolMessage(type, 0, a, d)
  <1>1. m \in Msg /\ Plain(m) /\ m.id = 0 /\ m.ack = a
    BY Zenon DEF ProtocolMessage, Msg, Types, Plain
  <1> HIDE DEF m
  <1>2. IdLimit \in Nat /\ m.id < IdLimit /\ m.ack < IdLimit
    BY <1>1, BoundsAssumption
  <1> QED BY Zenon, <1>1, <1>2, HeaderIdentity DEF m

\* sendControl(), sendPause(), sendResume(), the keep alive and the
\* acknowledgement that _sendAckCheck() writes.
LEMMA PlainFlow ==
    ASSUME IInv, FlowInv, NEW p \in Peers,
           \/ \E x \in Controls : SendControl(p, x)
           \/ SendPause(p) \/ SendResume(p) \/ SendAckTimeout(p) \/ SendKeepAlive(p)
    PROVE  FlowInv'
  <1> USE DEF sendVars, recvVars, timerVars, eventVars, netVars
  <1>0. /\ incomingMsgId[p] \in Nat /\ incomingMsgId[p] < IdLimit /\ 0 \in Nat
        /\ 0 < IdLimit /\ NoData \in Payloads /\ \A x \in Controls : x \in Payloads
    BY Limits, BoundsAssumption DEF Payloads
  <1>1. ASSUME NEW type \in {"Control", "Pause", "Resume"}, NEW d \in Payloads,
               SendFrame(p, ProtocolMessage(type, 0, 0, d))
        PROVE  FlowInv'
    <2> DEFINE m == ProtocolMessage(type, 0, 0, d)
    <2>1. m \in Msg /\ Plain(m) /\ Header(m) = m
      BY <1>0, PlainFrame
    <2>2. /\ Write(p, <<m>>) /\ UNCHANGED <<wire, socketVars, open, drops, disconnectVars>>
          /\ UNCHANGED <<isReconnecting, incomingMsgId, outgoingMsgId, outgoingAckId,
                         incomingAckId>>
      BY Zenon, <1>1 DEF SendFrame
    <2> HIDE DEF m
    <2> QED BY Zenon, <2>1, <2>2, PlainWrite
  <1>2. ASSUME NEW type \in {"Ack", "KeepAlive"},
               Write(p, <<ProtocolMessage(type, 0, incomingMsgId[p], NoData)>>),
               incomingAckId' = [incomingAckId EXCEPT ![p] = incomingMsgId[p]],
               UNCHANGED <<wire, socketVars, open, drops, disconnectVars>>,
               UNCHANGED <<isReconnecting, incomingMsgId, outgoingMsgId, outgoingAckId>>
        PROVE  FlowInv'
    <2> DEFINE m == ProtocolMessage(type, 0, incomingMsgId[p], NoData)
    <2>1. m \in Msg /\ Plain(m) /\ Header(m) = m /\ m.ack = incomingMsgId[p]
      BY <1>0, PlainFrame
    <2>2. Write(p, <<m>>)
      BY Zenon, <1>2
    <2> HIDE DEF m
    <2>3. m.ack >= incomingAckId'[p] /\ \A x \in Peers \ {p} : UNCHANGED incomingAckId[x]
      BY <1>0, <1>2, <2>1 DEF IInv, TypeOK
    <2> QED BY Zenon, <1>2, <2>1, <2>2, <2>3, PlainWrite
  <1>3. CASE \E x \in Controls : SendControl(p, x)
    BY Zenon, <1>0, <1>1, <1>3 DEF SendControl
  <1>4. CASE SendPause(p) \/ SendResume(p)
    BY Zenon, <1>0, <1>1, <1>4 DEF SendPause, SendResume
  <1>5. CASE SendKeepAlive(p)
    BY Zenon, <1>2, <1>5 DEF SendKeepAlive
  <1>6. CASE SendAckTimeout(p)
    <2>1. CASE AckDue(p, incomingMsgId[p])
      BY Zenon, <1>2, <1>6, <2>1 DEF SendAckTimeout
    <2>2. CASE ~AckDue(p, incomingMsgId[p])
      <3>1. open' \subseteq open
        BY Zenon, <1>6 DEF SendAckTimeout
      <3> QED BY Zenon, <1>6, <2>2, <3>1, QuietFlow DEF SendAckTimeout, disconnectVars, socketVars
    <2> QED BY Zenon, <2>1, <2>2
  <1> QED BY Zenon, <1>3, <1>4, <1>5, <1>6

\* The timer of ProtocolWriter, flush() and dispose().
LEMMA EmptyingFlow ==
    ASSUME IInv, FlowInv, NEW p \in Peers, WriteNow(p) \/ Flush(p) \/ Dispose(p)
    PROVE  FlowInv'
  <1> USE DEF disconnectVars, sendVars, recvVars, socketVars
  <1>1. /\ wire' = SocketWrite(wire, socket[p], p, Flushed(p, data[p]))
        /\ data' = [data EXCEPT ![p] = IF paused[p] THEN data[p] ELSE <<>>]
    <2>1. CASE Flush(p)
      BY Zenon, <2>1 DEF Flush, Flushed
    <2>2. CASE WriteNow(p)
      BY Zenon, <2>2 DEF WriteNow
    <2>3. CASE Dispose(p)
      BY Zenon, <2>3 DEF Dispose
    <2> QED BY Zenon, <2>1, <2>2, <2>3
  <1>2. /\ UNCHANGED <<isReconnecting, didSendDisconnect, farewell, incomingMsgId,
                       incomingAckId, outgoingMsgId, outgoingAckId>>
        /\ UNCHANGED <<socket, taken, opened, open, drops>>
    BY Zenon DEF WriteNow, Flush, Dispose
  <1>3. /\ \A x \in Peers \ {p} : UNCHANGED disposed[x]
        /\ ~disposed'[p] => ~disposed[p]
    <2>1. \/ disposed' = disposed
          \/ disposed' = [disposed EXCEPT ![p] = TRUE]
      BY Zenon DEF WriteNow, Flush, Dispose
    <2>2. disposed \in [Peers -> BOOLEAN]
      BY Zenon DEF IInv, TypeOK
    <2> QED BY Zenon, <2>1, <2>2
  <1> QED BY Zenon, <1>1, <1>2, <1>3, FlushFlow

=============================================================================
