---------------------- MODULE PersistentProtocolWrites ----------------------
(***************************************************************************)
(* The steps of PersistentProtocol that write new frames keep IInv.        *)
(***************************************************************************)
EXTENDS PersistentProtocolFrames, TLAPS

USE DEF disconnectVars

\* What Append does, for any element of any sequence.
LEMMA AppendFacts ==
    ASSUME NEW S, NEW q \in Seq(S), NEW e \in S
    PROVE  /\ Append(q, e) \in Seq(S)
           /\ Len(Append(q, e)) = Len(q) + 1
           /\ \A j \in 1..Len(q) : Append(q, e)[j] = q[j]
  OBVIOUS

\* A frame made now by p is genuine.
LEMMA NewFrame ==
    ASSUME IInv, NEW p \in Peers, NEW t \in Types, NEW a \in Nat, NEW d \in Payloads,
           t # "Regular", a <= incomingMsgId[p]
    PROVE  /\ <<ProtocolMessage(t, 0, a, d)>> \in Seq(Msg)
           /\ AllGenuine(sent[p], incomingMsgId[p], <<ProtocolMessage(t, 0, a, d)>>)
  <1> DEFINE m == ProtocolMessage(t, 0, a, d)
  <1>1. m \in Msg
    BY DEF ProtocolMessage, Msg
  <1>2. Genuine(sent[p], incomingMsgId[p], m)
    BY Limits DEF Genuine, ProtocolMessage
  <1> HIDE DEF m
  <1>3. <<m>> \in Seq(Msg) /\ AllGenuine(sent[p], incomingMsgId[p], <<m>>)
    BY <1>1, <1>2 DEF AllGenuine
  <1> QED BY <1>3 DEF m

\* A write that leaves the counters alone keeps the invariant.
LEMMA WriteStep ==
    ASSUME IInv, NEW p \in Peers, NEW ms \in Seq(Msg),
           AllGenuine(sent[p], incomingMsgId[p], ms), Write(p, ms),
           UNCHANGED <<disconnectVars, sendVars, incomingMsgId, delivered,
                       keepAliveInterval, replayThrottled, paused, socketClose,
                       didDispose, socketVars, netVars>>,
           isReconnecting' \in [Peers -> BOOLEAN],
           incomingAckId' \in [Peers -> Nat],
           incomingAckTimeout' \in [Peers -> BOOLEAN],
           outgoingAckTimeout' \in [Peers -> BOOLEAN],
           quiet' \in [Peers -> BOOLEAN],
           socketTimeout' \in [Peers -> BOOLEAN],
           \A x \in Peers : incomingAckId'[x] <= incomingMsgId[x]
    PROVE  IInv'
  <1> USE DEF sendVars, socketVars, netVars
  <1>1. /\ data' \in [Peers -> Seq(Msg)]
        /\ writeNowTimeout' \in [Peers -> BOOLEAN]
        /\ \A x \in Peers : AllGenuine(sent[x], incomingMsgId[x], data'[x])
    BY Zenon, Limits, WriteGenuine DEF IInv, FramesGenuine
  <1>2. TypeOK'
    BY Zenon, <1>1 DEF IInv, TypeOK
  <1> QED BY <1>1, <1>2, FrameStep DEF IInv, FramesGenuine

\* _recvAckCheck() only touches its timer and the timeout event.
LEMMA RecvAckCheckTypes ==
    ASSUME TypeOK, NEW p \in Peers, NEW timer \in BOOLEAN, NEW late \in BOOLEAN,
           NEW out, NEW ack, NEW rec, RecvAckCheck(p, timer, out, ack, rec, late)
    PROVE  /\ outgoingAckTimeout' \in [Peers -> BOOLEAN]
           /\ quiet' \in [Peers -> BOOLEAN]
           /\ socketTimeout' \in [Peers -> BOOLEAN]
  BY ZenonT(60) DEF RecvAckCheck, NothingToWatch, TypeOK

\* Acknowledging everything received never acknowledges more than that.
LEMMA Acknowledged ==
    ASSUME IInv, NEW p \in Peers,
           incomingAckId' = [incomingAckId EXCEPT ![p] = incomingMsgId[p]]
    PROVE  /\ incomingAckId' \in [Peers -> Nat]
           /\ \A x \in Peers : incomingAckId'[x] <= incomingMsgId[x]
  <1>1. incomingAckId \in [Peers -> Nat] /\ incomingMsgId \in [Peers -> Nat]
    BY DEF IInv, TypeOK
  <1>2. \A x \in Peers : incomingAckId[x] <= incomingMsgId[x]
    BY DEF IInv, CountersAgree
  <1> QED BY <1>1, <1>2

\* sendControl(), sendPause() and sendResume()
LEMMA SendFrameStep ==
    ASSUME IInv, NEW p \in Peers, NEW t \in Types, NEW d \in Payloads, t # "Regular",
           SendFrame(p, ProtocolMessage(t, 0, 0, d))
    PROVE  IInv'
  <1> DEFINE ms == <<ProtocolMessage(t, 0, 0, d)>>
  <1>1. ms \in Seq(Msg) /\ AllGenuine(sent[p], incomingMsgId[p], ms)
    BY NewFrame, Limits
  <1>2. Write(p, ms)
    BY DEF SendFrame
  <1> HIDE DEF ms
  <1> QED BY Zenon, <1>1, <1>2, WriteStep DEF SendFrame, IInv, TypeOK, CountersAgree, recvVars,
             timerVars, eventVars

\* _sendKeepAlive()
LEMMA SendKeepAliveStep ==
    ASSUME IInv, NEW p \in Peers, SendKeepAlive(p)
    PROVE  IInv'
  <1> DEFINE ms == <<ProtocolMessage("KeepAlive", 0, incomingMsgId[p], NoData)>>
  <1>1. ms \in Seq(Msg) /\ AllGenuine(sent[p], incomingMsgId[p], ms)
    <2>1. incomingMsgId[p] \in Nat /\ "KeepAlive" \in Types /\ NoData \in Payloads
      BY Limits DEF Types, Payloads
    <2> QED BY <2>1, NewFrame
  <1>2. Write(p, ms)
    BY DEF SendKeepAlive
  <1>3. /\ incomingAckId' \in [Peers -> Nat]
        /\ \A x \in Peers : incomingAckId'[x] <= incomingMsgId[x]
    BY Zenon, Acknowledged DEF SendKeepAlive
  <1> HIDE DEF ms
  <1> QED BY Zenon, <1>1, <1>2, <1>3, WriteStep DEF SendKeepAlive, IInv, TypeOK, timerVars,
             eventVars

\* The acknowledgement timer.
LEMMA SendAckTimeoutStep ==
    ASSUME IInv, NEW p \in Peers, SendAckTimeout(p)
    PROVE  IInv'
  <1>0. incomingAckTimeout' \in [Peers -> BOOLEAN]
    BY DEF SendAckTimeout, IInv, TypeOK
  <1>1. CASE ~AckDue(p, incomingMsgId[p])
    <2>1. TypeOK'
      BY SMTT(60), <1>0, <1>1 DEF SendAckTimeout, IInv, TypeOK, sendVars, eventVars, socketVars,
                        netVars
    <2> QED BY <1>1, <2>1, QuietStep DEF SendAckTimeout, recvVars, netVars
  <1>2. CASE AckDue(p, incomingMsgId[p])
    <2> DEFINE ms == <<ProtocolMessage("Ack", 0, incomingMsgId[p], NoData)>>
    <2>1. ms \in Seq(Msg) /\ AllGenuine(sent[p], incomingMsgId[p], ms)
      <3>1. incomingMsgId[p] \in Nat /\ "Ack" \in Types /\ NoData \in Payloads
        BY Limits DEF Types, Payloads
      <3> QED BY <3>1, NewFrame
    <2>2. Write(p, ms)
      BY <1>2 DEF SendAckTimeout
    <2>3. /\ incomingAckId' \in [Peers -> Nat]
          /\ \A x \in Peers : incomingAckId'[x] <= incomingMsgId[x]
      BY <1>2, Acknowledged DEF SendAckTimeout
    <2> HIDE DEF ms
    <2> QED BY Zenon, <1>0, <2>1, <2>2, <2>3, WriteStep DEF SendAckTimeout, IInv, TypeOK, eventVars
  <1> QED BY <1>1, <1>2

\* The timer that watches for acknowledgements.
LEMMA RecvAckTimeoutStep ==
    ASSUME IInv, NEW p \in Peers, RecvAckTimeout(p)
    PROVE  IInv'
  <1>1. quiet[p] \in BOOLEAN /\ TypeOK
    BY Zenon DEF IInv, TypeOK
  <1>2. /\ outgoingAckTimeout' \in [Peers -> BOOLEAN]
        /\ quiet' \in [Peers -> BOOLEAN]
        /\ socketTimeout' \in [Peers -> BOOLEAN]
    BY Zenon, <1>1, RecvAckCheckTypes DEF RecvAckTimeout
  <1>3. TypeOK'
    BY Zenon, <1>1, <1>2 DEF RecvAckTimeout, TypeOK, sendVars, recvVars, writerVars, socketVars,
                      netVars
  <1> QED BY <1>3, QuietStep DEF RecvAckTimeout, writerVars, netVars

\* endAcceptReconnection()
LEMMA EndAcceptReconnectionStep ==
    ASSUME IInv, NEW p \in Peers, EndAcceptReconnection(p)
    PROVE  IInv'
  <1> DEFINE ack == <<ProtocolMessage("Ack", 0, incomingMsgId[p], NoData)>>
             ms == ack \o outgoingUnackMsg[p]
  <1>0. TypeOK /\ sent[p] \in Seq(Data) /\ incomingMsgId[p] \in Nat
    BY Limits DEF IInv
  <1>1. ms \in Seq(Msg) /\ AllGenuine(sent[p], incomingMsgId[p], ms)
    <2>1. "Ack" \in Types /\ NoData \in Payloads
      BY DEF Types, Payloads
    <2>2. ack \in Seq(Msg) /\ AllGenuine(sent[p], incomingMsgId[p], ack)
      BY <1>0, <2>1, NewFrame
    <2>3. /\ outgoingUnackMsg[p] \in Seq(Msg)
          /\ AllGenuine(sent[p], incomingMsgId[p], outgoingUnackMsg[p])
      BY DEF IInv, TypeOK, FramesGenuine
    <2> HIDE DEF ack
    <2> QED BY <1>0, <2>2, <2>3, GenuineConcat
  <1>2. Write(p, ms)
    BY DEF EndAcceptReconnection, Resend
  <1>3. /\ incomingAckId' \in [Peers -> Nat]
        /\ \A x \in Peers : incomingAckId'[x] <= incomingMsgId[x]
    BY Zenon, Acknowledged DEF EndAcceptReconnection
  <1>4. /\ outgoingAckTimeout' \in [Peers -> BOOLEAN]
        /\ quiet' \in [Peers -> BOOLEAN]
        /\ socketTimeout' \in [Peers -> BOOLEAN]
    <2> DEFINE late == quiet[p] /\ (outgoingUnackMsg[p] = <<>> \/ disposed[p])
    <2>1. late \in BOOLEAN /\ outgoingAckTimeout[p] \in BOOLEAN
      BY <1>0 DEF TypeOK
    <2>2. RecvAckCheck(p, outgoingAckTimeout[p], outgoingMsgId[p], outgoingAckId[p], FALSE, late)
      BY Zenon DEF EndAcceptReconnection
    <2> HIDE DEF late
    <2> QED BY Zenon, <1>0, <2>1, <2>2, RecvAckCheckTypes
  <1>5. isReconnecting' \in [Peers -> BOOLEAN]
    BY <1>0 DEF EndAcceptReconnection, TypeOK
  <1> HIDE DEF ms
  <1> QED BY Zenon, <1>0, <1>1, <1>2, <1>3, <1>4, <1>5, WriteStep DEF EndAcceptReconnection, TypeOK

\* The writer's buffer goes to the socket, or stays when writing is paused:
\* what sendDisconnect(), dispose() and beginAcceptReconnection() do to it.
LEMMA FlushGenuine ==
    ASSUME IInv, NEW p \in Peers, NEW ms \in Seq(Msg), NEW q \in Seq(Msg),
           AllGenuine(sent[p], incomingMsgId[p], ms), q = ms \/ q = <<>>
    PROVE  /\ SocketWrite(wire, socket[p], p, Flushed(p, ms)) \in
                [Sockets -> [Peers -> Seq(Msg)]]
           /\ \A x \in Peers : \A c \in Sockets :
                AllGenuine(sent[x], incomingMsgId[x],
                           SocketWrite(wire, socket[p], p, Flushed(p, ms))[c][x])
           /\ [data EXCEPT ![p] = q] \in [Peers -> Seq(Msg)]
           /\ \A x \in Peers :
                AllGenuine(sent[x], incomingMsgId[x], [data EXCEPT ![p] = q][x])
  <1>0. /\ data \in [Peers -> Seq(Msg)] /\ socket[p] \in Sockets
        /\ wire \in [Sockets -> [Peers -> Seq(Msg)]]
        /\ sent[p] \in Seq(Data) /\ incomingMsgId[p] \in Nat
    BY SMTT(60) DEF IInv, TypeOK
  <1>1. Flushed(p, ms) \in Seq(Msg) /\ AllGenuine(sent[p], incomingMsgId[p], Flushed(p, ms))
    BY <1>0, FlushedGenuine
  <1>2. AllGenuine(sent[p], incomingMsgId[p], q)
    BY EmptyGenuine
  <1>3. /\ SocketWrite(wire, socket[p], p, Flushed(p, ms)) \in
              [Sockets -> [Peers -> Seq(Msg)]]
        /\ \A x \in Peers : \A c \in Sockets :
             AllGenuine(sent[x], incomingMsgId[x],
                        SocketWrite(wire, socket[p], p, Flushed(p, ms))[c][x])
    BY Zenon, <1>0, <1>1, Limits, SocketWriteGenuine DEF IInv, FramesGenuine
  <1>4. /\ [data EXCEPT ![p] = q] \in [Peers -> Seq(Msg)]
        /\ \A x \in Peers :
             AllGenuine(sent[x], incomingMsgId[x], [data EXCEPT ![p] = q][x])
    BY ZenonT(60), <1>0, <1>2, Limits, DataUpdate DEF IInv, FramesGenuine
  <1> QED BY <1>3, <1>4

\* dispose()
LEMMA DisposeStep ==
    ASSUME IInv, NEW p \in Peers, Dispose(p)
    PROVE  IInv'
  <1> USE DEF sendVars, recvVars, eventVars
  <1>0. data[p] \in Seq(Msg) /\ AllGenuine(sent[p], incomingMsgId[p], data[p])
    BY SMTT(60) DEF IInv, TypeOK, FramesGenuine
  <1> DEFINE q == IF paused[p] THEN data[p] ELSE <<>>
  <1>1. q \in Seq(Msg) /\ (q = data[p] \/ q = <<>>)
    BY <1>0
  <1>2. wire' = SocketWrite(wire, socket[p], p, Flushed(p, data[p])) /\ data' = [data EXCEPT ![p] = q]
    BY DEF Dispose
  <1> HIDE DEF q
  <1>3. /\ wire' \in [Sockets -> [Peers -> Seq(Msg)]]
        /\ data' \in [Peers -> Seq(Msg)]
        /\ \A x \in Peers : AllGenuine(sent[x], incomingMsgId[x], data'[x])
        /\ \A x \in Peers : \A c \in Sockets :
             AllGenuine(sent[x], incomingMsgId[x], wire'[c][x])
    BY <1>0, <1>1, <1>2, FlushGenuine
  <1>4. TypeOK'
    BY Zenon, <1>3 DEF Dispose, IInv, TypeOK
  <1> QED BY <1>3, <1>4, FrameStep DEF Dispose, IInv, CountersAgree

\* sendDisconnect()
LEMMA SendDisconnectStep ==
    ASSUME IInv, NEW p \in Peers, SendDisconnect(p)
    PROVE  IInv'
  <1> USE DEF sendVars, recvVars, timerVars, eventVars, socketVars
  <1> DEFINE m == <<ProtocolMessage("Disconnect", 0, 0, NoData)>>
             all == data[p] \o m
             q == IF paused[p] THEN all ELSE <<>>
  <1>0. /\ data[p] \in Seq(Msg) /\ AllGenuine(sent[p], incomingMsgId[p], data[p])
        /\ sent[p] \in Seq(Data) /\ incomingMsgId[p] \in Nat
    BY Zenon DEF IInv, TypeOK, FramesGenuine
  <1>1. m \in Seq(Msg) /\ AllGenuine(sent[p], incomingMsgId[p], m)
    <2>1. /\ "Disconnect" \in Types /\ NoData \in Payloads /\ "Disconnect" # "Regular"
          /\ 0 \in Nat /\ 0 <= incomingMsgId[p]
      BY <1>0 DEF Types, Payloads
    <2> QED BY Zenon, <2>1, NewFrame
  <1>2. CASE disposed[p]
    <2>1. TypeOK'
      BY SMTT(60), <1>2 DEF SendDisconnect, IInv, TypeOK
    <2> QED BY <1>2, <2>1, QuietStep DEF SendDisconnect, WithDisconnect
  <1>3. CASE ~disposed[p]
    <2>1. /\ data' = [data EXCEPT ![p] = q]
          /\ wire' = SocketWrite(wire, socket[p], p, Flushed(p, all))
          /\ writeNowTimeout' = [writeNowTimeout EXCEPT ![p] = @ \/ data[p] = <<>>]
      BY <1>3 DEF SendDisconnect, WithDisconnect
    <2>2. writeNowTimeout' \in [Peers -> BOOLEAN]
      BY <2>1 DEF IInv, TypeOK
    <2> HIDE DEF m
    <2>3. all \in Seq(Msg) /\ AllGenuine(sent[p], incomingMsgId[p], all)
      BY <1>0, <1>1, GenuineConcat
    <2> HIDE DEF all
    <2>4. q \in Seq(Msg) /\ (q = all \/ q = <<>>)
      BY Zenon, <2>3, EmptyGenuine
    <2> HIDE DEF q
    <2>5. /\ wire' \in [Sockets -> [Peers -> Seq(Msg)]]
          /\ data' \in [Peers -> Seq(Msg)]
          /\ \A x \in Peers : AllGenuine(sent[x], incomingMsgId[x], data'[x])
          /\ \A x \in Peers : \A c \in Sockets :
               AllGenuine(sent[x], incomingMsgId[x], wire'[c][x])
      BY <2>1, <2>3, <2>4, FlushGenuine
    <2>6. TypeOK'
      BY ZenonT(60), <2>2, <2>5 DEF SendDisconnect, IInv, TypeOK
    <2> QED BY <2>5, <2>6, FrameStep DEF SendDisconnect, IInv, CountersAgree
  <1> QED BY <1>2, <1>3

\* beginAcceptReconnection(): only frames are lost.
LEMMA BeginAcceptReconnectionStep ==
    ASSUME IInv, NEW p \in Peers, NEW c \in Sockets, BeginAcceptReconnection(p, c),
           opened' \in Sockets, open' \in SUBSET Sockets
    PROVE  IInv'
  <1> USE DEF sendVars, recvVars, timerVars
  <1> DEFINE old == socket[p]
             w == SocketWrite(wire, old, p, Flushed(p, data[p]))
             none == <<>>
  <1>0. /\ data[p] \in Seq(Msg) /\ AllGenuine(sent[p], incomingMsgId[p], data[p])
        /\ old \in Sockets /\ Other(p) \in Peers
    BY Zenon, Limits DEF IInv, TypeOK, FramesGenuine
  <1>e. /\ none \in Seq(Msg)
        /\ AllGenuine(sent[Other(p)], incomingMsgId[Other(p)], none)
    BY EmptyGenuine
  <1>1. /\ wire' = [w EXCEPT ![old][Other(p)] = none]
        /\ data' = [data EXCEPT ![p] = <<>>]
    BY DEF BeginAcceptReconnection
  <1>2. /\ w \in [Sockets -> [Peers -> Seq(Msg)]]
        /\ data' \in [Peers -> Seq(Msg)]
        /\ \A x \in Peers : AllGenuine(sent[x], incomingMsgId[x], data'[x])
        /\ \A x \in Peers : \A k \in Sockets :
             AllGenuine(sent[x], incomingMsgId[x], w[k][x])
    BY Zenon, <1>0, <1>1, <1>e, FlushGenuine
  <1> HIDE DEF w, old, none
  <1>3. /\ wire' \in [Sockets -> [Peers -> Seq(Msg)]]
        /\ \A x \in Peers : \A k \in Sockets :
             AllGenuine(sent[x], incomingMsgId[x], wire'[k][x])
    <2> DEFINE o == Other(p)
               v == [w EXCEPT ![old][o] = none]
    <2>1. /\ sent \in [Peers -> Seq(Data)] /\ incomingMsgId \in [Peers -> Nat]
      BY Limits
    <2>2. o \in Peers /\ AllGenuine(sent[o], incomingMsgId[o], none) /\ wire' = v
      BY <1>0, <1>1, <1>e
    <2> HIDE DEF o
    <2>3. /\ v \in [Sockets -> [Peers -> Seq(Msg)]]
          /\ \A x \in Peers : \A k \in Sockets :
               AllGenuine(sent[x], incomingMsgId[x], v[k][x])
      BY ZenonT(60), <1>0, <1>2, <1>e, <2>1, <2>2, WireUpdate
    <2> QED BY <2>2, <2>3
  <1>4. taken' \in [Peers -> SUBSET Sockets] /\ socket' \in [Peers -> Sockets]
    <2>1. taken \in [Peers -> SUBSET Sockets] /\ socket \in [Peers -> Sockets]
      BY Zenon DEF IInv, TypeOK
    <2>2. /\ taken' = [taken EXCEPT ![p] = taken[p] \cup {c}]
          /\ socket' = [socket EXCEPT ![p] = c]
      BY Zenon DEF BeginAcceptReconnection
    <2> QED BY <2>1, <2>2
  <1>5. TypeOK'
    BY Zenon, <1>2, <1>3, <1>4 DEF BeginAcceptReconnection, IInv, TypeOK
  <1>6. /\ UNCHANGED <<sendVars, incomingMsgId, delivered>>
        /\ \A x \in Peers : incomingAckId'[x] <= incomingMsgId[x]
    BY Zenon DEF BeginAcceptReconnection, IInv, CountersAgree
  <1> QED BY Zenon, <1>2, <1>3, <1>5, <1>6, FrameStep

\* beginAcceptReconnection() on either side.
LEMMA ReconnectsStep ==
    ASSUME IInv, ClientReconnects \/ \E c \in Sockets : ServerReconnects(c)
    PROVE  IInv'
  <1>0. /\ opened \in Sockets /\ open \in SUBSET Sockets
        /\ "client" \in Peers /\ "server" \in Peers
    BY DEF IInv, TypeOK, Peers
  <1>1. CASE ClientReconnects
    <2>1. opened + 1 \in Sockets /\ opened' = opened + 1
      BY <1>0, <1>1, BoundsAssumption DEF ClientReconnects, Sockets
    <2>2. open' \in SUBSET Sockets
      BY <1>0, <1>1, <2>1 DEF ClientReconnects
    <2> QED BY <1>0, <1>1, <2>1, <2>2, BeginAcceptReconnectionStep DEF ClientReconnects
  <1>2. ASSUME NEW c \in Sockets, ServerReconnects(c)
        PROVE  IInv'
    <2>1. open' \in SUBSET Sockets /\ opened' \in Sockets
      BY Zenon, <1>0, <1>2 DEF ServerReconnects
    <2> QED BY <1>0, <1>2, <2>1, BeginAcceptReconnectionStep DEF ServerReconnects
  <1> QED BY <1>1, <1>2

-----------------------------------------------------------------------------

\* send(): the new message is at the end of the window.
LEMMA SendStep ==
    ASSUME IInv, NEW p \in Peers, NEW d \in Data, Send(p, d)
    PROVE  IInv'
  <1> DEFINE id == outgoingMsgId[p] + 1
             m == ProtocolMessage("Regular", id, incomingMsgId[p], d)
  <1>0. /\ TypeOK /\ CountersAgree /\ FramesGenuine /\ InOrderExactlyOnce
        /\ UnackWindow /\ AckedWasDelivered
    BY DEF IInv
  <1>1. /\ sent' = [sent EXCEPT ![p] = Append(sent[p], d)]
        /\ outgoingMsgId' = [outgoingMsgId EXCEPT ![p] = id]
        /\ outgoingUnackMsg' = [outgoingUnackMsg EXCEPT ![p] = Append(outgoingUnackMsg[p], m)]
        /\ id <= MaxMsgs[p] /\ id = Len(sent[p]) + 1 /\ id \in Nat
        /\ UNCHANGED <<outgoingAckId, incomingMsgId, delivered, wire>>
    <2>1. /\ sent' = [sent EXCEPT ![p] = Append(sent[p], d)]
          /\ outgoingMsgId' = [outgoingMsgId EXCEPT ![p] = id]
          /\ outgoingUnackMsg' = [outgoingUnackMsg EXCEPT ![p] = Append(outgoingUnackMsg[p], m)]
          /\ id <= MaxMsgs[p]
          /\ UNCHANGED <<outgoingAckId, incomingMsgId, delivered, wire>>
      BY Zenon DEF Send, netVars
    <2>2. id = Len(sent[p]) + 1 /\ id \in Nat
      BY SMTT(60), <1>0 DEF CountersAgree, TypeOK
    <2> QED BY <2>1, <2>2
  <1>2. m \in Msg /\ Genuine(sent'[p], incomingMsgId[p], m)
    <2>1. /\ incomingMsgId[p] \in Nat /\ sent[p] \in Seq(Data)
          /\ sent'[p] = Append(sent[p], d)
      BY <1>0, <1>1 DEF TypeOK
    <2>2. m \in Msg
      BY <1>1, <2>1 DEF ProtocolMessage, Msg, Types, Payloads
    <2>3. /\ m.ack = incomingMsgId[p] /\ m.id = id /\ m.data = d /\ m.type = "Regular"
      BY DEF ProtocolMessage
    <2>5. id > 0
      BY <1>1
    <2> HIDE DEF m, id
    <2>4. Len(sent'[p]) = id /\ sent'[p][id] = d
      BY <1>1, <2>1
    <2> QED BY <1>1, <2>1, <2>2, <2>3, <2>4, <2>5 DEF Genuine
  <1>3. /\ sent' \in [Peers -> Seq(Data)]
        /\ \A x \in Peers : /\ Len(sent[x]) <= Len(sent'[x])
                            /\ \A j \in 1..Len(sent[x]) : sent'[x][j] = sent[x][j]
    <2>0. sent \in [Peers -> Seq(Data)] /\ sent[p] \in Seq(Data)
      BY Zenon, <1>0 DEF TypeOK
    <2>1. /\ Append(sent[p], d) \in Seq(Data)
          /\ Len(Append(sent[p], d)) = Len(sent[p]) + 1
          /\ \A j \in 1..Len(sent[p]) : Append(sent[p], d)[j] = sent[p][j]
      BY Zenon, <2>0, AppendFacts
    <2>2. \A x \in Peers : sent'[x] = IF x = p THEN Append(sent[p], d) ELSE sent[x]
      BY <1>1, <2>0
    <2>3. sent' \in [Peers -> Seq(Data)]
      BY <1>1, <2>0, <2>1
    <2>4. \A x \in Peers : Len(sent[x]) \in Nat
      BY <2>0
    <2>5. ASSUME NEW x \in Peers
          PROVE  /\ Len(sent[x]) <= Len(sent'[x])
                 /\ \A j \in 1..Len(sent[x]) : sent'[x][j] = sent[x][j]
      <3>1. CASE x = p
        <4> DEFINE r == Append(sent[p], d)
        <4>1. /\ Len(r) = Len(sent[p]) + 1
              /\ \A j \in 1..Len(sent[p]) : r[j] = sent[p][j]
              /\ sent'[x] = r
          BY Zenon, <2>1, <2>2, <3>1
        <4> HIDE DEF r
        <4> QED BY <2>4, <3>1, <4>1
      <3>2. CASE x # p
        <4>1. sent'[x] = sent[x]
          BY <2>2, <3>2
        <4> QED BY <2>4, <4>1
      <3> QED BY <3>1, <3>2
    <2> QED BY <2>3, <2>5
  <1>4. \A x \in Peers : \A q \in Seq(Msg) :
          AllGenuine(sent[x], incomingMsgId[x], q) => AllGenuine(sent'[x], incomingMsgId[x], q)
    <2> SUFFICES ASSUME NEW x \in Peers, NEW q \in Seq(Msg),
                        AllGenuine(sent[x], incomingMsgId[x], q)
                 PROVE  AllGenuine(sent'[x], incomingMsgId[x], q)
      OBVIOUS
    <2>1. sent[x] \in Seq(Data) /\ sent'[x] \in Seq(Data) /\ incomingMsgId[x] \in Nat
      BY <1>0, <1>3 DEF TypeOK
    <2> DEFINE s == sent[x]
               t == sent'[x]
               n == incomingMsgId[x]
    <2>2. Len(s) <= Len(t) /\ (\A j \in 1..Len(s) : t[j] = s[j]) /\ n <= n
      BY <1>3, <2>1
    <2>3. s \in Seq(Data) /\ t \in Seq(Data) /\ n \in Nat /\ AllGenuine(s, n, q)
      BY <2>1
    <2> HIDE DEF s, t, n
    <2>4. AllGenuine(t, n, q)
      BY <2>2, <2>3, GenuineMonotone
    <2> QED BY <2>4 DEF t, n
  <1> HIDE DEF m, id
  <1>5. <<m>> \in Seq(Msg) /\ AllGenuine(sent'[p], incomingMsgId[p], <<m>>)
    BY <1>2 DEF AllGenuine
  <1>6. /\ outgoingUnackMsg' \in [Peers -> Seq(Msg)]
        /\ \A x \in Peers : AllGenuine(sent'[x], incomingMsgId[x], outgoingUnackMsg'[x])
    <2>0. \A x \in Peers : /\ outgoingUnackMsg[x] \in Seq(Msg)
                           /\ AllGenuine(sent'[x], incomingMsgId[x], outgoingUnackMsg[x])
      BY <1>0, <1>4 DEF TypeOK, FramesGenuine
    <2>1. /\ Append(outgoingUnackMsg[p], m) \in Seq(Msg)
          /\ AllGenuine(sent'[p], incomingMsgId[p], Append(outgoingUnackMsg[p], m))
      BY <1>2, <2>0 DEF AllGenuine
    <2> QED BY Zenon, <1>0, <1>1, <2>0, <2>1 DEF TypeOK
  <1>7. \A x \in Peers : Len(sent'[x]) < IdLimit /\ incomingMsgId[x] < IdLimit
    BY SMTT(60), <1>0, <1>1, Limits, BoundsAssumption DEF TypeOK
  <1>8. /\ data' \in [Peers -> Seq(Msg)]
        /\ writeNowTimeout' \in [Peers -> BOOLEAN]
        /\ \A x \in Peers : AllGenuine(sent'[x], incomingMsgId[x], data'[x])
    <2>0. /\ incomingMsgId \in [Peers -> Nat]
          /\ \A x \in Peers : AllGenuine(sent'[x], incomingMsgId[x], data[x])
      BY SMTT(60), <1>0, <1>4 DEF TypeOK, FramesGenuine
    <2>1. CASE isReconnecting[p]
      BY SMTT(60), <1>0, <2>0, <2>1 DEF Send, TypeOK
    <2>2. CASE ~isReconnecting[p]
      <3>1. Write(p, <<m>>)
        BY <2>2 DEF Send, m, id
      <3> QED BY Zenon, <1>0, <1>3, <1>5, <1>7, <2>0, <3>1, WriteGenuine
    <2> QED BY <2>1, <2>2
  <1>9. \A x \in Peers : \A c \in Sockets :
          AllGenuine(sent'[x], incomingMsgId[x], wire[c][x])
    BY <1>0, <1>4 DEF TypeOK, FramesGenuine
  <1>10. /\ outgoingAckTimeout' \in [Peers -> BOOLEAN]
         /\ quiet' \in [Peers -> BOOLEAN]
         /\ socketTimeout' \in [Peers -> BOOLEAN]
    <2>1. CASE isReconnecting[p]
      BY SMTT(60), <1>0, <2>1 DEF Send, TypeOK
    <2>2. CASE ~isReconnecting[p]
      <3> DEFINE late == quiet[p] /\ (outgoingUnackMsg[p] # <<>> \/ disposed[p])
      <3>1. late \in BOOLEAN /\ outgoingAckTimeout[p] \in BOOLEAN
        BY <1>0 DEF TypeOK
      <3>2. RecvAckCheck(p, outgoingAckTimeout[p], id, outgoingAckId[p], FALSE, late)
        BY Zenon, <2>2 DEF Send, id
      <3> HIDE DEF late
      <3> QED BY Zenon, <1>0, <3>1, <3>2, RecvAckCheckTypes
    <2> QED BY <2>1, <2>2
  <1>11. /\ incomingAckId' \in [Peers -> Nat]
         /\ \A x \in Peers : incomingAckId'[x] <= incomingMsgId[x]
    BY Zenon, Acknowledged DEF Send
  <1>12. TypeOK'
    <2>1. outgoingMsgId' \in [Peers -> Nat]
      BY <1>0, <1>1 DEF TypeOK
    <2> QED BY Zenon, <1>0, <1>1, <1>3, <1>6, <1>8, <1>10, <1>11, <2>1 DEF Send, TypeOK, socketVars, netVars
  <1>13. CountersAgree'
    <2>1. \A x \in Peers : /\ outgoingMsgId'[x] = IF x = p THEN id ELSE outgoingMsgId[x]
                           /\ sent'[x] = IF x = p THEN Append(sent[p], d) ELSE sent[x]
      BY <1>0, <1>1 DEF TypeOK
    <2>2. Len(Append(sent[p], d)) = Len(sent[p]) + 1
      BY <1>0 DEF TypeOK
    <2> QED BY ZenonT(60), <1>0, <1>1, <1>11, <2>1, <2>2 DEF CountersAgree
  <1>14. FramesGenuine'
    BY ZenonT(30), <1>1, <1>6, <1>8, <1>9 DEF FramesGenuine
  <1>15. InOrderExactlyOnce'
    <2> SUFFICES ASSUME NEW x \in Peers
                 PROVE  /\ Len(delivered[x]) <= Len(sent'[Other(x)])
                        /\ delivered[x] = SubSeq(sent'[Other(x)], 1, Len(delivered[x]))
      BY Zenon, <1>1 DEF InOrderExactlyOnce
    <2>0. Other(x) \in Peers
      BY DEF Other, Peers
    <2> DEFINE s == sent[Other(x)]
               t == sent'[Other(x)]
               n == Len(delivered[x])
    <2>1. /\ s \in Seq(Data) /\ t \in Seq(Data) /\ n \in Nat
          /\ n <= Len(s) /\ delivered[x] = SubSeq(s, 1, n)
          /\ Len(s) <= Len(t) /\ \A j \in 1..Len(s) : t[j] = s[j]
      <3>0. sent \in [Peers -> Seq(Data)] /\ delivered[x] \in Seq(Payloads)
        BY <1>0 DEF TypeOK
      <3>1. s \in Seq(Data) /\ t \in Seq(Data) /\ n \in Nat
        BY <1>3, <2>0, <3>0
      <3>2. n <= Len(s) /\ delivered[x] = SubSeq(s, 1, n)
        BY <1>0 DEF InOrderExactlyOnce
      <3>3. Len(s) <= Len(t) /\ \A j \in 1..Len(s) : t[j] = s[j]
        BY <1>3, <2>0
      <3> QED BY <3>1, <3>2, <3>3
    <2> HIDE DEF s, t, n
    <2>2. SubSeq(s, 1, n) = SubSeq(t, 1, n)
      BY <2>1
    <2>3. n <= Len(t)
      BY <2>1
    <2> QED BY Zenon, <2>1, <2>2, <2>3 DEF t, n
  <1>16. UnackWindow'
    <2> SUFFICES ASSUME NEW x \in Peers
                 PROVE  /\ Len(outgoingUnackMsg'[x]) = outgoingMsgId'[x] - outgoingAckId[x]
                        /\ \A i \in 1..Len(outgoingUnackMsg'[x]) :
                             /\ outgoingUnackMsg'[x][i].id = outgoingAckId[x] + i
                             /\ outgoingUnackMsg'[x][i].data = sent'[x][outgoingAckId[x] + i]
      <3>1. outgoingAckId' = outgoingAckId
        BY SMTT(30), <1>1
      <3> QED BY <3>1, Zenon DEF UnackWindow
    <2> DEFINE q == outgoingUnackMsg[x]
               a == outgoingAckId[x]
    <2>1. /\ q \in Seq(Msg) /\ a \in Nat /\ outgoingMsgId[x] \in Nat
          /\ Len(q) = outgoingMsgId[x] - a
          /\ \A i \in 1..Len(q) : q[i].id = a + i /\ q[i].data = sent[x][a + i]
          /\ outgoingMsgId[x] = Len(sent[x])
      <3>1. q \in Seq(Msg) /\ a \in Nat /\ outgoingMsgId[x] \in Nat
        BY Zenon, <1>0 DEF TypeOK
      <3>2. /\ Len(q) = outgoingMsgId[x] - a
            /\ \A i \in 1..Len(q) : q[i].id = a + i /\ q[i].data = sent[x][a + i]
        BY Zenon, <1>0 DEF UnackWindow
      <3>3. outgoingMsgId[x] = Len(sent[x])
        BY ZenonT(60), <1>0 DEF CountersAgree
      <3> QED BY Zenon, <3>1, <3>2, <3>3
    <2>2. CASE x # p
      <3>1. /\ outgoingUnackMsg'[x] = q /\ sent'[x] = sent[x]
            /\ outgoingMsgId'[x] = outgoingMsgId[x]
        BY <1>0, <1>1, <2>2 DEF TypeOK
      <3> QED BY <2>1, <3>1
    <2>3. CASE x = p
      <3>1. /\ outgoingUnackMsg'[x] = Append(q, m)
            /\ sent'[x] = Append(sent[x], d)
            /\ outgoingMsgId'[x] = id /\ id = outgoingMsgId[x] + 1
        BY SMTT(60), <1>0, <1>1, <2>3 DEF TypeOK, id
      <3>2. m.id = id /\ m.data = d
        BY DEF m, ProtocolMessage
      <3>3. sent[x] \in Seq(Data)
        BY <1>0 DEF TypeOK
      <3> HIDE DEF q, a
      <3>4. Len(Append(q, m)) = Len(q) + 1 /\ Len(q) \in Nat
        BY <2>1, <1>2
      <3>5. Len(Append(q, m)) = id - a
        BY SMTT(60), <2>1, <3>1, <3>4
      <3>6. ASSUME NEW i \in 1..Len(Append(q, m))
            PROVE  /\ Append(q, m)[i].id = a + i
                   /\ Append(q, m)[i].data = Append(sent[x], d)[a + i]
        <4>1. CASE i \in 1..Len(q)
          <5>1. Append(q, m)[i] = q[i]
            BY <4>1, <2>1, <1>2
          <5>2. a + i \in 1..Len(sent[x])
            BY <4>1, <2>1
          <5>3. Append(sent[x], d)[a + i] = sent[x][a + i]
            BY <5>2, <3>3
          <5> QED BY <5>1, <5>3, <4>1, <2>1
        <4>2. CASE i = Len(q) + 1
          <5>1. Append(q, m)[i] = m
            BY SMTT(60), <4>2, <2>1, <1>2
          <5>2. a + i = Len(sent[x]) + 1 /\ a + i = id
            BY SMTT(60), <4>2, <2>1, <3>1
          <5>3. Append(sent[x], d)[a + i] = d
            BY <5>2, <3>3
          <5> QED BY SMTT(60), <5>1, <5>2, <5>3, <3>2
        <4>3. i \in 1..Len(q) \/ i = Len(q) + 1
          BY <3>4
        <4> QED BY Zenon, <4>1, <4>2, <4>3
      <3> QED BY Zenon, <3>1, <3>5, <3>6 DEF a
    <2> QED BY <2>2, <2>3
  <1>17. AckedWasDelivered'
    BY <1>0, <1>1 DEF AckedWasDelivered
  <1> QED BY <1>12, <1>13, <1>14, <1>15, <1>16, <1>17 DEF IInv

=============================================================================
