---------------------- MODULE PersistentProtocolProofs ----------------------
(***************************************************************************)
(* Theorems about PersistentProtocol for every number of messages, sockets *)
(* and lost frames.  The invariant IInv is inductive; exactly-once         *)
(* delivery, the window of unacknowledged messages and the refinement of   *)
(* ReliableChannel follow from it.                                         *)
(***************************************************************************)
EXTENDS PersistentProtocolWrites, TLAPS

USE DEF disconnectVars

-----------------------------------------------------------------------------
(* The steps of _receiveMessage() keep IInv.                               *)

\* q holds the messages a + 1 .. out of s.
Window(q, s, inc, a, out) ==
    /\ q \in Seq(Msg)
    /\ AllGenuine(s, inc, q)
    /\ Len(q) = out - a
    /\ \A i \in 1..Len(q) : q[i].id = a + i /\ q[i].data = s[a + i]

\* An acknowledgement moves the window: what stays in the queue are the
\* messages after it.
LEMMA AckWindow ==
    ASSUME NEW q, NEW a \in Nat, NEW ack \in Nat, NEW out \in Nat,
           NEW s \in Seq(Data), NEW inc \in Nat, a < ack, ack <= out,
           Window(q, s, inc, a, out)
    PROVE  Window(DropAcked(q, ack), s, inc, ack, out)
  <1>0. /\ q \in Seq(Msg) /\ AllGenuine(s, inc, q) /\ Len(q) = out - a
        /\ \A i \in 1..Len(q) : q[i].id = a + i /\ q[i].data = s[a + i]
    BY DEF Window
  <1> DEFINE k == ack - a + 1
             r == SubSeq(q, k, Len(q))
  <1>1. DropAcked(q, ack) = r
    <2>1. /\ \A i \in 1..Len(q) : q[i].id = a + i
          /\ a < ack /\ ack <= a + Len(q)
      BY <1>0
    <2> QED BY Zenon, <1>0, <2>1, DropAckedWindow
  <1>2. k \in 1..(Len(q) + 1) /\ Len(q) \in 0..Len(q)
    BY <1>0
  <1>3. r \in Seq(Msg) /\ AllGenuine(s, inc, r)
    BY Zenon, <1>0, <1>2, GenuineSubSeq
  <1>4. Len(r) = out - ack
    BY <1>0, <1>2
  <1>5. ASSUME NEW i \in 1..Len(r)
        PROVE  r[i].id = ack + i /\ r[i].data = s[ack + i]
    <2>1. k + i - 1 \in 1..Len(q) /\ a + (k + i - 1) = ack + i
      BY <1>0, <1>4
    <2>2. r[i] = q[k + i - 1]
      <3>1. i \in 1..(Len(q) - k + 1) /\ k \in Nat
        BY <1>0, <1>2, <1>4
      <3> HIDE DEF k
      <3> QED BY <1>0, <1>2, <3>1
    <2> QED BY <1>0, <2>1, <2>2
  <1> HIDE DEF r
  <1> QED BY <1>1, <1>3, <1>4, <1>5 DEF Window

\* What every message does before its own case: it leaves the wire, and its
\* ack shrinks the queue of unacknowledged messages to the window after it.
LEMMA ReceiveCommon ==
    ASSUME IInv, NEW p \in Peers, NEW type \in Types, Receive(p, type)
    PROVE  /\ Head(Incoming(p)) \in Msg
           /\ Genuine(sent[Other(p)], incomingMsgId[Other(p)], Head(Incoming(p)))
           /\ wire' \in [Sockets -> [Peers -> Seq(Msg)]]
           /\ outgoingAckId' \in [Peers -> Nat]
           /\ outgoingUnackMsg' \in [Peers -> Seq(Msg)]
           /\ \A x \in Peers : \A c \in Sockets :
                AllGenuine(sent[x], incomingMsgId[x], wire'[c][x])
           /\ \A x \in Peers : AllGenuine(sent[x], incomingMsgId[x], outgoingUnackMsg'[x])
           /\ \A x \in Peers : outgoingAckId'[x] <= incomingMsgId[Other(x)]
           /\ UnackWindow'
  <1> DEFINE k == socket[p]
             o == Other(p)
             w == wire[k][o]
             m == Head(w)
             q == outgoingUnackMsg[p]
             a == outgoingAckId[p]
  <1>0. /\ TypeOK /\ CountersAgree /\ FramesGenuine /\ InOrderExactlyOnce
        /\ UnackWindow /\ AckedWasDelivered
    BY DEF IInv
  <1>1. /\ k \in Sockets /\ o \in Peers /\ w \in Seq(Msg) /\ w # <<>>
        /\ Incoming(p) = w /\ Other(o) = p
        /\ wire \in [Sockets -> [Peers -> Seq(Msg)]]
        /\ sent \in [Peers -> Seq(Data)] /\ incomingMsgId \in [Peers -> Nat]
        /\ wire' = [wire EXCEPT ![k][o] = Tail(w)]
    BY Zenon, <1>0 DEF TypeOK, Receive, Incoming, Other, Peers
  <1>2. /\ \A x \in Peers : \A c \in Sockets : AllGenuine(sent[x], incomingMsgId[x], wire[c][x])
        /\ AllGenuine(sent[o], incomingMsgId[o], w)
        /\ sent[o] \in Seq(Data) /\ incomingMsgId[o] \in Nat
    BY <1>0, <1>1 DEF FramesGenuine
  <1> HIDE DEF k, o, w
  <1>3. m \in Msg /\ Genuine(sent[o], incomingMsgId[o], m)
    BY <1>1, <1>2 DEF AllGenuine
  <1>4. /\ wire' \in [Sockets -> [Peers -> Seq(Msg)]]
        /\ \A x \in Peers : \A c \in Sockets :
             AllGenuine(sent[x], incomingMsgId[x], wire'[c][x])
    <2> DEFINE v == Tail(w)
    <2>1. v \in Seq(Msg) /\ AllGenuine(sent[o], incomingMsgId[o], v)
      BY <1>1, <1>2, GenuineTail
    <2>2. wire' = [wire EXCEPT ![k][o] = v]
      BY <1>1
    <2> HIDE DEF v
    <2>3. /\ k \in Sockets /\ o \in Peers
          /\ wire \in [Sockets -> [Peers -> Seq(Msg)]]
          /\ sent \in [Peers -> Seq(Data)] /\ incomingMsgId \in [Peers -> Nat]
          /\ \A x \in Peers : \A c \in Sockets : AllGenuine(sent[x], incomingMsgId[x], wire[c][x])
      BY <1>1, <1>2
    <2> QED BY <2>1, <2>2, <2>3, WireUpdate
  <1> HIDE DEF m
  <1>5. m.ack \in Nat /\ m.ack <= incomingMsgId[o]
    BY <1>3 DEF Msg, Genuine
  <1>6. incomingMsgId[o] <= outgoingMsgId[p]
    BY Zenon, <1>0, <1>1 DEF CountersAgree, InOrderExactlyOnce
  <1>7. /\ q \in Seq(Msg) /\ a \in Nat /\ outgoingMsgId[p] \in Nat
        /\ Len(q) = outgoingMsgId[p] - a
        /\ \A i \in 1..Len(q) : q[i].id = a + i /\ q[i].data = sent[p][a + i]
        /\ AllGenuine(sent[p], incomingMsgId[p], q)
        /\ sent[p] \in Seq(Data) /\ incomingMsgId[p] \in Nat
    BY <1>0 DEF TypeOK, UnackWindow, FramesGenuine
  <1>8. \A x \in Peers : outgoingAckId[x] <= incomingMsgId[Other(x)]
    BY <1>0 DEF AckedWasDelivered, CountersAgree, Other, Peers
  <1>9. UNCHANGED <<outgoingMsgId, sent>>
    BY DEF Receive
  <1>10. CASE m.ack > outgoingAckId[p]
    <2> DEFINE r == DropAcked(q, m.ack)
    <2>1. /\ outgoingAckId' = [outgoingAckId EXCEPT ![p] = m.ack]
          /\ outgoingUnackMsg' = [outgoingUnackMsg EXCEPT ![p] = r]
      BY <1>1, <1>10 DEF Receive, m
    <2> DEFINE n == m.ack
               out == outgoingMsgId[p]
               s == sent[p]
               inc == incomingMsgId[p]
    <2>2. /\ a \in Nat /\ n \in Nat /\ out \in Nat
          /\ s \in Seq(Data) /\ inc \in Nat /\ a < n /\ n <= out
          /\ Window(q, s, inc, a, out)
      BY <1>2, <1>5, <1>6, <1>7, <1>10 DEF Window
    <2>3. r = DropAcked(q, n)
      OBVIOUS
    <2> HIDE DEF q, a, n, out, s, inc, r
    <2>4. /\ r \in Seq(Msg) /\ AllGenuine(s, inc, r) /\ Len(r) = out - n
          /\ \A i \in 1..Len(r) : r[i].id = n + i /\ r[i].data = s[n + i]
      <3>1. Window(DropAcked(q, n), s, inc, n, out)
        BY <2>2, AckWindow, Zenon
      <3> QED BY <2>3, <3>1 DEF Window
    <2>5. r \in Seq(Msg) /\ AllGenuine(sent[p], incomingMsgId[p], r)
      BY <2>4 DEF s, inc
    <2>6. /\ Len(r) = outgoingMsgId[p] - m.ack
          /\ \A i \in 1..Len(r) : r[i].id = m.ack + i /\ r[i].data = sent[p][m.ack + i]
      BY <2>4 DEF s, n, out
    <2>7. \A x \in Peers : /\ outgoingAckId'[x] = IF x = p THEN m.ack ELSE outgoingAckId[x]
                           /\ outgoingUnackMsg'[x] = IF x = p THEN r ELSE outgoingUnackMsg[x]
      BY <1>0, <2>1 DEF TypeOK
    <2>8. outgoingAckId' \in [Peers -> Nat] /\ outgoingUnackMsg' \in [Peers -> Seq(Msg)]
      BY ZenonT(60), <1>0, <1>5, <2>1, <2>5 DEF TypeOK
    <2>9. \A x \in Peers : AllGenuine(sent[x], incomingMsgId[x], outgoingUnackMsg'[x])
      BY <1>0, <2>5, <2>7 DEF FramesGenuine
    <2>10. \A x \in Peers : outgoingAckId'[x] <= incomingMsgId[Other(x)]
      BY <1>5, <1>8, <2>7 DEF o
    <2>11. UnackWindow'
      BY SMTT(60), <1>0, <1>9, <2>6, <2>7 DEF UnackWindow
    <2> QED BY SMTT(60), <1>1, <1>3, <1>4, <2>8, <2>9, <2>10, <2>11 DEF m, o
  <1>11. CASE ~(m.ack > outgoingAckId[p])
    <2>1. UNCHANGED <<outgoingAckId, outgoingUnackMsg>>
      BY <1>1, <1>11 DEF Receive, m
    <2>2. UnackWindow'
      BY <1>0, <1>9, <2>1 DEF UnackWindow
    <2>3. \A x \in Peers : AllGenuine(sent[x], incomingMsgId[x], outgoingUnackMsg'[x])
      BY <1>0, <2>1 DEF FramesGenuine
    <2> QED BY Zenon, <1>0, <1>1, <1>3, <1>4, <1>8, <2>1, <2>2, <2>3 DEF m, o, TypeOK
  <1> QED BY <1>10, <1>11

\* Every message but the next one in order leaves what was received alone.
LEMMA ReceiveFrame ==
    ASSUME IInv, NEW p \in Peers, NEW type \in Types, Receive(p, type),
           UNCHANGED recvVars, TypeOK',
           \A x \in Peers : AllGenuine(sent[x], incomingMsgId[x], data'[x])
    PROVE  IInv'
  <1>0. /\ TypeOK /\ CountersAgree /\ FramesGenuine /\ InOrderExactlyOnce
    BY DEF IInv
  <1>1. UNCHANGED <<outgoingMsgId, sent, incomingMsgId, incomingAckId, delivered>>
    BY DEF Receive, recvVars
  <1>2. /\ \A x \in Peers : \A c \in Sockets :
             AllGenuine(sent[x], incomingMsgId[x], wire'[c][x])
        /\ \A x \in Peers : AllGenuine(sent[x], incomingMsgId[x], outgoingUnackMsg'[x])
        /\ \A x \in Peers : outgoingAckId'[x] <= incomingMsgId[Other(x)]
        /\ UnackWindow'
    BY ReceiveCommon
  <1>3. CountersAgree'
    BY <1>0, <1>1 DEF CountersAgree
  <1>4. FramesGenuine'
    BY <1>1, <1>2 DEF FramesGenuine
  <1>5. InOrderExactlyOnce'
    BY <1>0, <1>1 DEF InOrderExactlyOnce
  <1>6. AckedWasDelivered'
    BY SMTT(60), <1>0, <1>1, <1>2, Limits DEF AckedWasDelivered, CountersAgree
  <1> QED BY <1>2, <1>3, <1>4, <1>5, <1>6 DEF IInv

\* Duplicates, acknowledgements, keep alives, control messages, Disconnect,
\* Pause and Resume write nothing.
LEMMA ReceiveSilentStep ==
    ASSUME IInv, NEW p \in Peers,
           \/ ReceiveDuplicate(p) \/ ReceiveAck(p) \/ ReceiveKeepAlive(p)
           \/ ReceiveControl(p) \/ ReceiveDisconnect(p) \/ ReceivePause(p)
           \/ ReceiveResume(p)
    PROVE  IInv'
  <1> USE DEF recvVars, writerVars, socketVars, Heard
  <1>1. PICK type \in Types :
          /\ Receive(p, type)
          /\ UNCHANGED <<recvVars, outgoingAckTimeout, incomingAckTimeout,
                         replayThrottled, data, socketTimeout>>
          /\ Heard(p)
          /\ paused' \in [Peers -> BOOLEAN]
          /\ writeNowTimeout' \in [Peers -> BOOLEAN]
          /\ didDispose' \in [Peers -> BOOLEAN]
    <2>0. TypeOK
      BY DEF IInv
    <2>1. CASE ReceiveDuplicate(p)
      BY <2>0, <2>1 DEF ReceiveDuplicate, Types, TypeOK
    <2>2. CASE ReceiveAck(p)
      BY <2>0, <2>2 DEF ReceiveAck, ReceivePlain, Types, TypeOK
    <2>3. CASE ReceiveKeepAlive(p)
      BY <2>0, <2>3 DEF ReceiveKeepAlive, ReceivePlain, Types, TypeOK
    <2>4. CASE ReceiveControl(p)
      BY SMTT(60), <2>0, <2>4 DEF ReceiveControl, ReceivePlain, Types, TypeOK
    <2>5. CASE ReceiveDisconnect(p)
      BY Zenon, <2>0, <2>5 DEF ReceiveDisconnect, Types, TypeOK
    <2>6. CASE ReceivePause(p)
      BY Zenon, <2>0, <2>6 DEF ReceivePause, Types, TypeOK
    <2>7. CASE ReceiveResume(p)
      BY SMTT(60), <2>0, <2>7 DEF ReceiveResume, Types, TypeOK
    <2> QED BY <2>1, <2>2, <2>3, <2>4, <2>5, <2>6, <2>7
  <1>2. TypeOK'
    <2>1. /\ wire' \in [Sockets -> [Peers -> Seq(Msg)]]
          /\ outgoingAckId' \in [Peers -> Nat]
          /\ outgoingUnackMsg' \in [Peers -> Seq(Msg)]
      BY <1>1, ReceiveCommon
    <2>2. UNCHANGED <<isReconnecting, disconnectVars, outgoingMsgId, sent,
                      keepAliveInterval, socketClose, socketVars, open, drops>>
      BY <1>1 DEF Receive
    <2>3. quiet' \in [Peers -> BOOLEAN]
      BY <1>1 DEF IInv, TypeOK
    <2> QED BY Zenon, <1>1, <2>1, <2>2, <2>3 DEF IInv, TypeOK
  <1> QED BY SMTT(60), <1>1, <1>2, ReceiveFrame DEF IInv, FramesGenuine

\* A gap writes a ReplayRequest, a ReplayRequest the unacknowledged messages.
LEMMA ReceiveAnsweredStep ==
    ASSUME IInv, NEW p \in Peers, ReceiveGap(p) \/ ReceiveReplayRequest(p)
    PROVE  IInv'
  <1> USE DEF recvVars, socketVars
  <1>1. PICK type \in Types :
          /\ Receive(p, type)
          /\ UNCHANGED <<recvVars, incomingAckTimeout, paused, didDispose>>
    BY Zenon DEF ReceiveGap, ReceiveReplayRequest, Types
  <1>2. /\ wire' \in [Sockets -> [Peers -> Seq(Msg)]]
        /\ outgoingAckId' \in [Peers -> Nat]
        /\ outgoingUnackMsg' \in [Peers -> Seq(Msg)]
        /\ \A x \in Peers : AllGenuine(sent[x], incomingMsgId[x], outgoingUnackMsg'[x])
    BY <1>1, ReceiveCommon
  <1>3. /\ data' \in [Peers -> Seq(Msg)]
        /\ writeNowTimeout' \in [Peers -> BOOLEAN]
        /\ \A x \in Peers : AllGenuine(sent[x], incomingMsgId[x], data'[x])
    <2>0. TypeOK /\ \A x \in Peers : AllGenuine(sent[x], incomingMsgId[x], data[x])
      BY DEF IInv, FramesGenuine
    <2>1. CASE ReceiveGap(p) /\ replayThrottled[p]
      BY SMTT(60), <2>0, <2>1 DEF ReceiveGap, TypeOK
    <2>2. CASE ReceiveGap(p) /\ ~replayThrottled[p]
      <3> DEFINE ms == <<ProtocolMessage("ReplayRequest", 0, 0, NoData)>>
      <3>1. ms \in Seq(Msg) /\ AllGenuine(sent[p], incomingMsgId[p], ms)
        <4>1. /\ "ReplayRequest" \in Types /\ "ReplayRequest" # "Regular"
              /\ NoData \in Payloads /\ 0 \in Nat /\ 0 <= incomingMsgId[p]
          BY Limits DEF Types, Payloads
        <4> QED BY <4>1, NewFrame
      <3>2. Write(p, ms)
        BY <2>2 DEF ReceiveGap
      <3> HIDE DEF ms
      <3> QED BY Zenon, <2>0, <3>1, <3>2, Limits, WriteGenuine
    <2>3. CASE ReceiveReplayRequest(p)
      <3> DEFINE ms == outgoingUnackMsg'[p]
      <3>1. ms \in Seq(Msg) /\ AllGenuine(sent[p], incomingMsgId[p], ms)
        BY SMTT(60), <1>2
      <3>2. Write(p, ms)
        BY <2>3 DEF ReceiveReplayRequest
      <3> HIDE DEF ms
      <3> QED BY Zenon, <2>0, <3>1, <3>2, Limits, WriteGenuine
    <2> QED BY <2>1, <2>2, <2>3
  <1>4. /\ outgoingAckTimeout' \in [Peers -> BOOLEAN]
        /\ quiet' \in [Peers -> BOOLEAN]
        /\ socketTimeout' \in [Peers -> BOOLEAN]
        /\ replayThrottled' \in [Peers -> BOOLEAN]
    <2>0. TypeOK /\ outgoingAckTimeout[p] \in BOOLEAN
      BY ZenonT(60) DEF IInv, TypeOK
    <2>1. CASE ReceiveGap(p)
      BY <2>0, <2>1 DEF ReceiveGap, Heard, TypeOK
    <2>2. CASE ReceiveReplayRequest(p)
      <3>1. /\ RecvAckCheck(p, outgoingAckTimeout[p], outgoingMsgId[p],
                            outgoingAckId'[p], isReconnecting[p], FALSE)
            /\ UNCHANGED replayThrottled
        BY Zenon, <2>2 DEF ReceiveReplayRequest
      <3>2. /\ outgoingAckTimeout' \in [Peers -> BOOLEAN]
            /\ quiet' \in [Peers -> BOOLEAN]
            /\ socketTimeout' \in [Peers -> BOOLEAN]
        BY Zenon, <2>0, <3>1, RecvAckCheckTypes
      <3> QED BY <2>0, <3>1, <3>2 DEF TypeOK
    <2> QED BY <2>1, <2>2
  <1>5. TypeOK'
    <2>1. UNCHANGED <<isReconnecting, disconnectVars, outgoingMsgId, sent,
                      keepAliveInterval, socketClose, socketVars, open, drops>>
      BY SMTT(60), <1>1 DEF Receive
    <2> QED BY ZenonT(60), <1>1, <1>2, <1>3, <1>4, <2>1 DEF IInv, TypeOK
  <1> QED BY <1>1, <1>3, <1>5, ReceiveFrame

\* The next message in order is delivered.
LEMMA ReceiveNextStep ==
    ASSUME IInv, NEW p \in Peers, ReceiveNext(p)
    PROVE  /\ IInv'
           /\ Channel!Deliver(p)
  <1> DEFINE o == Other(p)
             m == Head(Incoming(p))
             n == incomingMsgId[p] + 1
  <1>0. /\ TypeOK /\ CountersAgree /\ FramesGenuine /\ InOrderExactlyOnce
        /\ UnackWindow /\ AckedWasDelivered
    BY DEF IInv
  <1>1. "Regular" \in Types /\ Receive(p, "Regular")
    BY SMTT(60) DEF ReceiveNext, Types
  <1>2. /\ m \in Msg /\ Genuine(sent[o], incomingMsgId[o], m)
        /\ wire' \in [Sockets -> [Peers -> Seq(Msg)]]
        /\ outgoingAckId' \in [Peers -> Nat]
        /\ outgoingUnackMsg' \in [Peers -> Seq(Msg)]
        /\ \A x \in Peers : \A c \in Sockets :
             AllGenuine(sent[x], incomingMsgId[x], wire'[c][x])
        /\ \A x \in Peers : AllGenuine(sent[x], incomingMsgId[x], outgoingUnackMsg'[x])
        /\ \A x \in Peers : outgoingAckId'[x] <= incomingMsgId[Other(x)]
        /\ UnackWindow'
    BY <1>1, ReceiveCommon
  <1>3. /\ m.type = "Regular" /\ m.id = n
        /\ incomingMsgId' = [incomingMsgId EXCEPT ![p] = n]
        /\ delivered' = [delivered EXCEPT ![p] = Append(delivered[p], m.data)]
        /\ UNCHANGED <<outgoingMsgId, sent, incomingAckId, data>>
    BY Zenon DEF ReceiveNext, IsNext, Receive, writerVars
  <1>4. /\ o \in Peers /\ Other(o) = p /\ n \in Nat /\ n = Len(delivered[p]) + 1
        /\ sent[o] \in Seq(Data) /\ delivered[p] \in Seq(Payloads)
    <2>1. o \in Peers /\ Other(o) = p
      BY Limits
    <2>2. n \in Nat /\ n = Len(delivered[p]) + 1 /\ delivered[p] \in Seq(Payloads)
      BY SMTT(60), <1>0 DEF TypeOK, CountersAgree
    <2>3. sent[o] \in Seq(Data)
      BY <2>1, Limits
    <2> QED BY <2>1, <2>2, <2>3
  <1> HIDE DEF m, o, n
  <1>5. n \in 1..Len(sent[o]) /\ m.data = sent[o][n]
    BY <1>2, <1>3, <1>4 DEF Genuine
  <1>6. /\ m.data \in Data
        /\ Append(delivered[p], m.data) \in Seq(Payloads)
    BY <1>4, <1>5 DEF Payloads
  <1>7. \A x \in Peers : /\ incomingMsgId'[x] = IF x = p THEN n ELSE incomingMsgId[x]
                         /\ delivered'[x] = IF x = p THEN Append(delivered[p], m.data)
                                                     ELSE delivered[x]
    BY <1>0, <1>3 DEF TypeOK
  <1>8. \A x \in Peers : incomingMsgId'[x] \in Nat /\ incomingMsgId[x] <= incomingMsgId'[x]
    <2> SUFFICES ASSUME NEW x \in Peers
                 PROVE  incomingMsgId'[x] \in Nat /\ incomingMsgId[x] <= incomingMsgId'[x]
      OBVIOUS
    <2>1. incomingMsgId[x] \in Nat /\ n = incomingMsgId[p] + 1
      BY <1>0 DEF TypeOK, n
    <2>2. CASE x = p
      BY <1>4, <1>7, <2>1, <2>2
    <2>3. CASE x # p
      BY <1>7, <2>1, <2>3
    <2> QED BY <2>2, <2>3
  <1>9. \A x \in Peers : \A q \in Seq(Msg) :
          AllGenuine(sent[x], incomingMsgId[x], q) => AllGenuine(sent[x], incomingMsgId'[x], q)
    <2> SUFFICES ASSUME NEW x \in Peers, NEW q \in Seq(Msg),
                        AllGenuine(sent[x], incomingMsgId[x], q)
                 PROVE  AllGenuine(sent[x], incomingMsgId'[x], q)
      OBVIOUS
    <2> DEFINE s == sent[x]
               i == incomingMsgId[x]
               j == incomingMsgId'[x]
    <2>1. /\ s \in Seq(Data) /\ i \in Nat /\ j \in Nat /\ i <= j
          /\ AllGenuine(s, i, q)
      BY <1>8, Limits
    <2> HIDE DEF s, i, j
    <2>2. Len(s) <= Len(s) /\ \A k \in 1..Len(s) : s[k] = s[k]
      BY <2>1
    <2>3. AllGenuine(s, j, q)
      BY Zenon, <2>1, <2>2, GenuineMonotone
    <2> QED BY <2>3 DEF s, j
  <1>10. TypeOK'
    <2>1. /\ incomingMsgId' \in [Peers -> Nat]
          /\ delivered' \in [Peers -> Seq(Payloads)]
      BY ZenonT(60), <1>0, <1>3, <1>4, <1>6 DEF TypeOK
    <2>2. incomingAckTimeout' \in [Peers -> BOOLEAN] /\ quiet' \in [Peers -> BOOLEAN]
      BY SMTT(60), <1>0 DEF ReceiveNext, AckDue, Heard, TypeOK
    <2>3. UNCHANGED <<isReconnecting, disconnectVars, outgoingMsgId, sent,
                      keepAliveInterval, socketClose, disposed, socket, taken,
                      opened, open, drops>>
      BY <1>1 DEF Receive, socketVars
    <2>4. UNCHANGED <<incomingAckId, outgoingAckTimeout, replayThrottled, data,
                      paused, writeNowTimeout, socketTimeout, didDispose>>
      BY SMTT(60) DEF ReceiveNext, writerVars
    <2> QED BY Zenon, <1>0, <1>2, <2>1, <2>2, <2>3, <2>4 DEF TypeOK
  <1>11. CountersAgree'
    <2>1. Len(Append(delivered[p], m.data)) = n
      BY <1>4, <1>6
    <2>2. \A x \in Peers : incomingAckId[x] \in Nat /\ incomingMsgId[x] \in Nat
      BY <1>0 DEF TypeOK
    <2> SUFFICES ASSUME NEW x \in Peers
                 PROVE  /\ outgoingMsgId'[x] = Len(sent'[x])
                        /\ outgoingMsgId'[x] <= MaxMsgs[x]
                        /\ incomingMsgId'[x] = Len(delivered'[x])
                        /\ incomingAckId'[x] <= incomingMsgId'[x]
      BY SMTT(60) DEF CountersAgree
    <2>3. /\ outgoingMsgId[x] = Len(sent[x]) /\ outgoingMsgId[x] <= MaxMsgs[x]
          /\ incomingMsgId[x] = Len(delivered[x]) /\ incomingAckId[x] <= incomingMsgId[x]
      BY Zenon, <1>0 DEF CountersAgree
    <2>4. incomingMsgId'[x] = Len(delivered'[x])
      <3>1. CASE x = p
        BY Zenon, <1>7, <2>1, <3>1
      <3>2. CASE x # p
        BY <1>7, <2>3, <3>2
      <3> QED BY <3>1, <3>2
    <2>5. incomingAckId[x] <= incomingMsgId'[x]
      BY SMTT(60), <1>8, <2>2, <2>3
    <2> QED BY <1>3, <2>3, <2>4, <2>5
  <1>12. FramesGenuine'
    <2>1. \A x \in Peers : AllGenuine(sent[x], incomingMsgId'[x], outgoingUnackMsg'[x])
      BY <1>2, <1>9
    <2>2. \A x \in Peers : AllGenuine(sent[x], incomingMsgId'[x], data[x])
      BY SMTT(60), <1>0, <1>9 DEF FramesGenuine, TypeOK
    <2>3. \A x \in Peers : \A c \in Sockets : AllGenuine(sent[x], incomingMsgId'[x], wire'[c][x])
      BY <1>2, <1>9
    <2> QED BY SMTT(60), <1>3, <2>1, <2>2, <2>3 DEF FramesGenuine
  <1>13. InOrderExactlyOnce'
    <2> SUFFICES ASSUME NEW x \in Peers
                 PROVE  /\ Len(delivered'[x]) <= Len(sent[Other(x)])
                        /\ delivered'[x] = SubSeq(sent[Other(x)], 1, Len(delivered'[x]))
      BY <1>3 DEF InOrderExactlyOnce
    <2>1. CASE x # p
      BY <1>0, <1>7, <2>1 DEF InOrderExactlyOnce
    <2>2. CASE x = p
      <3> DEFINE s == sent[o]
                 d == delivered[p]
                 e == m.data
      <3>1. /\ s \in Seq(Data) /\ d \in Seq(Payloads) /\ e \in Payloads
            /\ Len(d) + 1 \in 1..Len(s) /\ e = s[Len(d) + 1]
            /\ d = SubSeq(s, 1, Len(d))
        BY <1>0, <1>4, <1>5, <1>6 DEF InOrderExactlyOnce, o, Payloads
      <3>2. delivered'[x] = Append(d, e) /\ sent[Other(x)] = s
        BY Zenon, <1>7, <2>2 DEF o
      <3> HIDE DEF s, d, e
      <3>3. Len(Append(d, e)) = Len(d) + 1
        BY <3>1
      <3>4. Append(d, e) = SubSeq(s, 1, Len(d) + 1)
        BY <3>1
      <3> QED BY SMTT(60), <3>1, <3>2, <3>3, <3>4
    <2> QED BY <2>1, <2>2
  <1>14. AckedWasDelivered'
    <2> SUFFICES ASSUME NEW x \in Peers
                 PROVE  outgoingAckId'[x] <= Len(delivered'[Other(x)])
      BY DEF AckedWasDelivered
    <2>1. Other(x) \in Peers
      BY Limits
    <2>2. Len(delivered'[Other(x)]) = incomingMsgId'[Other(x)]
      BY <1>11, <2>1 DEF CountersAgree
    <2>3. /\ outgoingAckId'[x] \in Nat /\ incomingMsgId[Other(x)] \in Nat
          /\ outgoingAckId'[x] <= incomingMsgId[Other(x)]
          /\ incomingMsgId[Other(x)] <= incomingMsgId'[Other(x)]
          /\ incomingMsgId'[Other(x)] \in Nat
      BY ZenonT(60), <1>2, <1>8, <2>1, Limits
    <2> QED BY <2>2, <2>3
  <1>15. Channel!Deliver(p)
    BY <1>3, <1>4, <1>5 DEF Channel!Deliver, o
  <1> QED BY Zenon, <1>2, <1>10, <1>11, <1>12, <1>13, <1>14, <1>15 DEF IInv

-----------------------------------------------------------------------------
(* The theorems.                                                           *)

\* The initial connection: nothing sent, nothing received.
LEMMA InitIInv == Init => IInv
  <1> SUFFICES ASSUME Init PROVE IInv
    OBVIOUS
  <1>1. TypeOK
    <2>1. <<>> \in Seq(Msg) /\ <<>> \in Seq(Data) /\ <<>> \in Seq(Payloads)
      OBVIOUS
    <2>2. 1 \in Sockets /\ 0 \in 0..MaxDrops
      BY BoundsAssumption DEF Sockets
    <2> QED BY <2>1, <2>2 DEF Init, TypeOK
  <1>2. CountersAgree
    BY BoundsAssumption DEF Init, CountersAgree
  <1>3. FramesGenuine
    BY DEF Init, FramesGenuine, AllGenuine
  <1>4. InOrderExactlyOnce
    <2>1. \A x \in Peers : Other(x) \in Peers
      BY DEF Other, Peers
    <2> QED BY <2>1 DEF Init, InOrderExactlyOnce
  <1>5. UnackWindow
    BY DEF Init, UnackWindow
  <1>6. AckedWasDelivered
    <2>1. \A x \in Peers : Other(x) \in Peers
      BY DEF Other, Peers
    <2> QED BY <2>1 DEF Init, AckedWasDelivered
  <1> QED BY <1>1, <1>2, <1>3, <1>4, <1>5, <1>6 DEF IInv

\* Every step of the two protocol objects, their users and the network keeps
\* the invariant.
LEMMA NextIInv == IInv /\ [Next]_vars => IInv'
  <1> SUFFICES ASSUME IInv, [Next]_vars PROVE IInv'
    OBVIOUS
  <1>1. ASSUME NEW p \in Peers, UserCall(p) PROVE IInv'
    <2>1. ASSUME NEW d \in Data, Send(p, d) PROVE IInv'
      BY <2>1, SendStep
    <2>2. CASE EndAcceptReconnection(p)
      BY <2>2, EndAcceptReconnectionStep
    <2>3. CASE Dispose(p)
      BY <2>3, DisposeStep
    <2>4. CASE Flush(p)
      BY <2>4, FlushStep
    <2>5. CASE SendDisconnect(p)
      BY <2>5, SendDisconnectStep
    <2>6. CASE PauseSocketWriting(p)
      BY <2>6, PauseSocketWritingStep
    <2>7. CASE SendPause(p) \/ SendResume(p)
      <3>1. /\ NoData \in Payloads /\ {"Pause", "Resume"} \subseteq Types
            /\ "Pause" # "Regular" /\ "Resume" # "Regular"
        BY DEF Payloads, Types
      <3> QED BY <2>7, <3>1, SendFrameStep DEF SendPause, SendResume
    <2>8. ASSUME NEW x \in Controls, SendControl(p, x) PROVE IInv'
      <3>1. x \in Payloads /\ "Control" \in Types /\ "Control" # "Regular"
        BY DEF Payloads, Types
      <3> QED BY <2>8, <3>1, SendFrameStep DEF SendControl
    <2>9. CASE AcceptDisconnect(p)
      BY <2>9, AcceptDisconnectStep
    <2> QED BY <1>1, <2>1, <2>2, <2>3, <2>4, <2>5, <2>6, <2>7, <2>8, <2>9 DEF UserCall
  <1>2. ASSUME NEW p \in Peers, Callback(p) PROVE IInv'
    <2>1. CASE WriteNow(p)
      BY <2>1, WriteNowStep
    <2>2. CASE RecvAckTimeout(p)
      BY <2>2, RecvAckTimeoutStep
    <2>3. CASE SendAckTimeout(p)
      BY <2>3, SendAckTimeoutStep
    <2>4. CASE SendKeepAlive(p)
      BY <2>4, SendKeepAliveStep
    <2>5. CASE ReceiveMessage(p)
      BY <2>5, ReceiveNextStep, ReceiveSilentStep, ReceiveAnsweredStep DEF ReceiveMessage
    <2>6. CASE SocketClose(p)
      BY <2>6, SocketCloseStep
    <2> QED BY <1>2, <2>1, <2>2, <2>3, <2>4, <2>5, <2>6 DEF Callback
  <1>3. ASSUME Environment PROVE IInv'
    <2>1. CASE ClientReconnects \/ \E c \in Sockets : ServerReconnects(c)
      BY <2>1, ReconnectsStep
    <2>2. ASSUME NEW c \in Sockets, HandshakeRead(c) PROVE IInv'
      <3>1. "client" \in Peers
        BY DEF Peers
      <3> QED BY <2>2, <3>1, LossStep
    <2>3. ASSUME NEW c \in Sockets, NEW p \in Peers,
                 LoseTail(c, p) \/ \E i \in DOMAIN wire[c][p] : Drop(c, p, i)
          PROVE  IInv'
      BY <2>3, LossStep
    <2>4. ASSUME NEW c \in Sockets, SocketBreaks(c) PROVE IInv'
      <3>1. "client" \in Peers
        BY DEF Peers
      <3> QED BY <2>4, <3>1, EnvironmentQuietStep
    <2>5. ASSUME NEW p \in Peers, Silence(p) \/ ReplayAllowed(p) PROVE IInv'
      <3>1. 1 \in Sockets
        BY BoundsAssumption DEF Sockets
      <3> QED BY <2>5, <3>1, EnvironmentQuietStep
    <2> QED BY <1>3, <2>1, <2>2, <2>3, <2>4, <2>5 DEF Environment
  <1>4. CASE UNCHANGED vars
    <2>1. /\ UNCHANGED <<sendVars, recvVars, data, wire>>
          /\ TypeOK'
      BY Zenon, <1>4 DEF IInv, vars, TypeOK, sendVars, recvVars, timerVars, writerVars,
                  eventVars, socketVars, netVars
    <2> QED BY <2>1, QuietStep
  <1> QED BY <1>1, <1>2, <1>3, <1>4 DEF Next

\* The fields of both protocol objects and the network keep their types.
THEOREM TypeCorrect == Spec => []TypeOK
  <1>1. IInv => TypeOK
    BY DEF IInv
  <1> QED BY <1>1, InitIInv, NextIInv, PTL DEF Spec

\* For any number of messages, sockets and lost frames: onMessage fires a
\* prefix of what the other peer sent.
THEOREM ExactlyOnce == Spec => []InOrderExactlyOnce
  <1>1. IInv => InOrderExactlyOnce
    BY DEF IInv
  <1> QED BY <1>1, InitIInv, NextIInv, PTL DEF Spec

\* The unacknowledged queue is exactly the window after _outgoingAckId, so
\* peek()! in _recvAckCheck is safe and a replay repeats the original messages.
THEOREM WindowExact == Spec => []UnackWindow
  <1>1. IInv => UnackWindow
    BY DEF IInv
  <1> QED BY <1>1, InitIInv, NextIInv, PTL DEF Spec

\* Nothing leaves the unacknowledged queue before its delivery, whatever stale
\* or repeated acknowledgements arrive in _receiveMessage.
THEOREM NoEarlyDrop == Spec => []AckedWasDelivered
  <1>1. IInv => AckedWasDelivered
    BY DEF IInv
  <1> QED BY <1>1, InitIInv, NextIInv, PTL DEF Spec

\* Every step of the protocol is a step of the reliable channel or changes
\* neither what was sent nor what was delivered.
LEMMA StepSimulation ==
    ASSUME IInv, [Next]_vars
    PROVE  [Channel!Next]_<<sent, delivered>>
  <1> USE DEF sendVars, recvVars, endpointVars
  <1>1. ASSUME NEW p \in Peers, NEW d \in Data, Send(p, d)
        PROVE  Channel!Next
    <2>1. Channel!Send(p, d)
      BY <1>1 DEF Send, Channel!Send
    <2> QED BY <2>1 DEF Channel!Next
  <1>2. ASSUME NEW p \in Peers, ReceiveNext(p)
        PROVE  Channel!Next
    BY <1>2, ReceiveNextStep DEF Channel!Next
  <1>3. ASSUME NEW p \in Peers, UserCall(p), ~ \E d \in Data : Send(p, d)
        PROVE  UNCHANGED <<sent, delivered>>
    BY Zenon, <1>3 DEF UserCall, EndAcceptReconnection, Dispose, Flush, SendDisconnect,
                AcceptDisconnect, PauseSocketWriting, SendPause, SendResume, SendControl, SendFrame
  <1>4. ASSUME NEW p \in Peers, ReceiveMessage(p), ~ReceiveNext(p)
        PROVE  UNCHANGED <<sent, delivered>>
    BY Zenon, <1>4 DEF ReceiveMessage, ReceiveGap, ReceiveDuplicate, ReceiveAck, ReceiveKeepAlive,
                ReceiveControl, ReceivePlain, ReceiveDisconnect, ReceiveReplayRequest,
                ReceivePause, ReceiveResume, Receive
  <1>5. ASSUME NEW p \in Peers, Callback(p), ~ReceiveMessage(p)
        PROVE  UNCHANGED <<sent, delivered>>
    BY ZenonT(60), <1>5 DEF Callback, WriteNow, RecvAckTimeout, SendAckTimeout, SendKeepAlive, SocketClose
  <1>6. ASSUME Environment
        PROVE  UNCHANGED <<sent, delivered>>
    BY Zenon, <1>6 DEF Environment, ClientReconnects, ServerReconnects, BeginAcceptReconnection,
                HandshakeRead, SocketBreaks, LoseTail, Drop, Silence, ReplayAllowed
  <1>7. CASE UNCHANGED vars
    BY <1>7 DEF vars
  <1> QED BY <1>1, <1>2, <1>3, <1>4, <1>5, <1>6, <1>7 DEF Next

\* Sockets, acknowledgements, reconnection and replay implement a reliable
\* channel: what the class comment of PersistentProtocol promises.
THEOREM RefinesReliableChannel == Spec => ImplementsReliableChannel
  <1>1. Init => Channel!Init
    BY DEF Init, Channel!Init
  <1>2. IInv /\ [Next]_vars => [Channel!Next]_<<sent, delivered>>
    BY StepSimulation
  <1> QED BY <1>1, <1>2, InitIInv, NextIInv, PTL
          DEF Spec, ImplementsReliableChannel, Channel!Spec

=============================================================================
