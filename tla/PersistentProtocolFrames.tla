---------------------- MODULE PersistentProtocolFrames ----------------------
(***************************************************************************)
(* Frames that are genuine (they carry what their sender sent and          *)
(* received), the steps that only move or lose frames, and frames that are *)
(* in order for the peer that reads them.                                  *)
(***************************************************************************)
EXTENDS PersistentProtocol, TLAPS

USE DEF disconnectVars

\* A frame stays genuine when its sender sends or receives more
\* (send() and _receiveMessage() only ever append).
LEMMA GenuineMonotone ==
    ASSUME NEW S, NEW s \in Seq(S), NEW t \in Seq(S), NEW inc \in Nat, NEW jnc \in Nat,
           NEW q \in Seq(Msg), AllGenuine(s, inc, q),
           Len(s) <= Len(t), \A i \in 1..Len(s) : t[i] = s[i], inc <= jnc
    PROVE  AllGenuine(t, jnc, q)
  <1> SUFFICES ASSUME NEW i \in 1..Len(q) PROVE Genuine(t, jnc, q[i])
    BY DEF AllGenuine
  <1>1. q[i] \in Msg /\ Genuine(s, inc, q[i])
    BY DEF AllGenuine
  <1>2. /\ q[i].ack \in Nat /\ q[i].ack <= jnc
        /\ q[i].id \in Nat /\ q[i].id <= Len(t)
    BY <1>1 DEF Genuine, Msg
  <1>3. /\ q[i].type = "Regular" <=> q[i].id > 0
        /\ q[i].type = "Regular" => q[i].data = t[q[i].id]
    BY <1>1, <1>2 DEF Genuine
  <1> QED BY <1>2, <1>3 DEF Genuine

\* Concatenation, as in ProtocolWriter._bufferAdd and socket.write.
LEMMA GenuineConcat ==
    ASSUME NEW S, NEW s \in Seq(S), NEW inc \in Nat, NEW q \in Seq(Msg), NEW r \in Seq(Msg),
           AllGenuine(s, inc, q), AllGenuine(s, inc, r)
    PROVE  AllGenuine(s, inc, q \o r)
  <1> SUFFICES ASSUME NEW i \in 1..Len(q \o r) PROVE Genuine(s, inc, (q \o r)[i])
    BY DEF AllGenuine
  <1>1. CASE i <= Len(q)
    BY <1>1 DEF AllGenuine
  <1>2. CASE i > Len(q)
    BY <1>2 DEF AllGenuine
  <1> QED BY <1>1, <1>2

\* A part of a sequence of genuine frames is genuine.
LEMMA GenuineSubSeq ==
    ASSUME NEW S, NEW s \in Seq(S), NEW inc \in Nat, NEW q \in Seq(Msg),
           AllGenuine(s, inc, q), NEW m \in 1..(Len(q) + 1), NEW n \in 0..Len(q)
    PROVE  SubSeq(q, m, n) \in Seq(Msg) /\ AllGenuine(s, inc, SubSeq(q, m, n))
  BY DEF AllGenuine

\* Reading the first frame leaves genuine frames.
LEMMA GenuineTail ==
    ASSUME NEW S, NEW s \in Seq(S), NEW inc \in Nat, NEW q \in Seq(Msg), q # <<>>,
           AllGenuine(s, inc, q)
    PROVE  Tail(q) \in Seq(Msg) /\ AllGenuine(s, inc, Tail(q))
  BY DEF AllGenuine

\* The 32 bit header changes nothing as long as fewer than 2^32 messages are
\* sent.
LEMMA HeaderIdentity ==
    ASSUME NEW m \in Msg, m.id < IdLimit, m.ack < IdLimit, IdLimit \in Nat
    PROVE  Header(m) = m
  <1>1. m.id \in Nat /\ m.ack \in Nat
    BY DEF Msg
  <1>2. m.id % IdLimit = m.id /\ m.ack % IdLimit = m.ack
    BY <1>1
  <1>3. Header(m) = [m EXCEPT !.id = m.id, !.ack = m.ack]
    BY Zenon, <1>2 DEF Header, Msg
  <1> QED BY Zenon, <1>3 DEF Msg

\* The queue of unacknowledged messages loses exactly the acknowledged ones.
LEMMA DropAckedWindow ==
    ASSUME NEW q \in Seq(Msg), NEW a \in Nat, NEW ack \in Nat,
           \A i \in 1..Len(q) : q[i].id = a + i,
           a < ack, ack <= a + Len(q)
    PROVE  DropAcked(q, ack) = SubSeq(q, ack - a + 1, Len(q))
  <1> DEFINE Acked(n) == /\ \A i \in 1..n : q[i].id <= ack
                         /\ n < Len(q) => q[n + 1].id > ack
  <1>1. ack - a \in 0..Len(q) /\ Acked(ack - a)
    OBVIOUS
  <1>2. \A n \in 0..Len(q) : Acked(n) => n = ack - a
    <2> SUFFICES ASSUME NEW n \in 0..Len(q), Acked(n) PROVE n = ack - a
      OBVIOUS
    <2>1. n <= ack - a
      BY n > 0 => q[n].id <= ack
    <2>2. ~(n < ack - a)
      OBVIOUS
    <2> QED BY <2>1, <2>2
  <1>3. (CHOOSE n \in 0..Len(q) : Acked(n)) = ack - a
    BY <1>1, <1>2
  <1> QED BY Zenon, <1>3 DEF DropAcked

\* Frames whose ids and acks fit into the header are written as they are.
LEMMA HeadersIdentity ==
    ASSUME NEW ms \in Seq(Msg),
           \A i \in 1..Len(ms) : ms[i].id < IdLimit /\ ms[i].ack < IdLimit
    PROVE  Headers(ms) = ms
  <1>1. \A i \in DOMAIN ms : Header(ms[i]) = ms[i]
    <2> SUFFICES ASSUME NEW i \in DOMAIN ms PROVE Header(ms[i]) = ms[i]
      OBVIOUS
    <2>1. ms[i] \in Msg /\ ms[i].id < IdLimit /\ ms[i].ack < IdLimit
      OBVIOUS
    <2> QED BY <2>1, HeaderIdentity, BoundsAssumption
  <1> QED BY <1>1 DEF Headers

\* ProtocolWriter.write() keeps the buffer genuine, whatever (S, I) the
\* senders have sent and received.
LEMMA WriteGenuine ==
    ASSUME TypeOK, NEW S \in [Peers -> Seq(Data)], NEW I \in [Peers -> Nat],
           \A x \in Peers : Len(S[x]) < IdLimit /\ I[x] < IdLimit,
           \A x \in Peers : AllGenuine(S[x], I[x], data[x]),
           NEW p \in Peers, NEW ms \in Seq(Msg), AllGenuine(S[p], I[p], ms),
           Write(p, ms)
    PROVE  /\ data' \in [Peers -> Seq(Msg)]
           /\ writeNowTimeout' \in [Peers -> BOOLEAN]
           /\ \A x \in Peers : AllGenuine(S[x], I[x], data'[x])
  <1>1. Headers(ms) = ms
    <2> SUFFICES ASSUME NEW i \in 1..Len(ms) PROVE ms[i].id < IdLimit /\ ms[i].ack < IdLimit
      BY HeadersIdentity
    <2>1. ms[i] \in Msg /\ Genuine(S[p], I[p], ms[i])
      BY DEF AllGenuine
    <2> QED BY <2>1, BoundsAssumption DEF Genuine, Msg
  <1>2. data' = [data EXCEPT ![p] = IF disposed[p] THEN data[p] ELSE data[p] \o ms]
    BY <1>1 DEF Write
  <1>3. data' \in [Peers -> Seq(Msg)]
    BY <1>2 DEF TypeOK
  <1>4. writeNowTimeout' \in [Peers -> BOOLEAN]
    BY Zenon DEF Write, TypeOK
  <1>5. AllGenuine(S[p], I[p], data[p] \o ms)
    BY SMTT(60), GenuineConcat DEF TypeOK
  <1>6. \A x \in Peers : AllGenuine(S[x], I[x], data'[x])
    BY Zenon, <1>2, <1>5 DEF TypeOK
  <1> QED BY <1>3, <1>4, <1>6

\* Replacing the frames of one direction of one socket by genuine ones.
LEMMA WireUpdate ==
    ASSUME NEW w \in [Sockets -> [Peers -> Seq(Msg)]],
           NEW S \in [Peers -> Seq(Data)], NEW I \in [Peers -> Nat],
           \A x \in Peers : \A c \in Sockets : AllGenuine(S[x], I[x], w[c][x]),
           NEW k \in Sockets, NEW p \in Peers, NEW q \in Seq(Msg),
           AllGenuine(S[p], I[p], q)
    PROVE  /\ [w EXCEPT ![k][p] = q] \in [Sockets -> [Peers -> Seq(Msg)]]
           /\ \A x \in Peers : \A c \in Sockets :
                AllGenuine(S[x], I[x], [w EXCEPT ![k][p] = q][c][x])
  <1> DEFINE v == [w EXCEPT ![k][p] = q]
  <1>1. v \in [Sockets -> [Peers -> Seq(Msg)]]
    OBVIOUS
  <1>2. v[k][p] = q
    OBVIOUS
  <1>3. \A x \in Peers : \A c \in Sockets : c # k \/ x # p => v[c][x] = w[c][x]
    OBVIOUS
  <1> HIDE DEF v
  <1>4. \A x \in Peers : \A c \in Sockets : AllGenuine(S[x], I[x], v[c][x])
    <2> SUFFICES ASSUME NEW x \in Peers, NEW c \in Sockets
                 PROVE  AllGenuine(S[x], I[x], v[c][x])
      OBVIOUS
    <2>1. CASE c = k /\ x = p
      BY <2>1, <1>2
    <2>2. CASE c # k \/ x # p
      BY <2>2, <1>3
    <2> QED BY <2>1, <2>2
  <1> QED BY <1>1, <1>4 DEF v

\* socket.write() keeps every wire genuine.
LEMMA SocketWriteGenuine ==
    ASSUME NEW w \in [Sockets -> [Peers -> Seq(Msg)]],
           NEW S \in [Peers -> Seq(Data)], NEW I \in [Peers -> Nat],
           \A x \in Peers : \A c \in Sockets : AllGenuine(S[x], I[x], w[c][x]),
           NEW k \in Sockets, NEW p \in Peers, NEW ms \in Seq(Msg),
           AllGenuine(S[p], I[p], ms)
    PROVE  /\ SocketWrite(w, k, p, ms) \in [Sockets -> [Peers -> Seq(Msg)]]
           /\ \A x \in Peers : \A c \in Sockets :
                AllGenuine(S[x], I[x], SocketWrite(w, k, p, ms)[c][x])
  <1>1. CASE k \notin open
    BY <1>1 DEF SocketWrite
  <1>2. CASE k \in open
    <2> DEFINE q == w[k][p] \o ms
    <2>1. SocketWrite(w, k, p, ms) = [w EXCEPT ![k][p] = q]
      BY <1>2 DEF SocketWrite
    <2>2. q \in Seq(Msg) /\ AllGenuine(S[p], I[p], q)
      BY GenuineConcat
    <2> HIDE DEF q
    <2> QED BY <2>1, <2>2, WireUpdate
  <1> QED BY <1>1, <1>2

\* What flush() hands over is genuine.
LEMMA FlushedGenuine ==
    ASSUME NEW s \in Seq(Data), NEW inc \in Nat, NEW p \in Peers,
           NEW ms \in Seq(Msg), AllGenuine(s, inc, ms)
    PROVE  Flushed(p, ms) \in Seq(Msg) /\ AllGenuine(s, inc, Flushed(p, ms))
  BY DEF Flushed, AllGenuine

\* Replacing the buffered frames of one writer by genuine ones.
LEMMA DataUpdate ==
    ASSUME NEW d \in [Peers -> Seq(Msg)],
           NEW S \in [Peers -> Seq(Data)], NEW I \in [Peers -> Nat],
           \A x \in Peers : AllGenuine(S[x], I[x], d[x]),
           NEW p \in Peers, NEW q \in Seq(Msg), AllGenuine(S[p], I[p], q)
    PROVE  /\ [d EXCEPT ![p] = q] \in [Peers -> Seq(Msg)]
           /\ \A x \in Peers : AllGenuine(S[x], I[x], [d EXCEPT ![p] = q][x])
  OBVIOUS

\* No frames are genuine frames.
LEMMA EmptyGenuine ==
    ASSUME NEW s, NEW inc
    PROVE  <<>> \in Seq(Msg) /\ AllGenuine(s, inc, <<>>)
  BY DEF AllGenuine

-----------------------------------------------------------------------------
(* Steps that leave the message counters alone.                            *)

\* Fewer than 2^32 messages are sent, and no more received than sent: what the
\* headers written by ProtocolWriter.write() rest on.
LEMMA Limits ==
    ASSUME IInv
    PROVE  /\ sent \in [Peers -> Seq(Data)] /\ incomingMsgId \in [Peers -> Nat]
           /\ \A x \in Peers : Len(sent[x]) < IdLimit /\ incomingMsgId[x] < IdLimit
           /\ \A x \in Peers : Other(x) \in Peers /\ Other(Other(x)) = x
           /\ \A x \in Peers : incomingMsgId[x] <= outgoingMsgId[Other(x)]
  <1>1. \A x \in Peers : Other(x) \in Peers /\ Other(Other(x)) = x
    BY DEF Other, Peers
  <1>2. sent \in [Peers -> Seq(Data)] /\ incomingMsgId \in [Peers -> Nat]
    BY DEF IInv, TypeOK
  <1>3. \A x \in Peers : Len(sent[x]) \in Nat /\ Len(sent[x]) < IdLimit
    BY BoundsAssumption, <1>2 DEF IInv, TypeOK, CountersAgree
  <1>4. \A x \in Peers : incomingMsgId[x] <= outgoingMsgId[Other(x)]
    BY <1>1 DEF IInv, CountersAgree, InOrderExactlyOnce
  <1>5. \A x \in Peers : incomingMsgId[x] < IdLimit
    <2> SUFFICES ASSUME NEW x \in Peers PROVE incomingMsgId[x] < IdLimit
      OBVIOUS
    <2>1. incomingMsgId[x] <= Len(sent[Other(x)])
      BY <1>1, <1>4 DEF IInv, CountersAgree
    <2>2. Len(sent[Other(x)]) \in Nat /\ Len(sent[Other(x)]) < IdLimit
      BY <1>1, <1>3
    <2>3. incomingMsgId[x] \in Nat /\ IdLimit \in Nat
      BY <1>2, BoundsAssumption
    <2> QED BY <2>1, <2>2, <2>3
  <1> QED BY <1>1, <1>2, <1>3, <1>4, <1>5

\* A step that neither sends nor delivers keeps the invariant as long as the
\* frames it buffers or writes are genuine.
LEMMA FrameStep ==
    ASSUME IInv, TypeOK', UNCHANGED <<sendVars, incomingMsgId, delivered>>,
           \A x \in Peers : incomingAckId'[x] <= incomingMsgId[x],
           \A x \in Peers : AllGenuine(sent[x], incomingMsgId[x], data'[x]),
           \A x \in Peers : \A c \in Sockets :
              AllGenuine(sent[x], incomingMsgId[x], wire'[c][x])
    PROVE  IInv'
  <1>1. CountersAgree'
    BY DEF IInv, CountersAgree, sendVars
  <1>2. FramesGenuine'
    BY DEF IInv, FramesGenuine, sendVars
  <1>3. InOrderExactlyOnce'
    BY DEF IInv, InOrderExactlyOnce, sendVars
  <1>4. UnackWindow'
    BY DEF IInv, UnackWindow, sendVars
  <1>5. AckedWasDelivered'
    BY SMTT(60) DEF IInv, AckedWasDelivered, sendVars
  <1> QED BY <1>1, <1>2, <1>3, <1>4, <1>5 DEF IInv

\* The timer of ProtocolWriter._scheduleWriting moves the buffer to the socket.
LEMMA WriteNowStep ==
    ASSUME IInv, NEW p \in Peers, WriteNow(p)
    PROVE  IInv'
  <1> USE DEF sendVars, recvVars, timerVars, eventVars, socketVars
  <1>0. /\ data[p] \in Seq(Msg)
        /\ socket[p] \in Sockets
        /\ wire \in [Sockets -> [Peers -> Seq(Msg)]]
    BY DEF IInv, TypeOK
  <1>1. /\ wire' \in [Sockets -> [Peers -> Seq(Msg)]]
        /\ \A x \in Peers : \A c \in Sockets :
             AllGenuine(sent[x], incomingMsgId[x], wire'[c][x])
    <2> DEFINE ms == Flushed(p, data[p])
    <2>1. ms \in Seq(Msg) /\ AllGenuine(sent[p], incomingMsgId[p], ms)
      BY SMTT(60), FlushedGenuine, Limits, <1>0 DEF IInv, FramesGenuine
    <2>2. wire' = SocketWrite(wire, socket[p], p, ms)
      BY DEF WriteNow
    <2> HIDE DEF ms
    <2> QED BY Zenon, <2>1, <2>2, <1>0, Limits, SocketWriteGenuine DEF IInv, FramesGenuine
  <1>2. /\ data' \in [Peers -> Seq(Msg)]
        /\ \A x \in Peers : AllGenuine(sent[x], incomingMsgId[x], data'[x])
    <2> DEFINE q == IF paused[p] THEN data[p] ELSE <<>>
    <2>1. q \in Seq(Msg) /\ AllGenuine(sent[p], incomingMsgId[p], q)
      BY <1>0, EmptyGenuine DEF IInv, FramesGenuine
    <2>2. data' = [data EXCEPT ![p] = q] /\ data \in [Peers -> Seq(Msg)]
      BY DEF WriteNow, IInv, TypeOK
    <2> HIDE DEF q
    <2>3. \A x \in Peers : AllGenuine(sent[x], incomingMsgId[x], data[x])
      BY Zenon DEF IInv, FramesGenuine
    <2> QED BY Zenon, <2>1, <2>2, <2>3, Limits, DataUpdate
  <1>3. TypeOK'
    BY ZenonT(60), <1>1, <1>2 DEF WriteNow, IInv, TypeOK
  <1> QED BY <1>1, <1>2, <1>3, FrameStep DEF WriteNow, IInv, CountersAgree

\* flush()
LEMMA FlushStep ==
    ASSUME IInv, NEW p \in Peers, Flush(p)
    PROVE  IInv'
  <1> USE DEF sendVars, recvVars, timerVars, eventVars, socketVars
  <1>0. /\ data \in [Peers -> Seq(Msg)] /\ data[p] \in Seq(Msg)
        /\ socket[p] \in Sockets
        /\ wire \in [Sockets -> [Peers -> Seq(Msg)]]
    BY SMTT(60) DEF IInv, TypeOK
  <1>1. /\ wire' \in [Sockets -> [Peers -> Seq(Msg)]]
        /\ \A x \in Peers : \A c \in Sockets :
             AllGenuine(sent[x], incomingMsgId[x], wire'[c][x])
    BY Zenon, <1>0, Limits, SocketWriteGenuine DEF Flush, IInv, FramesGenuine
  <1>2. /\ data' \in [Peers -> Seq(Msg)]
        /\ \A x \in Peers : AllGenuine(sent[x], incomingMsgId[x], data'[x])
    <2> DEFINE q == <<>>
    <2>1. q \in Seq(Msg) /\ AllGenuine(sent[p], incomingMsgId[p], q)
      BY EmptyGenuine
    <2>2. data' = [data EXCEPT ![p] = q]
      BY Zenon DEF Flush
    <2> HIDE DEF q
    <2>3. \A x \in Peers : AllGenuine(sent[x], incomingMsgId[x], data[x])
      BY Zenon DEF IInv, FramesGenuine
    <2> QED BY Zenon, <1>0, <2>1, <2>2, <2>3, Limits, DataUpdate
  <1>3. TypeOK'
    BY Zenon, <1>1, <1>2 DEF Flush, IInv, TypeOK
  <1> QED BY <1>1, <1>2, <1>3, FrameStep DEF Flush, IInv, CountersAgree

\* Steps that touch neither the counters nor any frame: pauseSocketWriting,
\* the socket's close event, the passing of time, a socket that breaks.
LEMMA QuietStep ==
    ASSUME IInv, UNCHANGED <<sendVars, recvVars, data, wire>>, TypeOK'
    PROVE  IInv'
  BY FrameStep, Limits DEF IInv, CountersAgree, FramesGenuine, recvVars

\* pauseSocketWriting() only sets a flag of the writer.
LEMMA PauseSocketWritingStep ==
    ASSUME IInv, NEW p \in Peers, PauseSocketWriting(p)
    PROVE  IInv'
  <1>1. TypeOK'
    BY SMTT(60) DEF PauseSocketWriting, IInv, TypeOK, sendVars, recvVars, timerVars,
           eventVars, socketVars, netVars
  <1> QED BY <1>1, QuietStep DEF PauseSocketWriting, netVars

\* acceptDisconnect() only fires an event.
LEMMA AcceptDisconnectStep ==
    ASSUME IInv, NEW p \in Peers, AcceptDisconnect(p)
    PROVE  IInv'
  <1>1. TypeOK'
    BY Zenon DEF AcceptDisconnect, IInv, TypeOK, sendVars, recvVars, timerVars,
           writerVars, socketVars, netVars
  <1> QED BY <1>1, QuietStep DEF AcceptDisconnect, netVars, writerVars

\* The socket's onClose only fires an event.
LEMMA SocketCloseStep ==
    ASSUME IInv, NEW p \in Peers, SocketClose(p)
    PROVE  IInv'
  <1>1. TypeOK'
    BY SMTT(60) DEF SocketClose, IInv, TypeOK, sendVars, recvVars, timerVars,
           writerVars, socketVars, netVars
  <1> QED BY <1>1, QuietStep DEF SocketClose, netVars, writerVars

\* Time passes, or a socket breaks: no field of a protocol object changes.
LEMMA EnvironmentQuietStep ==
    ASSUME IInv, NEW p \in Peers, NEW c \in Sockets,
           Silence(p) \/ ReplayAllowed(p) \/ SocketBreaks(c)
    PROVE  IInv'
  <1> USE DEF endpointVars, sendVars, recvVars, timerVars, writerVars, eventVars,
              socketVars, netVars
  <1>1. TypeOK'
    <2>1. CASE Silence(p)
      BY Zenon, <2>1 DEF Silence, IInv, TypeOK
    <2>2. CASE ReplayAllowed(p)
      BY SMTT(60), <2>2 DEF ReplayAllowed, IInv, TypeOK
    <2>3. CASE SocketBreaks(c)
      BY Zenon, <2>3 DEF SocketBreaks, IInv, TypeOK
    <2> QED BY <2>1, <2>2, <2>3
  <1> QED BY <1>1, QuietStep DEF Silence, ReplayAllowed, SocketBreaks

\* Frames that are lost, or read by the handshake, only shorten a wire.
LEMMA WireShrinks ==
    ASSUME IInv, NEW c \in Sockets, NEW p \in Peers, NEW q \in Seq(Msg),
           AllGenuine(sent[p], incomingMsgId[p], q),
           wire' = [wire EXCEPT ![c][p] = q],
           drops' \in 0..MaxDrops,
           UNCHANGED <<endpointVars, replayThrottled, quiet, open>>
    PROVE  IInv'
  <1> USE DEF endpointVars, sendVars, recvVars, timerVars, writerVars, eventVars,
              socketVars, netVars
  <1>0. wire \in [Sockets -> [Peers -> Seq(Msg)]]
    BY DEF IInv, TypeOK
  <1>1. /\ wire' \in [Sockets -> [Peers -> Seq(Msg)]]
        /\ \A x \in Peers : \A k \in Sockets :
             AllGenuine(sent[x], incomingMsgId[x], wire'[k][x])
    BY ZenonT(60), <1>0, Limits, WireUpdate DEF IInv, FramesGenuine
  <1>2. TypeOK'
    BY Zenon, <1>1 DEF IInv, TypeOK
  <1> QED BY <1>1, <1>2, FrameStep DEF IInv, CountersAgree, FramesGenuine

\* Frames lost with a broken socket, dropped, or read by the handshake's
\* protocol object instead of the one that reconnects.
LEMMA LossStep ==
    ASSUME IInv, NEW c \in Sockets, NEW p \in Peers,
           \/ LoseTail(c, p)
           \/ \E i \in DOMAIN wire[c][p] : Drop(c, p, i)
           \/ HandshakeRead(c)
    PROVE  IInv'
  <1>0. \A x \in Peers :
          wire[c][x] \in Seq(Msg) /\ AllGenuine(sent[x], incomingMsgId[x], wire[c][x])
    BY DEF IInv, TypeOK, FramesGenuine
  <1>1. CASE LoseTail(c, p)
    <2> DEFINE q == SubSeq(wire[c][p], 1, Len(wire[c][p]) - 1)
    <2>0. /\ sent[p] \in Seq(Data) /\ incomingMsgId[p] \in Nat
          /\ 1 \in 1..(Len(wire[c][p]) + 1)
          /\ Len(wire[c][p]) - 1 \in 0..Len(wire[c][p])
      BY SMTT(30), <1>0, <1>1, Limits DEF LoseTail
    <2>1. q \in Seq(Msg) /\ AllGenuine(sent[p], incomingMsgId[p], q)
      BY <1>0, <2>0, GenuineSubSeq
    <2>2. wire' = [wire EXCEPT ![c][p] = q] /\ drops' \in 0..MaxDrops
      BY <1>1 DEF LoseTail, IInv, TypeOK
    <2> HIDE DEF q
    <2> QED BY Zenon, <1>1, <2>1, <2>2, WireShrinks DEF LoseTail
  <1>2. ASSUME NEW i \in DOMAIN wire[c][p], Drop(c, p, i)
        PROVE  IInv'
    <2> DEFINE l == SubSeq(wire[c][p], 1, i - 1)
               r == SubSeq(wire[c][p], i + 1, Len(wire[c][p]))
    <2>0. /\ sent[p] \in Seq(Data) /\ incomingMsgId[p] \in Nat
          /\ 1 \in 1..(Len(wire[c][p]) + 1) /\ i - 1 \in 0..Len(wire[c][p])
          /\ i + 1 \in 1..(Len(wire[c][p]) + 1)
          /\ Len(wire[c][p]) \in 0..Len(wire[c][p])
      BY SMTT(60), <1>0, <1>2, Limits
    <2>1. l \in Seq(Msg) /\ AllGenuine(sent[p], incomingMsgId[p], l)
      BY Zenon, <1>0, <2>0, GenuineSubSeq
    <2>2. r \in Seq(Msg) /\ AllGenuine(sent[p], incomingMsgId[p], r)
      BY Zenon, <1>0, <2>0, GenuineSubSeq
    <2>3. wire' = [wire EXCEPT ![c][p] = l \o r] /\ drops' \in 0..MaxDrops
      <3>1. drops \in 0..MaxDrops /\ drops < MaxDrops /\ drops' = drops + 1
        BY Zenon, <1>2 DEF Drop, IInv, TypeOK
      <3>2. drops' \in 0..MaxDrops
        BY <3>1, BoundsAssumption
      <3> QED BY Zenon, <1>2, <3>2 DEF Drop
    <2> HIDE DEF l, r
    <2>4. l \o r \in Seq(Msg) /\ AllGenuine(sent[p], incomingMsgId[p], l \o r)
      <3>1. l \o r \in Seq(Msg)
        BY <2>1, <2>2
      <3>2. AllGenuine(sent[p], incomingMsgId[p], l \o r)
        BY Zenon, <2>0, <2>1, <2>2, GenuineConcat
      <3> QED BY <3>1, <3>2
    <2> QED BY Zenon, <1>2, <2>3, <2>4, WireShrinks DEF Drop
  <1>3. CASE HandshakeRead(c)
    <2> DEFINE q == Tail(wire[c]["client"])
    <2>0. "client" \in Peers
      BY DEF Peers
    <2>1. q \in Seq(Msg) /\ AllGenuine(sent["client"], incomingMsgId["client"], q)
      BY <1>0, <1>3, <2>0, Limits, GenuineTail DEF HandshakeRead
    <2>2. wire' = [wire EXCEPT ![c]["client"] = q] /\ drops' \in 0..MaxDrops
      BY <1>3 DEF HandshakeRead, IInv, TypeOK
    <2> HIDE DEF q
    <2> QED BY Zenon, <1>3, <2>0, <2>1, <2>2, WireShrinks DEF HandshakeRead
  <1> QED BY <1>1, <1>2, <1>3

=============================================================================
