---------------------- MODULE PersistentProtocolTimers ----------------------
(***************************************************************************)
(* Theorems about the timers that keep the flow of PersistentProtocol      *)
(* going: that of _recvAckCheck(), that of _sendAckCheck() and that of     *)
(* ProtocolWriter.                                                         *)
(***************************************************************************)
EXTENDS PersistentProtocolProofs, PersistentProtocolSteps, TLAPS

watchVars == <<outgoingMsgId, outgoingAckId, outgoingAckTimeout, isReconnecting,
               socketTimeout, keepAliveInterval>>
owedVars == <<incomingMsgId, incomingAckId, incomingAckTimeout, keepAliveInterval>>

\* The conjunct of UnackIsWatched about one peer.
Watched(p) ==
    outgoingMsgId[p] > outgoingAckId[p] =>
        \/ outgoingAckTimeout[p] \/ isReconnecting[p]
        \/ socketTimeout[p] \/ ~keepAliveInterval[p]

\* After _recvAckCheck() the messages that are not acknowledged are watched.
LEMMA RecvAckCheckWatches ==
    ASSUME TypeOK, NEW p \in Peers, NEW timer \in BOOLEAN, NEW rec \in BOOLEAN,
           NEW late \in BOOLEAN, UnackIsWatched,
           outgoingMsgId'[p] \in Nat, outgoingAckId'[p] \in Nat,
           RecvAckCheck(p, timer, outgoingMsgId'[p], outgoingAckId'[p], rec, late),
           rec => isReconnecting'[p], UNCHANGED keepAliveInterval,
           \A x \in Peers \ {p} :
              UNCHANGED <<outgoingMsgId[x], outgoingAckId[x], isReconnecting[x]>>
    PROVE  UnackIsWatched'
  <1>0. outgoingAckTimeout \in [Peers -> BOOLEAN] /\ socketTimeout \in [Peers -> BOOLEAN]
    BY Zenon DEF TypeOK
  <1>1. Watched(p)'
    <2>1. CASE NothingToWatch(timer, outgoingMsgId'[p], outgoingAckId'[p], rec)
      <3>1. outgoingAckTimeout'[p] = timer
        BY <1>0, <2>1 DEF RecvAckCheck
      <3> QED BY <2>1, <3>1 DEF NothingToWatch, Watched
    <2>2. CASE ~NothingToWatch(timer, outgoingMsgId'[p], outgoingAckId'[p], rec)
      <3>1. outgoingAckTimeout'[p] \/ socketTimeout'[p]
        BY <1>0, <2>2 DEF RecvAckCheck
      <3> QED BY <3>1 DEF Watched
    <2> QED BY <2>1, <2>2
  <1>2. ASSUME NEW x \in Peers, x # p PROVE Watched(x)'
    <2>1. UNCHANGED <<outgoingAckTimeout[x], socketTimeout[x]>>
      BY <1>0, <1>2 DEF RecvAckCheck
    <2>2. Watched(x)
      BY DEF UnackIsWatched, Watched
    <2> QED BY <1>2, <2>1, <2>2 DEF Watched
  <1> QED BY <1>1, <1>2 DEF UnackIsWatched, Watched

\* A step that leaves the outgoing side alone, but for acknowledgements.
LEMMA WatchKept ==
    ASSUME TypeOK, UnackIsWatched,
           UNCHANGED <<outgoingMsgId, outgoingAckTimeout, isReconnecting, socketTimeout,
                       keepAliveInterval>>,
           outgoingAckId' \in [Peers -> Nat],
           \A x \in Peers : outgoingAckId'[x] >= outgoingAckId[x]
    PROVE  UnackIsWatched'
  <1> SUFFICES ASSUME NEW x \in Peers PROVE Watched(x)'
    BY DEF UnackIsWatched, Watched
  <1>1. Watched(x)
    BY DEF UnackIsWatched, Watched
  <1>2. outgoingMsgId[x] \in Nat /\ outgoingAckId[x] \in Nat /\ outgoingAckId'[x] \in Nat
    BY DEF TypeOK
  <1> QED BY <1>1, <1>2 DEF Watched

\* The steps of the users and timers that only write frames.
OnlyWrites(p) ==
    \/ \E x \in Controls : SendControl(p, x)
    \/ SendPause(p) \/ SendResume(p) \/ PauseSocketWriting(p) \/ SendDisconnect(p)
    \/ AcceptDisconnect(p) \/ Flush(p) \/ WriteNow(p) \/ SocketClose(p)

\* They leave both timers and what they watch alone.
LEMMA OnlyWritesFrame ==
    ASSUME NEW p \in Peers, OnlyWrites(p)
    PROVE  UNCHANGED <<watchVars, owedVars>>
  <1> USE DEF watchVars, owedVars, sendVars, recvVars, timerVars, eventVars
  <1>1. CASE \E x \in Controls : SendControl(p, x)
    BY Zenon, <1>1 DEF SendControl, SendFrame
  <1>2. CASE SendPause(p) \/ SendResume(p)
    BY Zenon, <1>2 DEF SendPause, SendResume, SendFrame
  <1>3. CASE PauseSocketWriting(p) \/ AcceptDisconnect(p)
    BY Zenon, <1>3 DEF PauseSocketWriting, AcceptDisconnect
  <1>4. CASE SendDisconnect(p)
    BY Zenon, <1>4 DEF SendDisconnect
  <1>5. CASE Flush(p) \/ WriteNow(p)
    BY Zenon, <1>5 DEF Flush, WriteNow
  <1>6. CASE SocketClose(p)
    BY Zenon, <1>6 DEF SocketClose
  <1> QED BY <1>1, <1>2, <1>3, <1>4, <1>5, <1>6 DEF OnlyWrites

\* The environment leaves both timers alone; a reconnection begins with
\* isReconnecting set.
LEMMA EnvironmentFrame ==
    ASSUME IInv, Environment
    PROVE  /\ UNCHANGED <<outgoingMsgId, outgoingAckId, outgoingAckTimeout, owedVars>>
           /\ \A x \in Peers : \/ isReconnecting'[x]
                               \/ UNCHANGED <<isReconnecting[x], socketTimeout[x]>>
  <1> USE DEF owedVars, sendVars, recvVars, timerVars, eventVars, endpointVars
  <1>0. isReconnecting \in [Peers -> BOOLEAN] /\ socketTimeout \in [Peers -> BOOLEAN]
    BY DEF IInv, TypeOK
  <1>1. ASSUME NEW p \in Peers, NEW c, BeginAcceptReconnection(p, c)
        PROVE  /\ UNCHANGED <<outgoingMsgId, outgoingAckId, outgoingAckTimeout, owedVars>>
               /\ \A x \in Peers : \/ isReconnecting'[x]
                                   \/ UNCHANGED <<isReconnecting[x], socketTimeout[x]>>
    BY <1>0, <1>1 DEF BeginAcceptReconnection
  <1>2. CASE ClientReconnects \/ \E c \in Sockets : ServerReconnects(c)
    BY Zenon, <1>1, <1>2 DEF ClientReconnects, ServerReconnects, Peers
  <1>3. CASE \E c \in Sockets : HandshakeRead(c) \/ SocketBreaks(c)
    BY Zenon, <1>3 DEF HandshakeRead, SocketBreaks
  <1>4. CASE \E c \in Sockets, p \in Peers : LoseTail(c, p)
    BY Zenon, <1>4 DEF LoseTail
  <1>5. CASE \E c \in Sockets, p \in Peers : \E i \in DOMAIN wire[c][p] : Drop(c, p, i)
    BY Zenon, <1>5 DEF Drop
  <1>6. CASE \E p \in Peers : Silence(p) \/ ReplayAllowed(p)
    BY Zenon, <1>6 DEF Silence, ReplayAllowed
  <1> QED BY Zenon, <1>2, <1>3, <1>4, <1>5, <1>6 DEF Environment

\* The calls of send(), endAcceptReconnection(), dispose() and the timers.
LEMMA OtherSteps ==
    ASSUME [Next]_vars
    PROVE  \/ Environment \/ UNCHANGED vars
           \/ \E p \in Peers :
                \/ OnlyWrites(p) \/ Dispose(p)
                \/ MayEnd(p) /\ EndAcceptReconnection(p)
                \/ \E d \in Data : Send(p, d)
                \/ RecvAckTimeout(p) \/ SendAckTimeout(p) \/ SendKeepAlive(p)
                \/ ReceiveMessage(p)
  <1>1. ASSUME NEW p \in Peers, UserCall(p)
        PROVE  \/ OnlyWrites(p) \/ Dispose(p)
               \/ MayEnd(p) /\ EndAcceptReconnection(p)
               \/ \E d \in Data : Send(p, d)
    BY Zenon, <1>1 DEF UserCall, OnlyWrites
  <1>2. ASSUME NEW p \in Peers, Callback(p)
        PROVE  \/ OnlyWrites(p) \/ RecvAckTimeout(p) \/ SendAckTimeout(p)
               \/ SendKeepAlive(p) \/ ReceiveMessage(p)
    BY Zenon, <1>2 DEF Callback, OnlyWrites
  <1> QED BY Zenon, <1>1, <1>2 DEF Next

\* Every step keeps the messages that are not acknowledged watched.
LEMMA UnackIsWatchedStep ==
    ASSUME IInv, IInv', UnackIsWatched, [Next]_vars
    PROVE  UnackIsWatched'
  <1>0. /\ TypeOK
        /\ \A x \in Peers : /\ outgoingMsgId'[x] \in Nat /\ outgoingAckId'[x] \in Nat
                            /\ isReconnecting[x] \in BOOLEAN
                            /\ outgoingAckTimeout[x] \in BOOLEAN /\ quiet[x] \in BOOLEAN
                            /\ disposed[x] \in BOOLEAN
        /\ outgoingMsgId \in [Peers -> Nat] /\ outgoingAckId \in [Peers -> Nat]
        /\ isReconnecting \in [Peers -> BOOLEAN]
    BY Zenon DEF IInv, TypeOK
  <1>1. CASE UNCHANGED watchVars
    BY <1>0, <1>1, WatchKept DEF watchVars
  <1>2. CASE Environment
    <2> SUFFICES ASSUME NEW x \in Peers PROVE Watched(x)'
      BY DEF UnackIsWatched, Watched
    <2>1. Watched(x)
      BY DEF UnackIsWatched, Watched
    <2> QED BY <1>2, <2>1, EnvironmentFrame DEF Watched, owedVars
  <1>3. ASSUME NEW p \in Peers, NEW d \in Data, Send(p, d) PROVE UnackIsWatched'
    <2>0. outgoingMsgId' = [outgoingMsgId EXCEPT ![p] = outgoingMsgId[p] + 1]
      BY Zenon, <1>3 DEF Send
    <2>1. CASE isReconnecting[p]
      <3>1. UNCHANGED <<outgoingAckId, outgoingAckTimeout, isReconnecting, socketTimeout,
                        keepAliveInterval>>
        BY Zenon, <1>3, <2>1 DEF Send
      <3> QED BY <1>0, <2>0, <2>1, <3>1 DEF UnackIsWatched
    <2>2. CASE ~isReconnecting[p]
      <3> DEFINE late == quiet[p] /\ (outgoingUnackMsg[p] # <<>> \/ disposed[p])
      <3>1. outgoingMsgId'[p] = outgoingMsgId[p] + 1
        BY <1>0, <2>0
      <3>2. /\ RecvAckCheck(p, outgoingAckTimeout[p], outgoingMsgId'[p], outgoingAckId[p],
                            FALSE, late)
            /\ UNCHANGED <<outgoingAckId, isReconnecting, keepAliveInterval>>
        BY Zenon, <1>3, <2>2, <3>1 DEF Send
      <3>3. late \in BOOLEAN
        BY <1>0
      <3>4. \A x \in Peers \ {p} :
              UNCHANGED <<outgoingMsgId[x], outgoingAckId[x], isReconnecting[x]>>
        BY <1>0, <2>0, <3>2
      <3> HIDE DEF late
      <3>5. RecvAckCheck(p, outgoingAckTimeout[p], outgoingMsgId'[p], outgoingAckId'[p],
                         FALSE, late)
        BY Zenon, <3>2
      <3>6. /\ outgoingMsgId'[p] \in Nat /\ outgoingAckId'[p] \in Nat
            /\ outgoingAckTimeout[p] \in BOOLEAN /\ FALSE \in BOOLEAN
            /\ FALSE => isReconnecting'[p]
        BY Zenon, <1>0
      <3>7. UNCHANGED keepAliveInterval
        BY Zenon, <3>2
      <3> QED BY Zenon, <1>0, <3>3, <3>4, <3>5, <3>6, <3>7, RecvAckCheckWatches
    <2> QED BY <2>1, <2>2
  <1>4. ASSUME NEW p \in Peers, EndAcceptReconnection(p) PROVE UnackIsWatched'
    <2> DEFINE late == quiet[p] /\ (outgoingUnackMsg[p] = <<>> \/ disposed[p])
    <2>1. /\ RecvAckCheck(p, outgoingAckTimeout[p], outgoingMsgId[p], outgoingAckId[p],
                          FALSE, late)
          /\ UNCHANGED <<outgoingMsgId, outgoingAckId, keepAliveInterval>>
          /\ isReconnecting' = [isReconnecting EXCEPT ![p] = FALSE]
      BY Zenon, <1>4 DEF EndAcceptReconnection, sendVars
    <2>2. late \in BOOLEAN
      BY <1>0
    <2>3. \A x \in Peers \ {p} :
            UNCHANGED <<outgoingMsgId[x], outgoingAckId[x], isReconnecting[x]>>
      BY <1>0, <2>1
    <2> HIDE DEF late
    <2>4. /\ RecvAckCheck(p, outgoingAckTimeout[p], outgoingMsgId'[p], outgoingAckId'[p],
                          FALSE, late)
          /\ UNCHANGED keepAliveInterval
      BY Zenon, <2>1
    <2> QED BY Zenon, <1>0, <2>4, <2>2, <2>3, RecvAckCheckWatches
  <1>5. ASSUME NEW p \in Peers, RecvAckTimeout(p) PROVE UnackIsWatched'
    <2>1. /\ RecvAckCheck(p, FALSE, outgoingMsgId[p], outgoingAckId[p], isReconnecting[p],
                          quiet[p])
          /\ UNCHANGED <<outgoingMsgId, outgoingAckId, keepAliveInterval, isReconnecting>>
      BY Zenon, <1>5 DEF RecvAckTimeout, sendVars
    <2> QED BY Zenon, <1>0, <2>1, RecvAckCheckWatches
  <1>6. ASSUME NEW p \in Peers, Dispose(p) PROVE UnackIsWatched'
    <2>1. /\ outgoingAckTimeout' = [outgoingAckTimeout EXCEPT ![p] = FALSE]
          /\ keepAliveInterval' = [keepAliveInterval EXCEPT ![p] = FALSE]
          /\ UNCHANGED <<outgoingMsgId, outgoingAckId, isReconnecting, socketTimeout>>
      BY Zenon, <1>6 DEF Dispose, sendVars, eventVars
    <2> QED BY <1>0, <2>1 DEF UnackIsWatched, TypeOK
  <1>7. ASSUME NEW p \in Peers, ReceiveMessage(p) PROVE UnackIsWatched'
    <2>1. PICK type \in Types :
            /\ Receive(p, type)
            /\ ReceiveReplayRequest(p) \/ UNCHANGED <<outgoingAckTimeout, socketTimeout>>
      BY Zenon, <1>7, ReceiveHandlers
    <2>2. UNCHANGED <<outgoingMsgId, isReconnecting, keepAliveInterval>>
      BY Zenon, <2>1 DEF Receive
    <2>3. /\ outgoingAckId' \in [Peers -> Nat]
          /\ \A x \in Peers : outgoingAckId'[x] >= outgoingAckId[x]
          /\ \A x \in Peers \ {p} : outgoingAckId'[x] = outgoingAckId[x]
      BY <2>1, AcksGrow
    <2>4. CASE UNCHANGED <<outgoingAckTimeout, socketTimeout>>
      BY <1>0, <2>2, <2>3, <2>4, WatchKept
    <2>5. CASE ReceiveReplayRequest(p)
      <3>1. RecvAckCheck(p, outgoingAckTimeout[p], outgoingMsgId[p], outgoingAckId'[p],
                         isReconnecting[p], FALSE)
        BY Zenon, <2>5 DEF ReceiveReplayRequest
      <3>2. /\ RecvAckCheck(p, outgoingAckTimeout[p], outgoingMsgId'[p], outgoingAckId'[p],
                            isReconnecting[p], FALSE)
            /\ isReconnecting[p] => isReconnecting'[p]
        BY Zenon, <2>2, <3>1
      <3>3. \A x \in Peers \ {p} :
              UNCHANGED <<outgoingMsgId[x], outgoingAckId[x], isReconnecting[x]>>
        BY <2>2, <2>3
      <3> QED BY Zenon, <1>0, <2>2, <3>2, <3>3, RecvAckCheckWatches
    <2> QED BY <2>1, <2>4, <2>5
  <1>8. CASE \E p \in Peers : OnlyWrites(p)
    BY Zenon, <1>1, <1>8, OnlyWritesFrame
  <1>9. CASE \E p \in Peers : SendAckTimeout(p) \/ SendKeepAlive(p)
    <2>1. UNCHANGED watchVars
      BY Zenon, <1>9 DEF watchVars, SendAckTimeout, SendKeepAlive, sendVars, timerVars,
                         eventVars
    <2> QED BY <1>1, <2>1
  <1>10. CASE UNCHANGED vars
    BY Zenon, <1>1, <1>10 DEF vars, watchVars, sendVars, timerVars, eventVars
  <1> QED BY Zenon, <1>2, <1>3, <1>4, <1>5, <1>6, <1>7, <1>8, <1>9, <1>10, OtherSteps

\* The conjunct of AckIsScheduled about one peer.
Owed(p) == incomingMsgId[p] > incomingAckId[p] => incomingAckTimeout[p] \/ ~keepAliveInterval[p]

\* A step of p keeps acknowledgements scheduled if it keeps that of p.
LEMMA OwedStep ==
    ASSUME AckIsScheduled, NEW p \in Peers, Owed(p)',
           \A x \in Peers \ {p} : UNCHANGED <<incomingMsgId[x], incomingAckId[x],
                                              incomingAckTimeout[x], keepAliveInterval[x]>>
    PROVE  AckIsScheduled'
  <1>1. \A x \in Peers : Owed(x)
    BY DEF AckIsScheduled, Owed
  <1>2. ASSUME NEW x \in Peers, x # p PROVE Owed(x)'
    BY <1>1, <1>2 DEF Owed
  <1> QED BY <1>2 DEF AckIsScheduled, Owed

\* Every step keeps an acknowledgement scheduled while one is owed.
LEMMA AckIsScheduledStep ==
    ASSUME IInv, AckIsScheduled, [Next]_vars
    PROVE  AckIsScheduled'
  <1>0. /\ incomingMsgId \in [Peers -> Nat] /\ incomingAckId \in [Peers -> Nat]
        /\ incomingAckTimeout \in [Peers -> BOOLEAN]
        /\ keepAliveInterval \in [Peers -> BOOLEAN]
    BY DEF IInv, TypeOK
  <1>1. CASE UNCHANGED owedVars
    BY <1>1 DEF owedVars, AckIsScheduled
  <1>2. CASE Environment
    BY Zenon, <1>1, <1>2, EnvironmentFrame
  <1>3. ASSUME NEW p \in Peers,
               incomingAckId' = [incomingAckId EXCEPT ![p] = incomingMsgId[p]],
               UNCHANGED <<incomingMsgId, keepAliveInterval>>,
               \A x \in Peers \ {p} : UNCHANGED incomingAckTimeout[x]
        PROVE  AckIsScheduled'
    <2>1. Owed(p)'
      BY <1>0, <1>3 DEF Owed
    <2> QED BY <1>0, <1>3, <2>1, OwedStep
  <1>4. CASE \E p \in Peers : \/ \E d \in Data : Send(p, d)
                              \/ EndAcceptReconnection(p) \/ SendKeepAlive(p)
    <2>1. PICK p \in Peers :
            /\ incomingAckId' = [incomingAckId EXCEPT ![p] = incomingMsgId[p]]
            /\ UNCHANGED <<incomingMsgId, keepAliveInterval, incomingAckTimeout>>
      BY Zenon, <1>4 DEF Send, EndAcceptReconnection, SendKeepAlive, timerVars
    <2> QED BY Zenon, <1>3, <2>1
  <1>5. ASSUME NEW p \in Peers, SendAckTimeout(p) PROVE AckIsScheduled'
    <2>1. /\ incomingAckTimeout' = [incomingAckTimeout EXCEPT ![p] = FALSE]
          /\ UNCHANGED <<incomingMsgId, keepAliveInterval>>
      BY Zenon, <1>5 DEF SendAckTimeout
    <2>2. CASE AckDue(p, incomingMsgId[p])
      <3>1. incomingAckId' = [incomingAckId EXCEPT ![p] = incomingMsgId[p]]
        BY Zenon, <1>5, <2>2 DEF SendAckTimeout
      <3> QED BY Zenon, <1>0, <1>3, <2>1, <3>1
    <2>3. CASE ~AckDue(p, incomingMsgId[p])
      <3>1. UNCHANGED incomingAckId
        BY Zenon, <1>5, <2>3 DEF SendAckTimeout
      <3>2. Owed(p)'
        BY <1>0, <2>1, <2>3, <3>1 DEF Owed, AckDue
      <3> QED BY Zenon, <1>0, <2>1, <3>1, <3>2, OwedStep
    <2> QED BY <2>2, <2>3
  <1>6. ASSUME NEW p \in Peers, Dispose(p) PROVE AckIsScheduled'
    <2>1. /\ incomingAckTimeout' = [incomingAckTimeout EXCEPT ![p] = FALSE]
          /\ keepAliveInterval' = [keepAliveInterval EXCEPT ![p] = FALSE]
          /\ UNCHANGED <<incomingMsgId, incomingAckId>>
      BY Zenon, <1>6 DEF Dispose, recvVars
    <2>2. Owed(p)'
      BY <1>0, <2>1 DEF Owed
    <2> QED BY Zenon, <1>0, <2>1, <2>2, OwedStep
  <1>7. ASSUME NEW p \in Peers, ReceiveMessage(p) PROVE AckIsScheduled'
    <2>1. PICK type \in Types :
            /\ Receive(p, type)
            /\ ReceiveNext(p) \/ UNCHANGED <<recvVars, incomingAckTimeout>>
      BY Zenon, <1>7, ReceiveHandlers
    <2>2. UNCHANGED keepAliveInterval
      BY Zenon, <2>1 DEF Receive
    <2>3. CASE UNCHANGED <<recvVars, incomingAckTimeout>>
      BY Zenon, <1>1, <2>2, <2>3 DEF owedVars, recvVars
    <2>4. CASE ReceiveNext(p)
      <3> DEFINE m == Head(Incoming(p))
      <3>1. /\ incomingMsgId' = [incomingMsgId EXCEPT ![p] = m.id]
            /\ incomingAckTimeout' = [incomingAckTimeout EXCEPT ![p] = @ \/ AckDue(p, m.id)]
            /\ UNCHANGED incomingAckId
        BY Zenon, <2>4 DEF ReceiveNext
      <3> HIDE DEF m
      <3>2. /\ incomingMsgId'[p] = m.id
            /\ incomingAckTimeout'[p] <=> incomingAckTimeout[p] \/ AckDue(p, m.id)
        BY Zenon, <1>0, <3>1 DEF AckDue
      <3>3. Owed(p)'
        BY <3>1, <3>2 DEF Owed, AckDue
      <3> QED BY <1>0, <2>2, <3>1, <3>3, OwedStep
    <2> QED BY <2>1, <2>3, <2>4
  <1>8. CASE \E p \in Peers : OnlyWrites(p)
    BY Zenon, <1>1, <1>8, OnlyWritesFrame
  <1>9. CASE (\E p \in Peers : RecvAckTimeout(p)) \/ UNCHANGED vars
    BY Zenon, <1>1, <1>9 DEF RecvAckTimeout, vars, recvVars, timerVars, owedVars
  <1> QED BY Zenon, <1>2, <1>4, <1>5, <1>6, <1>7, <1>8, <1>9, OtherSteps

\* The conjunct of BufferIsScheduled about one peer.
Scheduled(p) == data[p] # <<>> /\ ~paused[p] => writeNowTimeout[p]

\* The writer of p after a step that leaves the other writer alone.
LEMMA ScheduledStep ==
    ASSUME BufferIsScheduled, NEW p \in Peers, Scheduled(p)',
           \A x \in Peers \ {p} : UNCHANGED <<data[x], paused[x], writeNowTimeout[x]>>
    PROVE  BufferIsScheduled'
  <1>1. \A x \in Peers : Scheduled(x)
    BY DEF BufferIsScheduled, Scheduled
  <1>2. ASSUME NEW x \in Peers, x # p PROVE Scheduled(x)'
    BY <1>1, <1>2 DEF Scheduled
  <1> QED BY <1>2 DEF BufferIsScheduled, Scheduled

\* write() schedules what it buffers.
LEMMA WriteSchedules ==
    ASSUME TypeOK, BufferIsScheduled, NEW p \in Peers, NEW ms, Write(p, ms), UNCHANGED paused
    PROVE  BufferIsScheduled'
  <1>0. /\ data \in [Peers -> Seq(Msg)] /\ writeNowTimeout \in [Peers -> BOOLEAN]
        /\ paused \in [Peers -> BOOLEAN] /\ disposed \in [Peers -> BOOLEAN]
    BY DEF TypeOK
  <1>1. /\ \A x \in Peers \ {p} : UNCHANGED <<data[x], writeNowTimeout[x]>>
        /\ data'[p] = IF disposed[p] THEN data[p] ELSE data[p] \o Headers(ms)
        /\ writeNowTimeout'[p] <=>
             writeNowTimeout[p] \/ (~disposed[p] /\ data[p] = <<>> /\ ms # <<>>)
    BY Zenon, <1>0 DEF Write
  <1>2. Scheduled(p)
    BY DEF BufferIsScheduled, Scheduled
  <1>3. Scheduled(p)'
    <2>1. CASE disposed[p] \/ data[p] # <<>>
      BY <1>1, <1>2, <2>1 DEF Scheduled
    <2>2. CASE ~disposed[p] /\ data[p] = <<>> /\ ms = <<>>
      BY <1>1, <2>2 DEF Scheduled, Headers
    <2>3. CASE ~disposed[p] /\ data[p] = <<>> /\ ms # <<>>
      BY <1>1, <2>3 DEF Scheduled
    <2> QED BY <2>1, <2>2, <2>3
  <1> QED BY <1>1, <1>3, ScheduledStep

\* Every step keeps what is buffered scheduled.
LEMMA BufferIsScheduledStep ==
    ASSUME IInv, BufferIsScheduled, [Next]_vars
    PROVE  BufferIsScheduled'
  <1>0. /\ TypeOK
        /\ data \in [Peers -> Seq(Msg)] /\ paused \in [Peers -> BOOLEAN]
        /\ writeNowTimeout \in [Peers -> BOOLEAN]
    BY DEF IInv, TypeOK
  <1>1. CASE UNCHANGED writerVars
    BY <1>1 DEF writerVars, BufferIsScheduled
  <1>2. ASSUME NEW p \in Peers, NEW ms, Write(p, ms), UNCHANGED paused
        PROVE  BufferIsScheduled'
    BY Zenon, <1>0, <1>2, WriteSchedules
  <1>3. ASSUME NEW p \in Peers, UNCHANGED <<paused, writeNowTimeout>>,
               data' = [data EXCEPT ![p] = IF paused[p] THEN @ ELSE <<>>]
        PROVE  BufferIsScheduled'
    BY <1>0, <1>3 DEF BufferIsScheduled
  <1>4. ASSUME NEW p \in Peers, OnlyWrites(p) PROVE BufferIsScheduled'
    <2>1. CASE \/ \E x \in Controls : SendControl(p, x)
               \/ SendPause(p) \/ SendResume(p)
      BY Zenon, <1>2, <2>1 DEF SendControl, SendPause, SendResume, SendFrame
    <2>2. CASE PauseSocketWriting(p)
      BY <1>0, <2>2 DEF PauseSocketWriting, BufferIsScheduled
    <2>3. CASE AcceptDisconnect(p) \/ SocketClose(p)
      BY Zenon, <1>1, <2>3 DEF AcceptDisconnect, SocketClose
    <2>4. CASE Flush(p)
      BY <1>0, <2>4 DEF Flush, BufferIsScheduled
    <2>5. CASE WriteNow(p)
      BY <1>0, <2>5 DEF WriteNow, BufferIsScheduled
    <2>6. CASE SendDisconnect(p)
      <3>1. CASE disposed[p]
        BY Zenon, <1>1, <2>6, <3>1 DEF SendDisconnect, writerVars
      <3>2. CASE ~disposed[p]
        <4>1. /\ data' = [data EXCEPT ![p] = IF paused[p] THEN WithDisconnect(p) ELSE <<>>]
              /\ writeNowTimeout' = [writeNowTimeout EXCEPT ![p] = @ \/ data[p] = <<>>]
              /\ UNCHANGED paused
          BY Zenon, <2>6, <3>2 DEF SendDisconnect
        <4> QED BY <1>0, <4>1 DEF BufferIsScheduled
      <3> QED BY <3>1, <3>2
    <2> QED BY Zenon, <1>4, <2>1, <2>2, <2>3, <2>4, <2>5, <2>6 DEF OnlyWrites
  <1>5. ASSUME NEW p \in Peers, NEW c, BeginAcceptReconnection(p, c) PROVE BufferIsScheduled'
    BY <1>0, <1>5 DEF BeginAcceptReconnection, BufferIsScheduled
  <1>6. CASE Environment
    <2>1. CASE ClientReconnects \/ \E c \in Sockets : ServerReconnects(c)
      BY Zenon, <1>5, <2>1 DEF ClientReconnects, ServerReconnects, Peers
    <2>2. CASE ~(ClientReconnects \/ \E c \in Sockets : ServerReconnects(c))
      BY Zenon, <1>1, <1>6, <2>2 DEF Environment, HandshakeRead, SocketBreaks, LoseTail, Drop,
                                     Silence, ReplayAllowed, endpointVars
    <2> QED BY <2>1, <2>2
  <1>7. ASSUME NEW p \in Peers, Dispose(p) PROVE BufferIsScheduled'
    BY Zenon, <1>3, <1>7 DEF Dispose
  <1>8. ASSUME NEW p \in Peers, ReceiveMessage(p) PROVE BufferIsScheduled'
    <2>1. CASE UNCHANGED writerVars
      BY <1>1, <2>1
    <2>2. CASE ReceiveGap(p)
      BY Zenon, <1>1, <1>2, <2>2 DEF ReceiveGap, writerVars
    <2>3. CASE ReceiveReplayRequest(p)
      BY Zenon, <1>2, <2>3 DEF ReceiveReplayRequest
    <2>4. CASE ReceiveResume(p)
      BY <1>0, <2>4 DEF ReceiveResume, BufferIsScheduled
    <2>5. CASE ReceivePause(p)
      BY <1>0, <2>5 DEF ReceivePause, BufferIsScheduled
    <2> QED BY Zenon, <1>8, <2>1, <2>2, <2>3, <2>4, <2>5, ReceiveHandlers
  <1>9. CASE \E p \in Peers : \/ \E d \in Data : Send(p, d)
                              \/ EndAcceptReconnection(p)
                              \/ SendKeepAlive(p) \/ SendAckTimeout(p)
    BY Zenon, <1>1, <1>2, <1>9
       DEF Send, EndAcceptReconnection, SendKeepAlive, SendAckTimeout, writerVars
  <1>10. CASE (\E p \in Peers : RecvAckTimeout(p)) \/ UNCHANGED vars
    BY Zenon, <1>1, <1>10 DEF RecvAckTimeout, vars
  <1> QED BY Zenon, <1>4, <1>6, <1>7, <1>8, <1>9, <1>10, OtherSteps

\* Whatever messages, reconnections and timeouts happen, a message that is not
\* acknowledged is watched by the timer of _recvAckCheck(), and an acknowledgement
\* that is owed has the timer of _sendAckCheck() armed.
THEOREM TimersStayArmed == Spec => []TimersAreArmed
  <1>1. Init => IInv /\ TimersAreArmed
    <2>1. Init => TimersAreArmed
      BY DEF Init, TimersAreArmed, UnackIsWatched, AckIsScheduled
    <2> QED BY <2>1, InitIInv
  <1>2. IInv /\ TimersAreArmed /\ [Next]_vars => (IInv /\ TimersAreArmed)'
    BY Zenon, NextIInv, UnackIsWatchedStep, AckIsScheduledStep DEF TimersAreArmed
  <1> QED BY <1>1, <1>2, PTL DEF Spec

\* With Pause, Resume, pauseSocketWriting() and flush() in any order, what
\* ProtocolWriter buffers is going to be written unless it is paused.
THEOREM WritingStaysScheduled == Spec => []BufferIsScheduled
  <1>1. Init => IInv /\ BufferIsScheduled
    <2>1. Init => BufferIsScheduled
      BY DEF Init, BufferIsScheduled
    <2> QED BY <2>1, InitIInv
  <1>2. IInv /\ BufferIsScheduled /\ [Next]_vars => (IInv /\ BufferIsScheduled)'
    BY Zenon, NextIInv, BufferIsScheduledStep
  <1> QED BY <1>1, <1>2, PTL DEF Spec

-----------------------------------------------------------------------------
(* The flow of messages while open sockets lose nothing.                   *)

\* Every step of the program keeps the flow invariant.
LEMMA FlowStep == IInv /\ FlowInv /\ [Next]_vars => FlowInv'
  <1> SUFFICES ASSUME IInv, FlowInv, [Next]_vars PROVE FlowInv'
    BY Zenon
  <1> USE DEF disconnectVars, sendVars, recvVars, timerVars, writerVars, eventVars,
              socketVars, netVars
  <1>1. ASSUME NEW p \in Peers,
               \/ PauseSocketWriting(p) \/ AcceptDisconnect(p) \/ SocketClose(p)
               \/ RecvAckTimeout(p) \/ UNCHANGED vars
        PROVE  FlowInv'
    <2>1. UNCHANGED <<wire, data, socket, opened, taken, isReconnecting, didSendDisconnect,
                      farewell, incomingMsgId, incomingAckId, outgoingMsgId, outgoingAckId,
                      disposed, drops, open>>
      BY Zenon, <1>1 DEF PauseSocketWriting, AcceptDisconnect, SocketClose, RecvAckTimeout, vars
    <2>2. open' \subseteq open
      BY Zenon, <2>1
    <2> QED BY Zenon, <2>1, <2>2, QuietFlow
  <1>2. ASSUME NEW p \in Peers, OnlyWrites(p) PROVE FlowInv'
    BY Zenon, <1>1, <1>2, PlainFlow, EmptyingFlow, DisconnectFlow DEF OnlyWrites
  <1> QED BY Zenon, <1>1, <1>2, OtherSteps, EnvironmentFlow, PlainFlow, EmptyingFlow, EndFlow,
             SendFlow, ReceiveFlow DEF Peers

-----------------------------------------------------------------------------
(* The theorems.                                                           *)

\* Nothing is under way at the start: the flow invariant holds.
LEMMA InitFlow == Init => FlowInv
  <1> SUFFICES ASSUME Init PROVE FlowInv
    BY Zenon
  <1>0. MaxSockets \in Nat /\ 1 \in Sockets
    BY BoundsAssumption DEF Sockets
  <1>1. SocketsAgree
    BY DEF Init, SocketsAgree, Peers
  <1>2. ASSUME NEW x \in Peers PROVE Sender(x) /\ UnderWay(x)
    <2>1. /\ data[x] = <<>> /\ socket[x] = 1 /\ \A c \in Sockets : wire[c][x] = <<>>
          /\ Other(x) \in Peers
      BY Zenon DEF Init, Peers, Other
    <2>2. Pipeline(x) = <<>>
      BY <1>0, <2>1 DEF Pipeline
    <2>3. incomingMsgId[Other(x)] = 0 /\ outgoingMsgId[x] = 0
          /\ incomingAckId[x] = 0 /\ outgoingAckId[Other(x)] = 0 /\ ~isReconnecting[x]
      BY Zenon, <2>1 DEF Init
    <2>4. \A inc, f, t : Orderly(<<>>, inc, f) /\ NoneOf(<<>>, t)
      BY DEF Orderly, NoneOf
    <2>5. Sender(x)
      BY Zenon, <2>1, <2>2, <2>3, <2>4 DEF Sender
    <2>6. UnderWay(x)
      BY <2>3 DEF UnderWay
    <2> QED BY Zenon, <2>5, <2>6
  <1> QED BY Zenon, <1>1, <1>2 DEF FlowInv

\* What a peer lacks is in the pipeline, as the two properties say it.
LEMMA FlowIsUnderWay ==
    ASSUME IInv, FlowInv
    PROVE  UndeliveredIsUnderWay /\ AckIsUnderWay
  <1>1. ASSUME NEW p \in Peers, Connected(p)
        PROVE  /\ \A k \in incomingMsgId[Other(p)] + 1 .. outgoingMsgId[p] :
                     \E i \in DOMAIN Pipeline(p) :
                        Pipeline(p)[i].type = "Regular" /\ Pipeline(p)[i].id = k
               /\ \/ outgoingAckId[Other(p)] >= incomingAckId[p]
                  \/ \E i \in DOMAIN Pipeline(p) : Pipeline(p)[i].ack >= incomingAckId[p]
    <2>1. UnderWay(p)
      BY Zenon, <1>1 DEF FlowInv, Connected
    <2>2. DOMAIN Pipeline(p) = 1..Len(Pipeline(p))
      BY FlowTypes
    <2> QED BY Zenon, <1>1, <2>1, <2>2 DEF UnderWay, Carries, IsMessage, Acks
  <1> QED BY Zenon, <1>1 DEF UndeliveredIsUnderWay, AckIsUnderWay

\* The next frame is no gap, and no Disconnect that is early.
LEMMA FlowIsInOrder ==
    ASSUME IInv, FlowInv
    PROVE  NoGapWithoutDrops /\ DisconnectComesLast
  <1>1. ASSUME drops = 0, NEW p \in Peers, Incoming(p) # <<>>
        PROVE  /\ Head(Incoming(p)).type = "Regular" =>
                     Head(Incoming(p)).id <= incomingMsgId[p] + 1
               /\ Head(Incoming(p)).type = "Disconnect" =>
                     Len(delivered[p]) >= farewell[Other(p)]
    <2> DEFINE x == Other(p)
               q == Incoming(p)
               inc == incomingMsgId[p]
               f == farewell[x]
    <2>1. x \in Peers /\ Other(x) = p /\ socket[p] \in Sockets /\ inc \in Nat
      BY Zenon, FlowTypes
    <2>2. q \in Seq(Msg) /\ q # <<>> /\ f \in Nat /\ q = wire[socket[p]][x]
      BY Zenon, <1>1, <2>1, FlowTypes DEF Incoming
    <2>3. Orderly(q, inc, f)
      BY Zenon, <1>1, <2>1, <2>2 DEF FlowInv, Sender
    <2>4. Len(delivered[p]) = inc
      BY Zenon DEF IInv, CountersAgree
    <2> HIDE DEF x, q, inc, f
    <2>5. 1 \in 1..Len(q) /\ Head(q) = q[1] /\ 1..(1 - 1) = {}
      BY <2>2
    <2>6. q[1].type = "Regular" => q[1].id <= inc + 1
      BY Zenon, <2>3, <2>5 DEF Orderly
    <2>7. q[1].type = "Disconnect" => \A k \in 1..f : k <= inc
      BY Zenon, <2>3, <2>5 DEF Orderly
    <2>8. (\A k \in 1..f : k <= inc) => inc >= f
      BY <2>1, <2>2
    <2> QED BY Zenon, <2>4, <2>5, <2>6, <2>7, <2>8 DEF x, q, inc, f
  <1> QED BY Zenon, <1>1 DEF NoGapWithoutDrops, DisconnectComesLast

\* The invariant holds in every state.
LEMMA FlowHolds == Spec => [](IInv /\ FlowInv)
  <1>1. Init => IInv /\ FlowInv
    BY Zenon, InitIInv, InitFlow
  <1>2. IInv /\ FlowInv /\ [Next]_vars => (IInv /\ FlowInv)'
    BY Zenon, NextIInv, FlowStep
  <1> QED BY <1>1, <1>2, PTL DEF Spec

\* Whatever sockets break, and whenever the server accepts which of them: once
\* both peers use the same socket and p has ended its reconnection, every
\* message the other peer lacks, and the latest acknowledgement, is in the
\* buffer of p's ProtocolWriter or on that socket.
THEOREM NothingIsLeftBehind == Spec => []EverythingIsUnderWay
  <1>1. IInv /\ FlowInv => EverythingIsUnderWay
    BY Zenon, FlowIsUnderWay DEF EverythingIsUnderWay
  <1> QED BY <1>1, FlowHolds, PTL

\* onMessage fires, in order and once, the messages of the other peer, and no
\* peer sees a gap while no socket loses a frame: the replay request is there
\* for sockets that do, not for reconnections.
THEOREM DeliveryStaysExact == Spec => []DeliveryIsExact
  <1>1. IInv /\ FlowInv => DeliveryIsExact
    BY Zenon, FlowIsInOrder DEF DeliveryIsExact, IInv
  <1> QED BY <1>1, FlowHolds, PTL

\* Buffered frames are going to be written unless writing is paused, and an
\* acknowledgement the other peer lacks is under way, after any calls of
\* sendPause(), sendResume(), pauseSocketWriting(), flush() and dispose().
THEOREM TheFlowGoesOn == Spec => []FlowGoesOn
  <1>1. IInv /\ FlowInv /\ BufferIsScheduled => FlowGoesOn
    BY Zenon, FlowIsUnderWay DEF FlowGoesOn
  <1> QED BY <1>1, FlowHolds, WritingStaysScheduled, PTL

\* A peer that reads the Disconnect of the other one has delivered all the
\* messages that were sent before sendDisconnect() outside a reconnection.
THEOREM DisconnectIsLast == Spec => []DisconnectComesLast
  <1>1. IInv /\ FlowInv => DisconnectComesLast
    BY Zenon, FlowIsInOrder
  <1> QED BY <1>1, FlowHolds, PTL


=============================================================================
