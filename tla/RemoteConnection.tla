-------------------------- MODULE RemoteConnection --------------------------
(***************************************************************************)
(* How a window connects and reconnects to a remote server: the loops of   *)
(* platform/remote/common/remoteAgentConnection.ts, the handshake of       *)
(* server/node/remoteExtensionHostAgentServer.ts and the grace timers of   *)
(* server/node/remoteExtensionManagement.ts.                               *)
(*                                                                         *)
(* A connection of the window is a PersistentConnection, of the type       *)
(* Management or ExtensionHost.  A connection of the server is known by    *)
(* its reconnection token, which is modelled by the number of the socket   *)
(* it was first connected with.  (The timers of an extension host run in   *)
(* its own process, with the same code as those of ManagementConnection.)  *)
(*                                                                         *)
(* Of the PersistentProtocol under a connection only its socket, its       *)
(* _isReconnecting and the buffer of its onControlMessage are kept; see    *)
(* PersistentProtocol.tla for the rest.                                    *)
(***************************************************************************)
EXTENDS Naturals, Sequences

CONSTANTS
    Management,      \* connections of the window of type Management,
    ExtensionHosts,  \* and of type ExtensionHost
    Calls,           \* the optional events
    MaxSockets,      \* bound: sockets opened
    MAX_ATTEMPTS,    \* attempts of an initial connection, 5
    MaxRetries       \* attempts of a reconnection, 361

Conns == Management \cup ExtensionHosts
Sockets == 1..MaxSockets
NoSocket == 0

ASSUME ConnectionAssumption ==
    /\ Management \cap ExtensionHosts = {}
    /\ MaxSockets \in Nat
    /\ MAX_ATTEMPTS \in Nat \ {0}
    /\ MaxRetries \in Nat

VARIABLES
    \* the window
    permanentFailure, \* PersistentConnection._permanentFailure
    instances,        \* PersistentConnection._instances
    initial,          \* createInitialConnection() has not returned yet
    loop,             \* where the loop of createInitialConnection() or of
                      \* _beginReconnecting() is; "idle": _isReconnecting is false
    attempt,
    farewell,         \* its owner has said goodbye and is about to dispose it
    isDisposed,
    event,            \* the last event of onDidStateChange
    socket,           \* the protocol: its socket,
    isReconnecting,   \* whether it is between begin- and endAcceptReconnection,
    isProtocolDisposed,
    controlBuffer,    \* what onControlMessage has buffered,
    closeSeen,        \* and whether it has fired onSocketClose
    token,            \* the reconnection token
    \* the sockets
    opened, owner, tokenOf, up, toServer, toClient,
    \* the server
    handshake,        \* state of the handshake on a socket
    conn,             \* whether a token is known, and connected
    serverSocket,     \* its protocol: its socket,
    serverCloseSeen,  \* and whether it has fired onSocketClose
    disconnectRunner1, disconnectRunner2,
    accepted          \* the sockets that were accepted so far

windowVars == <<permanentFailure, instances, initial, loop, attempt, farewell,
                isDisposed, event>>
protocolVars == <<socket, isReconnecting, isProtocolDisposed, controlBuffer,
                  closeSeen, token>>
netVars == <<opened, owner, tokenOf, up, toServer, toClient>>
serverVars == <<handshake, conn, serverSocket, serverCloseSeen,
                disconnectRunner1, disconnectRunner2, accepted>>
vars == <<windowVars, protocolVars, netVars, serverVars>>

Init ==
    /\ permanentFailure = FALSE
    /\ instances = <<>>
    /\ initial = [k \in Conns |-> TRUE]
    /\ loop = [k \in Conns |-> "resolving"]
    /\ attempt = [k \in Conns |-> 1]
    /\ farewell = [k \in Conns |-> FALSE]
    /\ isDisposed = [k \in Conns |-> FALSE]
    /\ event = [k \in Conns |-> "None"]
    /\ socket = [k \in Conns |-> NoSocket]
    /\ isReconnecting = [k \in Conns |-> FALSE]
    /\ isProtocolDisposed = [k \in Conns |-> FALSE]
    /\ controlBuffer = [k \in Conns |-> <<>>]
    /\ closeSeen = [k \in Conns |-> FALSE]
    /\ token = [k \in Conns |-> NoSocket]
    /\ opened = 0
    /\ owner = <<>>
    /\ tokenOf = <<>>
    /\ up = {}
    /\ toServer = [s \in Sockets |-> <<>>]
    /\ toClient = [s \in Sockets |-> <<>>]
    /\ handshake = [s \in Sockets |-> "WaitingForAuth"]
    /\ conn = [t \in Sockets |-> "unknown"]
    /\ serverSocket = [t \in Sockets |-> NoSocket]
    /\ serverCloseSeen = [t \in Sockets |-> FALSE]
    /\ disconnectRunner1 = [t \in Sockets |-> FALSE]
    /\ disconnectRunner2 = [t \in Sockets |-> FALSE]
    /\ accepted = {}

\* A message written to a socket that is gone disappears.
Sent(q, s, m) == IF s \in up THEN [q EXCEPT ![s] = Append(@, m)] ELSE q

-----------------------------------------------------------------------------
(* The window gives up.                                                    *)

\* dispose() of the connections of ks.
Disposed(ks) ==
    /\ isDisposed' = [k \in Conns |-> isDisposed[k] \/ k \in ks]
    /\ instances' = SelectSeq(instances, LAMBDA k : k \notin ks)

\* The sockets of the connections of ks.
SocketsOf(ks) == {socket[k] : k \in ks}

\* The Client of a Management connection is disposed with it and says goodbye,
\* if its owner has not.  A connection that fails as it is made has no owner yet
\* that would dispose it before its protocol.
Farewells(ks) ==
    LET quiet == {k \in ks \cap Management :
                     ~initial[k] /\ ~farewell[k] /\ ~isProtocolDisposed[k]}
    IN  [s \in Sockets |-> IF s \in up \cap SocketsOf(quiet)
                           THEN Append(toServer[s], "disconnect") ELSE toServer[s]]

\* dispose() of the Management connections of ks: their protocols are disposed
\* and their sockets end.
ClientDisposed(ks) ==
    /\ Disposed(ks)
    /\ toServer' = Farewells(ks)
    /\ isProtocolDisposed' = [k \in Conns |-> isProtocolDisposed[k] \/ k \in ks]
    /\ up' = up \ SocketsOf(ks)

\* _gotoPermanentFailure() of the connections of ks: they report it, the owner of
\* a Management connection disposes it (the others are left to their owner), and
\* their protocols and sockets are disposed.
GotoPermanentFailure(ks) ==
    /\ event' = [k \in Conns |-> IF k \in ks /\ ~isDisposed[k]
                                 THEN "PermanentFailure" ELSE event[k]]
    /\ Disposed(ks \cap Management)
    /\ toServer' = Farewells(ks)
    /\ isProtocolDisposed' = [k \in Conns |-> isProtocolDisposed[k] \/ k \in ks]

\* The instances that triggerPermanentFailure() reaches.  A Management
\* connection leaves _instances while forEach() is there, which so passes over
\* the one that follows it.
Reached ==
    LET reached[i \in DOMAIN instances] ==
            i = 1 \/ ~reached[i - 1] \/ instances[i - 1] \notin Management
    IN  {instances[i] : i \in {j \in DOMAIN instances : reached[j]}}

\* _onReconnectionPermanentFailure(): a failure of a Management connection is
\* one of every connection of the window.
OnReconnectionPermanentFailure(k) ==
    LET ks == IF k \in Management THEN Reached ELSE {k}
    IN  /\ permanentFailure' = (permanentFailure \/ k \in Management)
        /\ GotoPermanentFailure(ks)
        /\ up' = up \ SocketsOf(ks)

-----------------------------------------------------------------------------
(* What follows an error.                                                  *)

\* createInitialConnection(): the protocol of the attempt is disposed, and
\* there is another attempt, or none.
InitialAttemptFails(k) ==
    /\ initial[k]
    /\ socket' = [socket EXCEPT ![k] = NoSocket]
    /\ IF attempt[k] < MAX_ATTEMPTS
       THEN /\ attempt' = [attempt EXCEPT ![k] = @ + 1]
            /\ loop' = [loop EXCEPT ![k] = "resolving"]
            /\ up' = up \ {socket[k]}
            /\ UNCHANGED <<permanentFailure, instances, event, isDisposed,
                           isProtocolDisposed, toServer>>
       ELSE /\ loop' = [loop EXCEPT ![k] = "failed"]
            /\ permanentFailure' = TRUE
            /\ GotoPermanentFailure(Reached)
            /\ up' = up \ SocketsOf(Reached \cup {k})
            /\ UNCHANGED attempt
    /\ UNCHANGED <<initial, farewell, isReconnecting, closeSeen, token>>

MutantWaitsAgain(k) == FALSE

\* The condition of the loop.
WaitsAgain(k) == ~permanentFailure /\ ~isDisposed[k]

\* _runReconnectingLoop(): a network error, a timeout or a resolver that is
\* temporarily not available is tried again later, any other error is
\* permanent, and so is one after too many attempts.
ReconnectionAttemptFails(k, temporary) ==
    /\ ~initial[k]
    /\ IF ~temporary \/ attempt[k] >= MaxRetries
       THEN /\ loop' = [loop EXCEPT ![k] = "idle"]
            /\ OnReconnectionPermanentFailure(k)
            /\ UNCHANGED attempt
       ELSE /\ IF WaitsAgain(k)
               THEN /\ loop' = [loop EXCEPT ![k] = "waiting"]
                    /\ attempt' = [attempt EXCEPT ![k] = @ + 1]
                    /\ event' = [event EXCEPT ![k] = "Wait"]
               ELSE /\ loop' = [loop EXCEPT ![k] = "idle"]
                    /\ UNCHANGED <<attempt, event>>
            /\ UNCHANGED <<permanentFailure, instances, isDisposed,
                           isProtocolDisposed, up, toServer>>
    /\ UNCHANGED <<initial, farewell, socket, isReconnecting, closeSeen, token>>

AttemptFails(k, temporary) ==
    InitialAttemptFails(k) \/ ReconnectionAttemptFails(k, temporary)

-----------------------------------------------------------------------------
(* The loop of a reconnection.                                             *)

\* _beginReconnecting(), also when the loop is already running or over.
BeginReconnecting(k) ==
    /\ IF loop[k] = "idle" /\ ~permanentFailure /\ ~isDisposed[k]
       THEN /\ loop' = [loop EXCEPT ![k] = "resolving"]
            /\ attempt' = [attempt EXCEPT ![k] = 0]
            /\ event' = [event EXCEPT ![k] = "Running"]
       ELSE UNCHANGED <<loop, attempt, event>>
    /\ UNCHANGED <<permanentFailure, instances, initial, farewell, isDisposed>>

\* The close event of the socket, after its last data.
SocketClose(k) ==
    /\ socket[k] # NoSocket
    /\ socket[k] \notin up
    /\ toClient[socket[k]] = <<>>
    /\ ~closeSeen[k] /\ ~isProtocolDisposed[k]
    /\ closeSeen' = [closeSeen EXCEPT ![k] = TRUE]
    /\ IF initial[k] \/ isDisposed[k] THEN UNCHANGED windowVars
                                      ELSE BeginReconnecting(k)
    /\ UNCHANGED <<socket, isReconnecting, isProtocolDisposed, controlBuffer,
                   token, netVars, serverVars>>

\* onSocketTimeout: no answer for 20s.  A message sent after dispose() brings
\* it about, too.
SocketTimeout(k) ==
    /\ ~initial[k] /\ ~isDisposed[k]
    /\ ~isReconnecting[k]
    /\ BeginReconnecting(k)
    /\ UNCHANGED <<protocolVars, netVars, serverVars>>

MutantGaveUp(k) == FALSE

\* What the loop checks after a wait.
GaveUp(k) == permanentFailure

\* The wait is over, or the user has cancelled it.
WaitOver(k) ==
    /\ loop[k] = "waiting"
    /\ IF GaveUp(k)
       THEN /\ loop' = [loop EXCEPT ![k] = "idle"]
            /\ UNCHANGED event
       ELSE /\ loop' = [loop EXCEPT ![k] = "resolving"]
            /\ event' = [event EXCEPT ![k] = IF isDisposed[k] THEN @ ELSE "Running"]
    /\ UNCHANGED <<permanentFailure, instances, initial, attempt, farewell, isDisposed,
                   protocolVars, netVars, serverVars>>

-----------------------------------------------------------------------------
(* One attempt: the client's side of the handshake.                        *)

\* resolveConnectionOptions()
Resolved(k) ==
    /\ loop[k] = "resolving"
    /\ loop' = [loop EXCEPT ![k] = "connecting"]
    /\ UNCHANGED <<permanentFailure, instances, initial, attempt, farewell, isDisposed, event,
                   protocolVars, netVars, serverVars>>

\* The address is not resolved, or the socket not connected.
ConnectFails(k) ==
    /\ loop[k] \in {"resolving", "connecting"}
    /\ \E temporary \in (IF "error" \in Calls THEN BOOLEAN ELSE {TRUE}) :
          AttemptFails(k, temporary)
    /\ UNCHANGED <<controlBuffer, opened, owner, tokenOf, toClient, serverVars>>

MutantFlushedBuffer(k) == controlBuffer[k]

\* beginAcceptReconnection() forgets what an earlier attempt has received.
FlushedBuffer(k) == <<>>

\* createSocket() succeeds: a new protocol, or the old one with a new socket,
\* sends the AuthRequest.
Connected(k) ==
    LET s == opened + 1
    IN  /\ loop[k] = "connecting"
        /\ opened < MaxSockets
        /\ opened' = s
        /\ owner' = Append(owner, k)
        /\ tokenOf' = Append(tokenOf, IF initial[k] THEN s ELSE token[k])
        /\ up' = (up \ {socket[k]}) \cup {s}
        /\ toServer' = [toServer EXCEPT ![s] = <<"auth">>]
        /\ socket' = [socket EXCEPT ![k] = s]
        /\ isReconnecting' = [isReconnecting EXCEPT ![k] = ~initial[k]]
        /\ isProtocolDisposed' = [isProtocolDisposed EXCEPT ![k] = FALSE]
        /\ controlBuffer' = [controlBuffer EXCEPT ![k] = FlushedBuffer(k)]
        /\ closeSeen' = [closeSeen EXCEPT ![k] = FALSE]
        /\ token' = [token EXCEPT ![k] = tokenOf'[s]]
        /\ loop' = [loop EXCEPT ![k] = "signing"]
        /\ UNCHANGED <<permanentFailure, instances, initial, attempt, farewell,
                       isDisposed, event, toClient, serverVars>>

\* Messages for onControlMessage; a Disconnect is for onDidDispose.
IsControl(m) == m # "disconnect"

\* What the protocol reads next from its socket.
Incoming(k) ==
    IF socket[k] = NoSocket \/ isProtocolDisposed[k] THEN <<>> ELSE toClient[socket[k]]

\* The next control message, if there is one: a buffered one, or one that is
\* read from the socket.
Control(k) ==
    IF controlBuffer[k] # <<>> THEN {Head(controlBuffer[k])}
    ELSE IF Incoming(k) # <<>> /\ IsControl(Head(Incoming(k))) THEN {Head(Incoming(k))}
    ELSE {}

ReadControl(k) ==
    IF controlBuffer[k] # <<>>
    THEN /\ controlBuffer' = [controlBuffer EXCEPT ![k] = Tail(@)]
         /\ UNCHANGED toClient
    ELSE /\ toClient' = [toClient EXCEPT ![socket[k]] = Tail(@)]
         /\ UNCHANGED controlBuffer

\* The SignRequest is answered with a ConnectionTypeRequest.
ReceiveSign(k) ==
    /\ loop[k] = "signing"
    /\ Control(k) = {"sign"}
    /\ ReadControl(k)
    /\ toServer' = Sent(toServer, socket[k], "connectionType")
    /\ loop' = [loop EXCEPT ![k] = "typing"]
    /\ UNCHANGED <<permanentFailure, instances, initial, attempt, farewell, isDisposed,
                   event, socket, isReconnecting, isProtocolDisposed, closeSeen, token, opened,
                   owner, tokenOf, up, serverVars>>

\* An error message, a first answer that is not a SignRequest, or one that is
\* not valid ends the attempt for good.
ReceiveError(k) ==
    /\ \/ loop[k] = "signing" /\ Control(k) # {}
          /\ (Control(k) # {"sign"} \/ "error" \in Calls)
       \/ loop[k] = "typing" /\ Control(k) = {"error"}
    /\ ReadControl(k)
    /\ AttemptFails(k, FALSE)
    /\ UNCHANGED <<opened, owner, tokenOf, serverVars>>

\* The first message after the ConnectionTypeRequest ends the handshake.  A
\* connection that is new fails at once if another one has failed before.
ReceiveOk(k) ==
    /\ loop[k] = "typing"
    /\ Control(k) \notin {{}, {"error"}}
    /\ ReadControl(k)
    /\ isReconnecting' = [isReconnecting EXCEPT ![k] = FALSE]
    /\ initial' = [initial EXCEPT ![k] = FALSE]
    /\ loop' = [loop EXCEPT ![k] = "idle"]
    /\ attempt' = [attempt EXCEPT ![k] = 0]
    /\ IF initial[k] /\ permanentFailure
       THEN /\ GotoPermanentFailure({k})
            /\ up' = up \ {socket[k]}
       ELSE /\ event' = [event EXCEPT ![k] = IF isDisposed[k] THEN @ ELSE "Gain"]
            /\ instances' = IF initial[k] THEN Append(instances, k) ELSE instances
            /\ UNCHANGED <<isDisposed, isProtocolDisposed, up, toServer>>
    /\ UNCHANGED <<permanentFailure, farewell, socket, closeSeen, token, opened,
                   owner, tokenOf, serverVars>>

\* 10s without a SignRequest; when reconnecting, also RECONNECT_TIMEOUT for the
\* whole attempt.
TimeLimitReached(k) ==
    /\ loop[k] = "signing" \/ (loop[k] \in {"connecting", "typing"} /\ ~initial[k])
    /\ AttemptFails(k, TRUE)
    /\ UNCHANGED <<controlBuffer, opened, owner, tokenOf, toClient, serverVars>>

\* A control message nobody waits for any more is buffered.
BufferControl(k) ==
    /\ loop[k] \notin {"signing", "typing"}
    /\ Incoming(k) # <<>>
    /\ IsControl(Head(Incoming(k)))
    /\ controlBuffer' = [controlBuffer EXCEPT ![k] = Append(@, Head(Incoming(k)))]
    /\ toClient' = [toClient EXCEPT ![socket[k]] = Tail(@)]
    /\ UNCHANGED <<windowVars, socket, isReconnecting, isProtocolDisposed,
                   closeSeen, token, opened, owner, tokenOf, up, toServer,
                   serverVars>>

-----------------------------------------------------------------------------
(* The end of a connection of the window.                                  *)

\* The server ends the connection: the owner of a Management connection
\* disposes it.
ReceiveDisconnect(k) ==
    /\ Incoming(k) # <<>>
    /\ Head(Incoming(k)) = "disconnect"
    /\ toClient' = [toClient EXCEPT ![socket[k]] = Tail(@)]
    /\ ClientDisposed({j \in {k} \cap Management : ~initial[j] /\ ~isDisposed[j]})
    /\ UNCHANGED <<permanentFailure, initial, loop, attempt, farewell, event, socket,
                   isReconnecting, controlBuffer, closeSeen, token, opened, owner,
                   tokenOf, serverVars>>

Goodbye(k) ==
    IF isProtocolDisposed[k] THEN toServer ELSE Sent(toServer, socket[k], "disconnect")

\* endConnection() of the remote agent service says goodbye,
EndConnection(k) ==
    /\ k \in Management
    /\ ~initial[k] /\ ~isDisposed[k] /\ ~farewell[k]
    /\ farewell' = [farewell EXCEPT ![k] = TRUE]
    /\ toServer' = Goodbye(k)
    /\ UNCHANGED <<permanentFailure, instances, initial, loop, attempt, isDisposed,
                   event, protocolVars, opened, owner, tokenOf, up, toClient, serverVars>>

\* waits until that is written, and disposes the connection.
ConnectionEnded(k) ==
    /\ farewell[k] /\ ~isDisposed[k]
    /\ ClientDisposed({k})
    /\ UNCHANGED <<permanentFailure, initial, loop, attempt, farewell, event, socket,
                   isReconnecting, controlBuffer, closeSeen, token, opened, owner,
                   tokenOf, toClient, serverVars>>

\* dispose() of a remote extension host; one that is not initialized yet has no
\* protocol to say goodbye with.
DisposeExtensionHost(k) ==
    /\ k \in ExtensionHosts
    /\ ~initial[k] /\ ~isDisposed[k]
    /\ Disposed({k})
    /\ \/ /\ toServer' = Goodbye(k)
          /\ up' = up \ {socket[k]}
       \/ UNCHANGED <<toServer, up>>
    /\ UNCHANGED <<permanentFailure, initial, loop, attempt, farewell, event,
                   protocolVars, opened, owner, tokenOf, toClient, serverVars>>

-----------------------------------------------------------------------------
(* The server: handshakes.                                                 *)

\* Messages on socket s are read by the protocol of the handshake.
Receives(s, m) ==
    /\ toServer[s] # <<>>
    /\ Head(toServer[s]) = m
    /\ toServer' = [toServer EXCEPT ![s] = Tail(@)]

ReceiveAuth(s) ==
    /\ handshake[s] = "WaitingForAuth"
    /\ Receives(s, "auth")
    /\ handshake' = [handshake EXCEPT ![s] = "WaitingForConnectionType"]
    /\ toClient' = Sent(toClient, s, "sign")
    /\ UNCHANGED <<windowVars, protocolVars, opened, owner, tokenOf, up, conn,
                   serverSocket, serverCloseSeen, disconnectRunner1,
                   disconnectRunner2, accepted>>

\* _rejectWebSocketConnection()
Reject(s) ==
    /\ toClient' = Sent(toClient, s, "error")
    /\ up' = up \ {s}
    /\ UNCHANGED <<conn, serverSocket, serverCloseSeen, accepted>>

\* The server refuses a client: another version, or a client it does not trust.
Refuse(s) ==
    /\ handshake[s] \in {"WaitingForAuth", "WaitingForConnectionType"}
    /\ Receives(s, IF handshake[s] = "WaitingForAuth" THEN "auth" ELSE "connectionType")
    /\ handshake' = [handshake EXCEPT ![s] = "Error"]
    /\ Reject(s)
    /\ UNCHANGED <<windowVars, protocolVars, opened, owner, tokenOf,
                   disconnectRunner1, disconnectRunner2>>

Cancelled(runner, t) == [runner EXCEPT ![t] = FALSE]

\* _handleConnectionType() once it may go on: a reconnection takes over a
\* connection that is still known, a fresh connection makes a new one.
\* runner2 are the short timers at that time.
HandleConnectionType(s, runner2) ==
    LET t == tokenOf[s]
    IN  IF (t # s /\ conn[t] # "open") \/ (t = s /\ conn[t] = "open")
        THEN /\ Reject(s)
             /\ disconnectRunner2' = runner2
             /\ UNCHANGED disconnectRunner1
        ELSE /\ toClient' = Sent(toClient, s, "ok")
             /\ up' = IF t = s THEN up ELSE up \ {serverSocket[t]}
             /\ conn' = [conn EXCEPT ![t] = "open"]
             /\ serverSocket' = [serverSocket EXCEPT ![t] = s]
             /\ serverCloseSeen' = [serverCloseSeen EXCEPT ![t] = FALSE]
             /\ disconnectRunner1' = Cancelled(disconnectRunner1, t)
             /\ disconnectRunner2' = Cancelled(runner2, t)
             /\ accepted' = accepted \cup {s}

\* shortenReconnectionGraceTimeIfNecessary() of every connection.
Shortened ==
    [t \in Sockets |-> disconnectRunner2[t] \/ disconnectRunner1[t]]

\* The ConnectionTypeRequest: the client is there, so other clients could be,
\* too.  An extension host needs a free debug port first.
ReceiveConnectionType(s) ==
    /\ handshake[s] = "WaitingForConnectionType"
    /\ Receives(s, "connectionType")
    /\ IF owner[s] \in Management
       THEN /\ handshake' = [handshake EXCEPT ![s] = "Done"]
            /\ HandleConnectionType(s, Shortened)
       ELSE /\ handshake' = [handshake EXCEPT ![s] = "FindingPort"]
            /\ disconnectRunner2' = Shortened
            /\ UNCHANGED <<toClient, up, conn, serverSocket, serverCloseSeen,
                           disconnectRunner1, accepted>>
    /\ UNCHANGED <<windowVars, protocolVars, opened, owner, tokenOf>>

FoundPort(s) ==
    /\ handshake[s] = "FindingPort"
    /\ handshake' = [handshake EXCEPT ![s] = "Done"]
    /\ HandleConnectionType(s, disconnectRunner2)
    /\ UNCHANGED <<windowVars, protocolVars, opened, owner, tokenOf, toServer>>

\* A farewell on a socket that is still in its handshake is not seen by the
\* connection.
IgnoreDisconnect(s) ==
    /\ handshake[s] # "Done"
    /\ Receives(s, "disconnect")
    /\ UNCHANGED <<windowVars, protocolVars, opened, owner, tokenOf, up, toClient,
                   serverVars>>

-----------------------------------------------------------------------------
(* The server: connections.                                                *)

\* _cleanResources(): the connection is forgotten, a farewell is sent and the
\* socket ends.
CleanResources(t) ==
    /\ conn[t] = "open"
    /\ conn' = [conn EXCEPT ![t] = "closed"]
    /\ disconnectRunner1' = [disconnectRunner1 EXCEPT ![t] = FALSE]
    /\ disconnectRunner2' = [disconnectRunner2 EXCEPT ![t] = FALSE]
    /\ toClient' = Sent(toClient, serverSocket[t], "disconnect")
    /\ up' = up \ {serverSocket[t]}
    /\ UNCHANGED <<windowVars, protocolVars, opened, owner, tokenOf, handshake,
                   serverSocket, serverCloseSeen, accepted>>

\* The client has said goodbye.
ServerReceivesDisconnect(t) ==
    /\ conn[t] = "open"
    /\ Receives(serverSocket[t], "disconnect")
    /\ CleanResources(t)

MutantScheduled(runner, t) == runner

Scheduled(runner, t) == [runner EXCEPT ![t] = TRUE]

\* onSocketClose: the client has some time to reconnect.
ServerSocketClose(t) ==
    /\ conn[t] = "open"
    /\ serverSocket[t] \notin up
    /\ toServer[serverSocket[t]] = <<>>
    /\ ~serverCloseSeen[t]
    /\ serverCloseSeen' = [serverCloseSeen EXCEPT ![t] = TRUE]
    /\ disconnectRunner1' = Scheduled(disconnectRunner1, t)
    /\ UNCHANGED <<windowVars, protocolVars, netVars, handshake, conn,
                   serverSocket, disconnectRunner2, accepted>>

GraceTimeOver(t) ==
    /\ disconnectRunner1[t]
    /\ CleanResources(t)
    /\ UNCHANGED toServer

ShortGraceTimeOver(t) ==
    /\ disconnectRunner2[t]
    /\ CleanResources(t)
    /\ UNCHANGED toServer

SocketBreaks(s) ==
    /\ s \in up
    /\ up' = up \ {s}
    /\ UNCHANGED <<windowVars, protocolVars, opened, owner, tokenOf, toServer,
                   toClient, serverVars>>

\* What is under way on a socket that is closed arrives before the close event,
\* or not at all.
LoseData(s) ==
    /\ s \notin up
    /\ \/ /\ toServer[s] # <<>>
          /\ toServer' = [toServer EXCEPT ![s] = <<>>]
          /\ UNCHANGED toClient
       \/ /\ toClient[s] # <<>>
          /\ toClient' = [toClient EXCEPT ![s] = <<>>]
          /\ UNCHANGED toServer
    /\ UNCHANGED <<windowVars, protocolVars, opened, owner, tokenOf, up, serverVars>>

-----------------------------------------------------------------------------

Attempt(k) ==
    \/ Resolved(k) \/ ConnectFails(k) \/ Connected(k)
    \/ ReceiveSign(k) \/ ReceiveError(k) \/ ReceiveOk(k)
    \/ TimeLimitReached(k)

Window(k) ==
    \/ Attempt(k)
    \/ SocketClose(k)
    \/ "timeout" \in Calls /\ SocketTimeout(k)
    \/ WaitOver(k)
    \/ BufferControl(k)
    \/ ReceiveDisconnect(k)
    \/ "end" \in Calls /\ EndConnection(k)
    \/ "dispose" \in Calls /\ DisposeExtensionHost(k)
    \/ ConnectionEnded(k)

Server(s) ==
    \/ ReceiveAuth(s)
    \/ "error" \in Calls /\ Refuse(s)
    \/ ReceiveConnectionType(s)
    \/ FoundPort(s)
    \/ IgnoreDisconnect(s)
    \/ ServerReceivesDisconnect(s)
    \/ ServerSocketClose(s)
    \/ "grace" \in Calls /\ (GraceTimeOver(s) \/ ShortGraceTimeOver(s))

Next ==
    \/ \E k \in Conns : Window(k)
    \/ \E s \in 1..opened : Server(s) \/ SocketBreaks(s) \/ LoseData(s)

Spec == Init /\ [][Next]_vars

\* Every attempt of the window comes to an end: promises of the resolver and
\* of the socket factory settle, and timers fire.  Events are handled on both
\* sides, and the grace time ends.  Nothing is assumed of the network.
Fairness ==
    /\ \A k \in Conns :
          /\ WF_vars(Attempt(k))
          /\ WF_vars(SocketClose(k))
          /\ WF_vars(WaitOver(k))
          /\ WF_vars(BufferControl(k))
          /\ WF_vars(ReceiveDisconnect(k))
    /\ \A s \in Sockets :
          /\ WF_vars(ReceiveAuth(s))
          /\ WF_vars(ReceiveConnectionType(s))
          /\ WF_vars(FoundPort(s))
          /\ WF_vars(IgnoreDisconnect(s))
          /\ WF_vars(ServerReceivesDisconnect(s))
          /\ WF_vars(ServerSocketClose(s))
          /\ WF_vars("grace" \in Calls /\ GraceTimeOver(s))

FairSpec == Spec /\ Fairness

-----------------------------------------------------------------------------
(* Properties.                                                             *)

\* A grace timer runs only while the socket of its connection is closed: no
\* order of close events, reconnections over late sockets and the arrival of
\* other clients lets it dispose a connection that its client uses.
GraceOnlyWhenLost ==
    \A t \in Sockets :
        disconnectRunner1[t] \/ disconnectRunner2[t] =>
            conn[t] = "open" /\ serverSocket[t] \notin up

\* When the window reports ConnectionGain, the server has accepted the socket
\* it reports it for: no answer of an earlier attempt is taken for one of this.
GainIsAccepted ==
    \A k \in Conns : event[k] = "Gain" => socket[k] \in accepted

\* A connection that is lost is noticed: the loop runs, or the close event is
\* still to come, unless the connection has ended.  A close event that comes
\* while _isReconnecting is true is ignored and would be lost otherwise.
LossIsNoticed ==
    \A k \in Conns :
        ~initial[k] /\ loop[k] = "idle" /\ socket[k] \notin up =>
            \/ ~closeSeen[k]
            \/ isDisposed[k] \/ permanentFailure \/ event[k] = "PermanentFailure"

\* The window gives up only if the server has forgotten a connection, or after
\* the last of its attempts: a slow network alone is not taken for an error.
FailureHasReason ==
    "error" \notin Calls =>
        \A k \in Conns :
            event[k] = "PermanentFailure" =>
                \E j \in Conns :
                    \/ token[j] # NoSocket /\ conn[token[j]] = "closed"
                    \/ ~initial[j] /\ loop[j] = "idle" /\ attempt[j] >= MaxRetries
                    \/ loop[j] = "failed"

\* "no more attempts!" (remoteAgentConnection.ts:634).  After a permanent failure
\* no loop starts, and one that waits ends.  A connection that is disposed makes
\* at most one more attempt: its loop may be in one, or go on after its wait
\* (line 656 does not look at _isDisposed), but neither starts nor waits again.
NoMoreAttemptsStep ==
    \A k \in Conns :
        /\ permanentFailure /\ loop[k] \in {"idle", "waiting"} =>
              loop'[k] \in {"idle", "waiting"}
        /\ isDisposed[k] =>
              /\ loop[k] = "idle" => loop'[k] = "idle"
              /\ loop'[k] = "waiting" => loop[k] = "waiting"

\* "no more attempts!": none starts after a permanent failure of either connection,
\* and at most one after dispose().
NoAttemptsAfterEnd == [][NoMoreAttemptsStep]_vars

\* What the window reports is true: at a ConnectionGain the server has accepted the
\* socket (no answer of an earlier attempt is taken for one of this), and it gives
\* up only if the server has forgotten a connection or after the last attempt.
ReportsAreTrue == GainIsAccepted /\ FailureHasReason

\* Both sides notice a loss, and only a loss: the window although it ignores close
\* events while _isReconnecting is true, the server whose grace timers never run
\* for a connection that its client uses.
LossesAreNoticed == LossIsNoticed /\ GraceOnlyWhenLost

\* The connection is there, and both sides use the same socket for it.
Agreed(k) ==
    /\ ~initial[k]
    /\ loop[k] = "idle"
    /\ socket[k] \in up
    /\ conn[token[k]] = "open"
    /\ serverSocket[token[k]] = socket[k]

\* A connection once established is reconnected or reported as lost in the
\* end: a late socket that the server accepts after a newer one only costs
\* another attempt.
EventuallySettled ==
    \A k \in Conns :
        <>~initial[k] => <>[](Agreed(k) \/ isDisposed[k] \/ event[k] = "PermanentFailure")

\* The server forgets a connection whose client does not come back.
ServerForgets ==
    \A t \in Sockets : ~<>[](conn[t] = "open" /\ serverSocket[t] \notin up)

\* "Will attempt to connect 5 times. If it fails 5 consecutive times, it will
\* give up." (remoteAgentConnection.ts:435): an initial connection is made, or
\* given up.
InitialConnectionEnds ==
    \A k \in Conns : <>(~initial[k] \/ loop[k] = "failed")

=============================================================================
