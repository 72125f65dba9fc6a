---------------------- MODULE ExtensionHostConnection ----------------------
(***************************************************************************)
(* How the server hands the sockets of a client to the process of an       *)
(* extension host: the start of the process, the messages between the two  *)
(* processes, and the timers that end a process whose client is gone.      *)
(*                                                                         *)
(* Sockets are numbered in the order in which the client has opened them.  *)
(* The messages of an IPC channel arrive in order, and wait until the      *)
(* process listens.  A socket that is handed over belongs to the process.  *)
(***************************************************************************)
EXTENDS Naturals, Sequences, SequencesExt

CONSTANTS
    MaxSockets,   \* bound: sockets that the client opens
    MaxReduce     \* bound: connections of other clients

VARIABLES
    accepted,     \* the number of sockets that the server has accepted
    open,         \* the sockets whose client still holds them
    connection,   \* of _extHostConnections: "none" yet, "starting", "started", "failed"
                  \* or "closed"
    connectionData,
    draining,     \* sends that wait until the writes on their socket are drained
    toHost, toServer,   \* the messages under way
    host,         \* the process: "none", "loading", "listening" or "exited"
    socket,       \* of the PersistentProtocol of the process, 0 if there is none yet
    closeSeen,    \* its socket has fired onClose
    disconnectRunner1, disconnectRunner2,
    reduced,      \* connections of other clients so far
    mixed         \* two sockets were on their way to the process at the same time

vars == <<accepted, open, connection, connectionData, draining, toHost, toServer, host,
          socket, closeSeen, disconnectRunner1, disconnectRunner2, reduced, mixed>>

hostVars == <<socket, closeSeen, disconnectRunner1, disconnectRunner2>>

Sockets == 1..MaxSockets
NoSocket == 0

SocketMessage(s) == [type |-> "VSCODE_EXTHOST_IPC_SOCKET", socket |-> s]
ReduceGraceTime == [type |-> "VSCODE_EXTHOST_IPC_REDUCE_GRACE_TIME", socket |-> NoSocket]

Init ==
    /\ accepted = 0
    /\ open = {}
    /\ connection = "none"
    /\ connectionData = NoSocket
    /\ draining = {}
    /\ toHost = <<>>
    /\ toServer = <<>>
    /\ host = "none"
    /\ socket = NoSocket
    /\ closeSeen = FALSE
    /\ disconnectRunner1 = FALSE
    /\ disconnectRunner2 = FALSE
    /\ reduced = 0
    /\ mixed = FALSE

\* The sockets on their way to the process.
UnderWay == (draining \cup {toHost[i].socket : i \in DOMAIN toHost}) \ {NoSocket}

-----------------------------------------------------------------------------
(* The client.                                                             *)

\* The client connects with its first socket: start() is called.
Connect ==
    /\ connection = "none"
    /\ accepted' = 1
    /\ open' = {1}
    /\ connection' = "starting"
    /\ connectionData' = 1
    /\ UNCHANGED <<draining, toHost, toServer, host, hostVars, reduced, mixed>>

\* The socket breaks, or the client gives it up.
SocketBreaks ==
    /\ accepted \in open
    /\ open' = open \ {accepted}
    /\ UNCHANGED <<accepted, connection, connectionData, draining, toHost, toServer, host,
                   hostVars, reduced, mixed>>

MutantSend(s) == connectionData' = s /\ UNCHANGED draining

\* acceptReconnection() with a process: its socket is sent to the process.
Send(s) == draining' = draining \cup {s} /\ UNCHANGED connectionData

\* The client reconnects: acceptReconnection().
AcceptReconnection ==
    LET s == accepted + 1
    IN  /\ accepted < MaxSockets
        /\ accepted \notin open
        /\ connection \in {"starting", "started", "failed"}
        /\ accepted' = s
        /\ open' = open \cup {s}
        /\ IF connection = "started"
           THEN Send(s)
           ELSE connectionData' = s /\ UNCHANGED draining
        /\ mixed' = (mixed \/ (connection = "started" /\
                                (connectionData # NoSocket \/ UnderWay # {})))
        /\ UNCHANGED <<connection, toHost, toServer, host, hostVars, reduced>>

-----------------------------------------------------------------------------
(* The server.                                                             *)

\* start() has awaited the environment, and forks the process.
Fork ==
    /\ connection = "starting"
    /\ connection' = "started"
    /\ host' = "loading"
    /\ UNCHANGED <<accepted, open, connectionData, draining, toHost, toServer, hostVars,
                   reduced, mixed>>

\* start() throws before it has forked the process: the error is only logged.  The entry
\* stays, and goes on to accept reconnections.
StartFails ==
    /\ connection = "starting"
    /\ connection' = "failed"
    /\ UNCHANGED <<accepted, open, connectionData, draining, toHost, toServer, host, hostVars,
                   reduced, mixed>>

\* The listener of VSCODE_EXTHOST_IPC_READY.
Ready ==
    /\ toServer # <<>>
    /\ Head(toServer) = "VSCODE_EXTHOST_IPC_READY"
    /\ connection = "started"
    /\ toServer' = Tail(toServer)
    /\ draining' = draining \cup {connectionData}
    /\ connectionData' = NoSocket
    /\ mixed' = (mixed \/ UnderWay # {})
    /\ UNCHANGED <<accepted, open, connection, toHost, host, hostVars, reduced>>

\* The writes on a socket are drained: it is sent to the process.  A socket that the
\* server knows to be closed is sent without its handle, and the process throws the
\* message away.
Drained(s) ==
    /\ s \in draining
    /\ draining' = draining \ {s}
    /\ \/ toHost' = Append(toHost, SocketMessage(s))
       \/ s \notin open /\ UNCHANGED toHost
    /\ UNCHANGED <<accepted, open, connection, connectionData, toServer, host, hostVars,
                   reduced, mixed>>

\* Another client connects: shortenReconnectionGraceTimeIfNecessary().
ShortenReconnectionGraceTime ==
    /\ reduced < MaxReduce
    /\ connection = "started"
    /\ reduced' = reduced + 1
    /\ toHost' = Append(toHost, ReduceGraceTime)
    /\ UNCHANGED <<accepted, open, connection, connectionData, draining, toServer, host,
                   hostVars, mixed>>

MutantForget == UNCHANGED connection

\* The listener of onClose: the server removes the entry of the connection.
Forget == connection' = "closed"

\* The process has exited or had an error: _cleanResources(), which ends the socket that
\* waits for READY.
Exited ==
    /\ host = "exited"
    /\ connection = "started"
    /\ Forget
    /\ open' = open \ {connectionData}
    /\ connectionData' = NoSocket
    /\ toServer' = <<>>
    /\ UNCHANGED <<accepted, draining, toHost, host, hostVars, reduced, mixed>>

-----------------------------------------------------------------------------
(* The process of the extension host.                                      *)

\* It has loaded, listens, and asks for its socket; a timer of 60 s starts.
Listen ==
    /\ host = "loading"
    /\ host' = "listening"
    /\ toServer' = Append(toServer, "VSCODE_EXTHOST_IPC_READY")
    /\ UNCHANGED <<accepted, open, connection, connectionData, draining, toHost, hostVars,
                   reduced, mixed>>

\* A reconnection cancels both timers.
CancelRunners == disconnectRunner1' = FALSE /\ disconnectRunner2' = FALSE

\* VSCODE_EXTHOST_IPC_SOCKET: the first socket makes the protocol, every other one is a
\* reconnection, which disposes the socket that the protocol had.
ReceiveSocket ==
    /\ host = "listening"
    /\ toHost # <<>>
    /\ Head(toHost).type = "VSCODE_EXTHOST_IPC_SOCKET"
    /\ toHost' = Tail(toHost)
    /\ socket' = Head(toHost).socket
    /\ open' = open \ ({socket} \ {Head(toHost).socket})
    /\ closeSeen' = FALSE
    /\ IF socket = NoSocket
       THEN UNCHANGED <<disconnectRunner1, disconnectRunner2>>
       ELSE CancelRunners
    /\ UNCHANGED <<accepted, connection, connectionData, draining, toServer, host, reduced,
                   mixed>>

\* VSCODE_EXTHOST_IPC_REDUCE_GRACE_TIME
ReceiveReduceGraceTime ==
    /\ host = "listening"
    /\ toHost # <<>>
    /\ Head(toHost).type = "VSCODE_EXTHOST_IPC_REDUCE_GRACE_TIME"
    /\ toHost' = Tail(toHost)
    /\ disconnectRunner2' = (disconnectRunner2 \/ disconnectRunner1)
    /\ UNCHANGED <<accepted, open, connection, connectionData, draining, toServer, host,
                   socket, closeSeen, disconnectRunner1, reduced, mixed>>

\* Wait for the client to reconnect.
ScheduleRunner == disconnectRunner1' = TRUE

\* onSocketClose
SocketClose ==
    /\ host = "listening"
    /\ socket # NoSocket
    /\ socket \notin open
    /\ ~closeSeen
    /\ closeSeen' = TRUE
    /\ ScheduleRunner
    /\ UNCHANGED <<accepted, open, connection, connectionData, draining, toHost, toServer,
                   host, socket, disconnectRunner2, reduced, mixed>>

\* The process exits, and its socket breaks.
Exits ==
    /\ host' = "exited"
    /\ open' = open \ {socket}
    /\ disconnectRunner1' = FALSE
    /\ disconnectRunner2' = FALSE
    /\ UNCHANGED <<accepted, connection, connectionData, draining, toHost, toServer, socket,
                   closeSeen, reduced, mixed>>

\* A grace time is over: onTerminate().
DisconnectRunner ==
    /\ host = "listening"
    /\ disconnectRunner1 \/ disconnectRunner2
    /\ Exits

\* No socket came within 60 s.
SocketTimeout ==
    /\ host = "listening"
    /\ socket = NoSocket
    /\ Exits

\* The process cannot be spawned, or it dies.
Dies ==
    /\ host \in {"loading", "listening"}
    /\ Exits

Next ==
    \/ Connect
    \/ SocketBreaks
    \/ AcceptReconnection
    \/ Fork
    \/ StartFails
    \/ Ready
    \/ \E s \in Sockets : Drained(s)
    \/ ShortenReconnectionGraceTime
    \/ Exited
    \/ Listen
    \/ ReceiveSocket
    \/ ReceiveReduceGraceTime
    \/ SocketClose
    \/ DisconnectRunner
    \/ SocketTimeout
    \/ Dies

Spec == Init /\ [][Next]_vars

\* Awaited calls answer, messages arrive, timers fire, and a client that has lost its
\* socket tries again; nothing has to break.
Progress ==
    \/ AcceptReconnection
    \/ Fork
    \/ Ready
    \/ \E s \in Sockets : Drained(s)
    \/ Exited
    \/ Listen
    \/ ReceiveSocket
    \/ ReceiveReduceGraceTime
    \/ SocketClose
    \/ DisconnectRunner
    \/ SocketTimeout

-----------------------------------------------------------------------------
(* Properties.                                                             *)

Serves == host = "listening" /\ socket = accepted /\ accepted \in open

\* No timer ends a process that is connected to the socket of its client: however a
\* reconnection, a broken socket and the short grace time overtake each other, a timer
\* runs only while the socket of the process is closed.
TimersOnlyWhenCut ==
    disconnectRunner1 \/ disconnectRunner2 => closeSeen /\ socket \notin open

\* When nothing is on its way, the process has the socket that the client holds, unless
\* two sockets were on their way at the same time.  (Then the older may arrive last: a socket
\* accepted while the process loads is sent before the one that waits for READY.)
LastSocketWins ==
    /\ ~mixed
    /\ accepted \in open
    /\ host = "listening"
    /\ socket # NoSocket
    /\ UnderWay = {}
    => socket = accepted

\* The process comes to serve its client for good, or it exits and its entry is removed;
\* even when an older socket has displaced the last one, whose end the client notices.
\* (Once the client has used up its sockets, it may also be gone.)  The exception is a
\* start() that throws: nothing removes its entry, and no process serves its client
\* (extensionHostConnection.ts:312-317).
EventuallySettled ==
    <>[](Serves \/ connection \in {"none", "closed", "failed"})

=============================================================================
