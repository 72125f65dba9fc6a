--------------------------- MODULE MC_Components ----------------------------
(***************************************************************************)
(* Smaller components for TLC: the helpers of base/common/async.ts, the    *)
(* channels of ipc.ts, the framing of ipc.net.ts, the extension host of a  *)
(* remote window, the activation of extensions, the storage that windows   *)
(* share, and the file of a storage.  Every behaviour uses one of them,    *)
(* which the initial state chooses.                                        *)
(***************************************************************************)
EXTENDS StorageWindows

CONSTANTS
    LimiterDegree, LimiterTasks,
    Resources, QueueTasks,
    MaxWaiters,                  \* of the limiter and of the queues
    maxWorkChunkSize, maxBufferedWork, MaxUnits,
    IpcCalls, IpcEvents, MaxListens, MaxRegisters,
    MaxSockets, MaxReduce,
    Items, MaxSessions, MaxFaults,
    HeaderLength, MaxBody, MaxMessages

VARIABLES
    part,
    \* Limiter, ResourceQueue, ThrottledWorker
    limiter, status, waiters,
    queues, made, task, drainers, isDisposed,
    waitThrottleDelayBetweenWorkUnits, pendingWork, throttler, rested, disposed,
    accepted, handled,
    \* IpcChannels
    idle, isClientDisposed, phase, handlers, listens, toServer, toClient, registers, flushes,
    pendingRequests, running, executed, activeRequests, subscriptions, down, late,
    \* ExtensionHostConnection
    acceptedSocket, open, connection, connectionData, draining, toHost, fromHost, host, socket,
    closeSeen, disconnectRunner1, disconnectRunner2, reduced, mixed,
    \* StorageFile
    db, backup, step, retryOnBusy, isErroneous, isInMemory, items, locked, sessions, faults,
    closed, unread,
    \* ExtensionActivation
    extensionDependencies, kind, operations, events,
    \* ProtocolFraming
    connectionType, written, bytes, chunks, totalLength, readHead, readLen, message, server,
    read

L == INSTANCE Limiter WITH
        maxDegreeOfParalellism <- LimiterDegree, MaxTasks <- LimiterTasks
Q == INSTANCE ResourceQueue WITH
        maxDegreeOfParalellism <- 1, MaxTasks <- QueueTasks, MaxDrainers <- MaxWaiters
W == INSTANCE ThrottledWorker
I == INSTANCE IpcChannels WITH
        Calls <- IpcCalls, Events <- IpcEvents, isDisposed <- isClientDisposed
H == INSTANCE ExtensionHostConnection WITH accepted <- acceptedSocket, toServer <- fromHost
F == INSTANCE StorageFile WITH cache <- items
B == INSTANCE ProtocolFraming WITH wire <- bytes, delivered <- read

-----------------------------------------------------------------------------
(* Three extensions, of which one may have two dependencies, also on one   *)
(* that is not installed, and two events.                                  *)

Extensions == {"a", "b", "c"}
Ids == Extensions \cup {"missing"}
Manifests ==
    {d \in [Extensions -> {<<>>} \cup {<<i>> : i \in Ids} \cup {<<i, j>> : i, j \in Ids}] :
        \A x \in {"b", "c"} : Len(d[x]) <= 1}
Kinds == {k \in [Extensions -> {"main", "host", "descriptive"}] : k["a"] = "main"}

\* No extension depends on another, and all run in this host.
Independent ==
    /\ extensionDependencies = [x \in Extensions |-> <<>>]
    /\ kind = [x \in Ids |-> IF x \in Extensions THEN "main" ELSE "unknown"]

A == INSTANCE ExtensionActivation WITH
        Missing <- "missing", Events <- {"v", "w"},
        Activates <- [v |-> <<"a">>, w |-> <<"b", "c">>]

-----------------------------------------------------------------------------

limiterVars == <<limiter, status, waiters>>
queueVars == <<queues, made, task, drainers, isDisposed>>
workerVars == <<waitThrottleDelayBetweenWorkUnits, pendingWork, throttler, rested,
                disposed, accepted, handled>>
ipcVars == <<idle, isClientDisposed, phase, handlers, listens, toServer, toClient, registers,
             flushes, pendingRequests, running, executed, activeRequests, subscriptions, down,
             late>>
hostVars == <<acceptedSocket, open, connection, connectionData, draining, toHost, fromHost,
              host, socket, closeSeen, disconnectRunner1, disconnectRunner2, reduced, mixed>>
fileVars == <<db, backup, step, retryOnBusy, isErroneous, isInMemory, items, locked, sessions,
              faults, closed, unread>>
extensionVars == <<extensionDependencies, kind, operations, events>>
framingVars == <<connectionType, written, bytes, chunks, totalLength, readHead, readLen,
                 message, server, read>>
partVars == <<part, limiterVars, queueVars, workerVars, ipcVars, hostVars, vars, fileVars,
              extensionVars, framingVars>>

PartInit ==
    /\ part \in {"Limiter", "ResourceQueue", "ThrottledWorker", "IpcChannels",
                 "ExtensionHostConnection", "StorageWindows", "StorageFile",
                 "ExtensionActivation", "ProtocolFraming"}
    /\ L!Init /\ Q!Init /\ W!Init /\ I!Init /\ H!Init /\ Init /\ F!Init /\ B!Init
    /\ connectionType = "Management" => part = "ProtocolFraming"
    /\ waitThrottleDelayBetweenWorkUnits => part = "ThrottledWorker"
    /\ A!Init
    /\ part = "ExtensionActivation" \/ Independent

\* The component that a behaviour uses, and what its steps leave alone.
UseLimiter ==
    /\ part = "Limiter"
    /\ UNCHANGED <<part, queueVars, workerVars, ipcVars, hostVars, vars, fileVars,
                  extensionVars, framingVars>>

UseResourceQueue ==
    /\ part = "ResourceQueue"
    /\ UNCHANGED <<part, limiterVars, workerVars, ipcVars, hostVars, vars,
                  fileVars, extensionVars, framingVars>>

UseThrottledWorker ==
    /\ part = "ThrottledWorker"
    /\ UNCHANGED <<part, limiterVars, queueVars, ipcVars, hostVars, vars,
                  fileVars, extensionVars, framingVars>>

UseIpcChannels ==
    /\ part = "IpcChannels"
    /\ UNCHANGED <<part, limiterVars, queueVars, workerVars, hostVars, vars,
                  fileVars, extensionVars, framingVars>>

UseExtensionHostConnection ==
    /\ part = "ExtensionHostConnection"
    /\ UNCHANGED <<part, limiterVars, queueVars, workerVars, ipcVars, vars,
                  fileVars, extensionVars, framingVars>>

UseStorageWindows ==
    /\ part = "StorageWindows"
    /\ UNCHANGED <<part, limiterVars, queueVars, workerVars, ipcVars, hostVars, fileVars,
                  extensionVars, framingVars>>

UseStorageFile ==
    /\ part = "StorageFile"
    /\ UNCHANGED <<part, limiterVars, queueVars, workerVars, ipcVars, hostVars,
                  vars, extensionVars, framingVars>>

UseExtensionActivation ==
    /\ part = "ExtensionActivation"
    /\ UNCHANGED <<part, limiterVars, queueVars, workerVars, ipcVars, hostVars,
                  vars, fileVars, framingVars>>

UseProtocolFraming ==
    /\ part = "ProtocolFraming"
    /\ UNCHANGED <<part, limiterVars, queueVars, workerVars, ipcVars, hostVars,
                  vars, fileVars, extensionVars>>

PartNext ==
    \/ UseLimiter /\ L!Next
    \/ UseResourceQueue /\ Q!Next
    \/ UseThrottledWorker /\ W!Next
    \/ UseIpcChannels /\ I!Next
    \/ UseExtensionHostConnection /\ H!Next
    \/ UseStorageWindows /\ Next
    \/ UseStorageFile /\ F!Next
    \/ UseExtensionActivation /\ A!Next
    \/ UseProtocolFraming /\ B!Next

\* What promises, timers and messages do by themselves.
PartProgress ==
    \/ UseLimiter /\ L!Progress
    \/ UseResourceQueue /\ Q!Progress
    \/ UseThrottledWorker /\ W!Progress
    \/ UseIpcChannels /\ I!Progress
    \/ UseExtensionHostConnection /\ H!Progress
    \/ UseStorageWindows /\ Progress
    \/ UseExtensionActivation /\ A!Progress

\* The event loops go on: while there is such a step to take, one is taken in the end.
\* Which one is not said; every step uses up something, so that no step can put off
\* the others for ever.
PartSpec == PartInit /\ [][PartNext]_partVars /\ WF_partVars(PartProgress)

-----------------------------------------------------------------------------
(* Properties, as the modules of the components state them; those of       *)
(* StorageWindows are its own.                                             *)

\* Work starts in order and within its limits: a Limiter runs the first M of the
\* tasks that have not ended, a ResourceQueue the tasks of a resource one at a time
\* even though its queue is disposed and made again in between, and a
\* ThrottledWorker handles what it has accepted once and in order, with a buffer
\* that stays within the limit of work().
OrderAndLimits == L!FirstMRun /\ Q!OneAtATime /\ W!HandledInOrder /\ W!BufferIsBounded

\* Limiter and ResourceQueue: whenIdle() and whenDrained() end only when no task is
\* left of those that were known at the call.
DoneMeansDone == L!IdleMeansDone /\ Q!DrainedMeansDone

\* ThrottledWorker: it rests between chunks, and with the option between any calls
\* of the handler.
RestsBetweenChunks == W!RestsBetweenChunks

\* Every task settles or is dropped by clear() or dispose(), whoever waits until a
\* Limiter is idle or a ResourceQueue drained goes on, and a ThrottledWorker handles
\* everything that it has accepted.
EverythingEnds ==
    L!EverythingEnds /\ Q!EverythingEnds /\ W!EventuallyHandled

\* IpcChannels: a call reaches its channel at most once, and when nothing is under way
\* the server works only for requests that the client still has.
ServedExactly == I!ExecutedOnce /\ I!NoOrphans

\* IpcChannels: every call ends, by its response, by the timer for an unknown channel,
\* by its token or because one side is disposed.
CallsSettle == I!CallsSettle

\* ExtensionHostConnection: once nothing is under way the process uses the socket that
\* its client holds, and no grace timer runs while it does.
HostFollowsClient == H!LastSocketWins /\ H!TimersOnlyWhenCut

\* ExtensionHostConnection: the process comes to serve its client for good, or exits
\* and is forgotten by the server, unless start() has thrown, which is only logged.
ExtensionHostSettles == H!EventuallySettled

\* StorageFile: no single failure makes a session start without what an earlier one
\* stored and closed, except that of getItems().
SurvivesOneFault == F!SurvivesOneFault

\* ExtensionActivation: the registry loses the extensions from which dependencies lead
\* into a loop, and no others.
LoopsAreRemoved == part = "ExtensionActivation" => A!LoopsAreRemoved

\* ExtensionActivation: the code of an extension runs only when its dependencies are
\* activated.
DependenciesFirst == A!DependenciesFirst

\* ExtensionActivation: every activation event ends, also if extensions fail.
EventsEnd == A!EventsEnd

\* ProtocolFraming: no byte is lost, doubled or read out of order, wherever TCP cuts the
\* stream and whenever another reader takes over; every message is delivered once, in
\* order and with its own body to a protocol that does not drop it, and as soon as it is
\* there.
FramingIsExact == B!StreamIsIntact /\ B!MessagesInOrder /\ B!NothingStuck
=============================================================================
