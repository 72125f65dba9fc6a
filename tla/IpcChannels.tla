---------------------------- MODULE IpcChannels -----------------------------
(***************************************************************************)
(* The classes ChannelClient and ChannelServer of                          *)
(* base/parts/ipc/common/ipc.ts: calls to a channel and subscriptions to   *)
(* its events, over a protocol that delivers messages in order.  Requests  *)
(* may be made before the server is there, and may reach the server before *)
(* the channel is registered.  The data that an event carries, and the     *)
(* messages with it, are left out.                                         *)
(***************************************************************************)
EXTENDS Naturals, Sequences, SequencesExt

CONSTANTS
    Calls,        \* ids of the requests for a promise
    Events,       \* ids of the requests for an event
    MaxListens,   \* bound: how often a listener is added to an event
    MaxRegisters  \* bound: how often the channel is registered

VARIABLES
    idle,         \* client: the state is State.Idle
    isDisposed,   \* client
    phase,        \* client, of a call: "new", "waiting", "sent" or "settled";
                  \* of an event: "off", "waiting" or "sent"
    handlers,     \* client: the calls with a handler for the response
    listens,      \* client: listeners added so far
    toServer, toClient,
    registers,    \* server: how often the channel was registered
    flushes,      \* server: timers of registerChannel() that are due
    pendingRequests,  \* server, in order, each with its timer
    running,      \* server: the calls whose promise is not settled
    executed,     \* server: how often a call was started
    activeRequests,   \* server
    subscriptions,    \* server: live listeners, by id
    down,         \* server: disposed
    late          \* the ids that were withdrawn while their request was pending

clientVars == <<idle, isDisposed, phase, handlers, listens>>
serverVars == <<registers, flushes, pendingRequests, running, executed, activeRequests,
                subscriptions, down, late>>
vars == <<clientVars, toServer, toClient, serverVars>>

Ids == Calls \cup Events

Message(type, id) == [type |-> type, id |-> id]
Initialize == [type |-> "Initialize"]

Init ==
    /\ idle = FALSE
    /\ isDisposed = FALSE
    /\ phase = [i \in Ids |-> IF i \in Calls THEN "new" ELSE "off"]
    /\ handlers = {}
    /\ listens = [e \in Events |-> 0]
    /\ toServer = <<>>
    /\ toClient = <<Initialize>>
    /\ registers = 0
    /\ flushes = 0
    /\ pendingRequests = <<>>
    /\ running = {}
    /\ executed = [c \in Calls |-> 0]
    /\ activeRequests = {}
    /\ subscriptions = [e \in Events |-> 0]
    /\ down = FALSE
    /\ late = {}

-----------------------------------------------------------------------------
(* ChannelClient.                                                          *)

Send(ms) == toServer' = IF down THEN toServer ELSE toServer \o ms

\* doRequest() of requestPromise().
DoRequest(c) ==
    /\ phase' = [phase EXCEPT ![c] = "sent"]
    /\ handlers' = handlers \cup {c}
    /\ Send(<<Message("Promise", c)>>)

\* call(), with a token that is not cancelled.
Call(c) ==
    /\ phase[c] = "new"
    /\ \/ /\ isDisposed
          /\ phase' = [phase EXCEPT ![c] = "settled"]
          /\ UNCHANGED <<handlers, toServer>>
       \/ /\ ~isDisposed /\ idle
          /\ DoRequest(c)
       \/ /\ ~isDisposed /\ ~idle
          /\ phase' = [phase EXCEPT ![c] = "waiting"]
          /\ UNCHANGED <<handlers, toServer>>
    /\ UNCHANGED <<idle, isDisposed, listens, toClient, serverVars>>

\* The token of a call is cancelled: cancel() runs, and once more when the
\* promise is rejected and its disposable is disposed.
Cancel(c) ==
    /\ phase[c] \in {"waiting", "sent"}
    /\ phase' = [phase EXCEPT ![c] = "settled"]
    /\ LET m == Message("PromiseCancel", c)
       IN  Send(IF phase[c] = "sent" THEN <<m, m>> ELSE <<m>>)
    /\ UNCHANGED <<idle, isDisposed, handlers, listens, toClient, serverVars>>

\* The first listener is added to an event.
Listen(e) ==
    /\ phase[e] = "off"
    /\ ~isDisposed
    /\ listens[e] < MaxListens
    /\ listens' = [listens EXCEPT ![e] = @ + 1]
    /\ phase' = [phase EXCEPT ![e] = "waiting"]
    /\ UNCHANGED <<idle, isDisposed, handlers, toServer, toClient, serverVars>>

\* The last listener is removed.
Unlisten(e) ==
    /\ phase[e] \in {"waiting", "sent"}
    /\ phase' = [phase EXCEPT ![e] = "off"]
    /\ Send(IF phase[e] = "sent" THEN <<Message("EventDispose", e)>> ELSE <<>>)
    /\ UNCHANGED <<idle, isDisposed, handlers, listens, toClient, serverVars>>

\* The promise whenInitialized() of a request is resolved.
Initialized(i) ==
    /\ idle
    /\ phase[i] = "waiting"
    /\ IF i \in Calls THEN DoRequest(i)
       ELSE /\ phase' = [phase EXCEPT ![i] = "sent"]
            /\ Send(<<Message("EventListen", i)>>)
            /\ UNCHANGED handlers
    /\ UNCHANGED <<idle, isDisposed, listens, toClient, serverVars>>

\* Promises that are resolved come before the next message.
Turn == ~(idle /\ \E i \in Ids : phase[i] = "waiting")

\* onBuffer(): the end of a call makes its disposable send a PromiseCancel.
ClientReceives ==
    /\ toClient # <<>>
    /\ ~isDisposed
    /\ Turn
    /\ toClient' = Tail(toClient)
    /\ LET m == Head(toClient)
       IN  \/ /\ m.type = "Initialize"
              /\ idle' = TRUE
              /\ UNCHANGED <<phase, handlers, toServer>>
           \/ /\ m.type \in {"PromiseSuccess", "PromiseError"}
              /\ handlers' = handlers \ {m.id}
              /\ IF m.id \in handlers /\ phase[m.id] = "sent"
                 THEN /\ phase' = [phase EXCEPT ![m.id] = "settled"]
                      /\ Send(<<Message("PromiseCancel", m.id)>>)
                 ELSE UNCHANGED <<phase, toServer>>
              /\ UNCHANGED idle
    /\ UNCHANGED <<isDisposed, listens, serverVars>>

\* What dispose() of the client does to a request: events that still wait
\* are not among the active requests.
DisposedPhase(i) ==
    IF i \in Calls THEN IF phase[i] = "new" THEN "new" ELSE "settled"
    ELSE IF phase[i] = "sent" THEN "off" ELSE phase[i]

\* The messages that withdraw the active requests.
Withdrawals ==
    LET sent == {i \in Ids : phase[i] = "sent"}
    IN  SetToSeq({Message(IF i \in Calls THEN "PromiseCancel" ELSE "EventDispose", i) :
                    i \in sent})

DisposeClient ==
    /\ ~isDisposed
    /\ isDisposed' = TRUE
    /\ phase' = [i \in Ids |-> DisposedPhase(i)]
    /\ Send(Withdrawals)
    /\ UNCHANGED <<idle, handlers, listens, toClient, serverVars>>

-----------------------------------------------------------------------------
(* ChannelServer.                                                          *)

Answer(m) == toClient' = IF down THEN toClient ELSE Append(toClient, m)

\* onPromise() and onEventListen() for the requests of a sequence, when the
\* channel is registered.
Start(ms) ==
    LET ids == {ms[n].id : n \in DOMAIN ms}
        Times(i) == Len(SelectSeq(ms, LAMBDA m : m.id = i))
    IN  /\ running' = running \cup (ids \cap Calls)
        /\ executed' = [c \in Calls |-> executed[c] + Times(c)]
        /\ activeRequests' = activeRequests \cup ids
        /\ subscriptions' = [e \in Events |-> subscriptions[e] + Times(e)]

MutantTimer(m) == m.type # "Promise"

\* collectPendingRequest() sets a timer for every request.
Timer(m) == TRUE

CollectPendingRequest(m) ==
    /\ pendingRequests' = Append(pendingRequests, [type |-> m.type, id |-> m.id,
                                                   timer |-> Timer(m)])
    /\ UNCHANGED <<running, executed, activeRequests, subscriptions>>

IsPending(i) == \E n \in DOMAIN pendingRequests : pendingRequests[n].id = i

\* The token of a call is cancelled, or the listener of an event disposed.
DisposeActiveRequest(i) ==
    /\ activeRequests' = activeRequests \ {i}
    /\ subscriptions' = [e \in Events |-> IF e = i /\ i \in activeRequests
                                          THEN subscriptions[e] - 1 ELSE subscriptions[e]]

\* onRawMessage().
ServerReceives ==
    /\ toServer # <<>>
    /\ ~down
    /\ toServer' = Tail(toServer)
    /\ LET m == Head(toServer)
       IN  \/ /\ m.type \in {"Promise", "EventListen"}
              /\ registers > 0
              /\ Start(<<m>>)
              /\ UNCHANGED <<pendingRequests, late>>
           \/ /\ m.type \in {"Promise", "EventListen"}
              /\ registers = 0
              /\ CollectPendingRequest(m)
              /\ UNCHANGED late
           \/ /\ m.type \in {"PromiseCancel", "EventDispose"}
              /\ DisposeActiveRequest(m.id)
              /\ late' = IF IsPending(m.id) THEN late \cup {m.id} ELSE late
              /\ UNCHANGED <<pendingRequests, running, executed>>
    /\ UNCHANGED <<clientVars, toClient, registers, flushes, down>>

\* The timer of a pending request: a call is answered with an error.  The
\* request stays where it is.
RequestTimesOut(n) ==
    /\ pendingRequests[n].timer
    /\ pendingRequests' = [pendingRequests EXCEPT ![n].timer = FALSE]
    /\ IF pendingRequests[n].type = "Promise"
       THEN Answer(Message("PromiseError", pendingRequests[n].id))
       ELSE UNCHANGED toClient
    /\ UNCHANGED <<clientVars, toServer, registers, flushes, running, executed,
                   activeRequests, subscriptions, down, late>>

\* registerChannel() sets a timer for the requests that came too early.
RegisterChannel ==
    /\ ~down
    /\ registers < MaxRegisters
    /\ registers' = registers + 1
    /\ flushes' = flushes + 1
    /\ UNCHANGED <<clientVars, toServer, toClient, pendingRequests, running, executed,
                   activeRequests, subscriptions, down, late>>

MutantAfterFlush == pendingRequests

\* The requests that are pending after flushPendingRequests().
AfterFlush == <<>>

FlushPendingRequests ==
    /\ flushes > 0
    /\ flushes' = flushes - 1
    /\ Start(pendingRequests)
    /\ pendingRequests' = AfterFlush
    /\ UNCHANGED <<clientVars, toServer, toClient, registers, down, late>>

\* The promise that the channel returned settles.
CallEnds(c) ==
    /\ c \in running
    /\ running' = running \ {c}
    /\ activeRequests' = activeRequests \ {c}
    /\ \E type \in {"PromiseSuccess", "PromiseError"} : Answer(Message(type, c))
    /\ UNCHANGED <<clientVars, toServer, registers, flushes, pendingRequests, executed,
                   subscriptions, down, late>>

\* The connection is lost: both sides are disposed, what is under way is lost.
\* Pending requests and the timers of registerChannel() are left.
Disconnect ==
    /\ ~down
    /\ down' = TRUE
    /\ isDisposed' = TRUE
    /\ phase' = [i \in Ids |-> IF isDisposed THEN phase[i] ELSE DisposedPhase(i)]
    /\ toServer' = <<>>
    /\ toClient' = <<>>
    /\ activeRequests' = {}
    /\ subscriptions' = [e \in Events |-> IF e \in activeRequests THEN subscriptions[e] - 1
                                          ELSE subscriptions[e]]
    /\ late' = late \cup {i \in Ids : IsPending(i)}
    /\ UNCHANGED <<idle, handlers, listens, registers, flushes, pendingRequests, running,
                   executed>>

Next ==
    \/ \E c \in Calls : Call(c) \/ Cancel(c) \/ CallEnds(c)
    \/ \E e \in Events : Listen(e) \/ Unlisten(e)
    \/ \E i \in Ids : Initialized(i)
    \/ \E n \in DOMAIN pendingRequests : RequestTimesOut(n)
    \/ ClientReceives
    \/ DisposeClient
    \/ ServerReceives
    \/ RegisterChannel
    \/ FlushPendingRequests
    \/ Disconnect

Spec == Init /\ [][Next]_vars

\* Messages arrive, timers fire, and every call of the channel ends.  The
\* channel need not be registered.
Progress ==
    \/ \E i \in Ids : Initialized(i)
    \/ \E c \in Calls : CallEnds(c)
    \/ \E n \in DOMAIN pendingRequests : RequestTimesOut(n)
    \/ ClientReceives
    \/ ServerReceives
    \/ FlushPendingRequests

-----------------------------------------------------------------------------
(* Properties.                                                             *)

\* A call reaches the channel at most once, though it may wait in
\* pendingRequests while the channel is registered, its timer fires and the
\* caller gives up.
ExecutedOnce == \A c \in Calls : executed[c] <= 1

\* When nothing is under way, the server works only for requests the client
\* still has: a call that was cancelled is no longer active, and an event has
\* one listener if the client listens and none otherwise.  The exception is
\* a request withdrawn while it was pending, which the server forgets.
NoOrphans ==
    toServer = <<>> /\ pendingRequests = <<>> =>
        /\ \A c \in Calls \ late : c \in activeRequests => phase[c] = "sent"
        /\ \A e \in Events \ late : subscriptions[e] = IF phase[e] = "sent" /\ ~down
                                                       THEN 1 ELSE 0

\* Once no more is asked, every call has ended, by its response, by the timer for an
\* unknown channel, by its token or because one side is disposed.
CallsSettle == <>[](\A c \in Calls : phase[c] \in {"new", "settled"})
=============================================================================
