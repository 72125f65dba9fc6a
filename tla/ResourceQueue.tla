--------------------------- MODULE ResourceQueue ---------------------------
(***************************************************************************)
(* The ResourceQueue of base/common/async.ts, with which the file service, *)
(* the backups and the models of editors keep the operations on a resource *)
(* in order: a Queue per resource that is made when it is needed and       *)
(* disposed when it has drained.                                           *)
(*                                                                         *)
(* A queue is a number, in the order in which they are made.               *)
(***************************************************************************)
EXTENDS LimiterOperations, FiniteSets

CONSTANTS
    Resources,
    MaxTasks,    \* bound: calls of queueFor()
    MaxDrainers  \* bound: calls of whenDrained() that have to wait

VARIABLES
    queues,      \* the map from resources to queues
    made,        \* the queues made so far
    task,        \* the tasks: their resource, queue and status
    drainers,    \* the calls of whenDrained(): the tasks then known, and whether
                 \* the promise is resolved
    isDisposed

vars == <<queues, made, task, drainers, isDisposed>>

NoQueue == 0

Init ==
    /\ queues = [r \in Resources |-> NoQueue]
    /\ made = <<>>
    /\ task = <<>>
    /\ drainers = <<>>
    /\ isDisposed = FALSE

WithStarted(ts, l) ==
    [t \in DOMAIN ts |-> IF t \in Started(l) THEN [ts[t] EXCEPT !.status = "running"]
                                             ELSE ts[t]]

\* queueFor()
QueueFor(r) ==
    LET t == Len(task) + 1
        q == IF queues[r] = NoQueue THEN Len(made) + 1 ELSE queues[r]
        all == IF queues[r] = NoQueue THEN Append(made, NewLimiter) ELSE made
        l == Enqueue(all[q], t)
    IN  /\ Len(task) < MaxTasks
        /\ queues' = [queues EXCEPT ![r] = q]
        /\ made' = [all EXCEPT ![q] = Consume(l)]
        /\ task' = WithStarted(Append(task, [resource |-> r, queue |-> q,
                                             status |-> "waiting"]), l)
        /\ UNCHANGED <<drainers, isDisposed>>

MutantIsDrained(qs, ls) == \E r \in Resources : qs[r] = NoQueue

\* isDrained(), for the queues qs and their fields ls.
IsDrained(qs, ls) ==
    \A r \in Resources : qs[r] # NoQueue => ls[qs[r]].size = 0

ReleaseDrainers == [i \in DOMAIN drainers |-> [drainers[i] EXCEPT !.resolved = TRUE]]

\* The listener of onDrained removes the queue from the map.
Removed(q) == [r \in Resources |-> IF queues[r] = q THEN NoQueue ELSE queues[r]]

\* The promise of a task settles.  The last one of a queue drains it: the queue is
\* disposed, and the drainers are released if no other queue has work.
TaskSettles(t) ==
    LET q == task[t].queue
        l == Consumed(made[q])
        ts == [task EXCEPT ![t].status = "settled"]
    IN  /\ task[t].status = "running"
        /\ IF made[q].isDisposed
           THEN task' = ts /\ UNCHANGED <<queues, made, drainers>>
           ELSE IF l.size = 0
           THEN /\ made' = [made EXCEPT ![q] = DisposeLimiter(l)]
                /\ queues' = Removed(q)
                /\ drainers' = IF IsDrained(queues', made') THEN ReleaseDrainers
                                                            ELSE drainers
                /\ task' = ts
           ELSE /\ made' = [made EXCEPT ![q] = Consume(l)]
                /\ task' = WithStarted(ts, l)
                /\ UNCHANGED <<queues, drainers>>
        /\ UNCHANGED isDisposed

\* whenDrained() that has to wait.
WhenDrained ==
    /\ ~IsDrained(queues, made)
    /\ Len(drainers) < MaxDrainers
    /\ drainers' = Append(drainers, [known |-> Len(task), resolved |-> FALSE])
    /\ UNCHANGED <<queues, made, task, isDisposed>>

\* dispose() releases the drainers "to prevent hanging promises".
ReleasedAtEnd == ReleaseDrainers

\* dispose().  Somebody may still call queueFor() and whenDrained() afterwards.
Dispose ==
    /\ ~isDisposed
    /\ isDisposed' = TRUE
    /\ made' = [q \in DOMAIN made |-> IF \E r \in Resources : queues[r] = q
                                      THEN DisposeLimiter(made[q]) ELSE made[q]]
    /\ queues' = [r \in Resources |-> NoQueue]
    /\ task' = [t \in DOMAIN task |-> IF task[t].status = "waiting"
                                      THEN [task[t] EXCEPT !.status = "dropped"]
                                      ELSE task[t]]
    /\ drainers' = ReleasedAtEnd

Next ==
    \/ \E r \in Resources : QueueFor(r)
    \/ \E t \in DOMAIN task : TaskSettles(t)
    \/ WhenDrained
    \/ Dispose

Spec == Init /\ [][Next]_vars

\* The promises of tasks settle in the end.
Progress == \E t \in DOMAIN task : TaskSettles(t)

-----------------------------------------------------------------------------
(* Properties.                                                             *)

With(s) == {t \in DOMAIN task : task[t].status = s}

\* Tasks of a resource run one at a time and in order, even though its queue is
\* disposed and made again in between.
OneAtATime ==
    ~isDisposed =>
        \A t \in With("running"), u \in DOMAIN task :
            task[u].resource = task[t].resource =>
                IF u < t THEN task[u].status = "settled"
                ELSE u > t => task[u].status = "waiting"

\* whenDrained() ends when no task of any resource is left of those it knew.
DrainedMeansDone ==
    \A i \in DOMAIN drainers :
        drainers[i].resolved =>
            isDisposed \/ 1..drainers[i].known \subseteq With("settled")

Released == {i \in DOMAIN drainers : drainers[i].resolved}

\* Once no more is queued, every task has run and settled unless it was dropped by
\* dispose(), and whoever waited for the drain has gone on: no queue that has drained
\* is forgotten, and dispose() leaves nobody waiting.
EverythingEnds ==
    <>[](With("settled") \cup With("dropped") = DOMAIN task /\ Released = DOMAIN drainers)

=============================================================================
