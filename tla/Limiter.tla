------------------------------ MODULE Limiter ------------------------------
(***************************************************************************)
(* A Limiter (base/common/async.ts) and those who use it: they queue       *)
(* tasks, whose promises settle in any order, wait until it is idle, clear *)
(* it and dispose it.                                                      *)
(***************************************************************************)
EXTENDS LimiterOperations, FiniteSets

CONSTANTS
    MaxTasks,    \* bound: calls of queue()
    MaxWaiters   \* bound: calls of whenIdle() that have to wait

VARIABLES
    limiter,
    status,      \* of the tasks, in the order of queue(): "waiting", "running",
                 \* "settled", or "dropped" by clear() or dispose()
    waiters      \* calls of whenIdle(): the tasks then known, and whether its
                 \* promise is resolved

vars == <<limiter, status, waiters>>

Init ==
    /\ limiter = NewLimiter
    /\ status = <<>>
    /\ waiters = <<>>

\* The status of the tasks once consume() has started some of limiter l.
WithStarted(st, l) ==
    [t \in DOMAIN st |-> IF t \in Started(l) THEN "running" ELSE st[t]]

Queue ==
    LET t == Len(status) + 1
        l == Enqueue(limiter, t)
    IN  /\ ~limiter.isDisposed
        /\ Len(status) < MaxTasks
        /\ limiter' = Consume(l)
        /\ status' = WithStarted(Append(status, "waiting"), l)
        /\ UNCHANGED waiters

Resolved(ws) == [i \in DOMAIN ws |-> [ws[i] EXCEPT !.resolved = TRUE]]

\* The promise of a task settles.
TaskSettles(t) ==
    LET st == [status EXCEPT ![t] = "settled"]
        l == Consumed(limiter)
    IN  /\ status[t] = "running"
        /\ IF limiter.isDisposed
           THEN status' = st /\ UNCHANGED <<limiter, waiters>>
           ELSE /\ waiters' = IF l.size = 0 THEN Resolved(waiters) ELSE waiters
                /\ limiter' = Consume(l)
                /\ status' = WithStarted(st, l)

\* A call that finds nothing to do does not wait.
WhenIdle ==
    /\ limiter.size > 0
    /\ Len(waiters) < MaxWaiters
    /\ waiters' = Append(waiters, [known |-> Len(status), resolved |-> FALSE])
    /\ UNCHANGED <<limiter, status>>

Dropped == [t \in DOMAIN status |-> IF status[t] = "waiting" THEN "dropped" ELSE status[t]]

ClearLimiter ==
    /\ ~limiter.isDisposed
    /\ limiter' = Clear(limiter)
    /\ status' = Dropped
    /\ UNCHANGED waiters

Dispose ==
    /\ ~limiter.isDisposed
    /\ limiter' = DisposeLimiter(limiter)
    /\ status' = Dropped
    /\ UNCHANGED waiters

Next ==
    \/ Queue
    \/ \E t \in DOMAIN status : TaskSettles(t)
    \/ WhenIdle
    \/ ClearLimiter
    \/ Dispose

Spec == Init /\ [][Next]_vars

\* The promises of tasks settle in the end.
Progress == \E t \in DOMAIN status : TaskSettles(t)

-----------------------------------------------------------------------------
(* Properties.                                                             *)

Running == {t \in DOMAIN status : status[t] = "running"}
Waiting == {t \in DOMAIN status : status[t] = "waiting"}
Ended == {t \in DOMAIN status : status[t] \in {"settled", "dropped"}}
Released == {i \in DOMAIN waiters : waiters[i].resolved}

\* The tasks that run are the first M of those that have not ended.  So "at any
\* time no more than M promises are running at the same time" (async.ts:650), no
\* slot is lost when tasks end or when the limiter is cleared while they run, and
\* tasks start in the order in which they were queued.
FirstMRun ==
    LET live == Running \cup Waiting
    IN  Running = {t \in live :
                     Cardinality({u \in live : u < t}) < maxDegreeOfParalellism}

\* "A promise that resolved when all work is done" (async.ts:670): no task that was
\* known at the call is waiting or running any more.
IdleMeansDone ==
    \A i \in Released :
        1..waiters[i].known \subseteq Ended

\* Once no more is queued, every task that is not dropped has run and settled, and
\* whoever waited until the limiter is idle has gone on, unless it is disposed: also
\* after clear().
EverythingEnds ==
    <>[](Ended = DOMAIN status /\ (Released = DOMAIN waiters \/ limiter.isDisposed))

=============================================================================
