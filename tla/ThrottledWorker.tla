-------------------------- MODULE ThrottledWorker --------------------------
(***************************************************************************)
(* The ThrottledWorker of base/common/async.ts, which the file watchers    *)
(* use to report changes in chunks.  A unit of work is a number, in the    *)
(* order in which work() has accepted it.  The handler does not call       *)
(* work() itself.                                                          *)
(***************************************************************************)
EXTENDS Integers, Sequences, SequencesExt

CONSTANTS
    maxWorkChunkSize,
    maxBufferedWork,
    MaxUnits    \* bound: units accepted

VARIABLES
    waitThrottleDelayBetweenWorkUnits,   \* an option
    pendingWork,
    throttler,   \* whether the throttler is scheduled
    rested,      \* throttleDelay has passed since lastExecutionTime
    disposed,
    accepted,    \* the number of units that work() has accepted
    handled      \* what the handler was called with

vars == <<waitThrottleDelayBetweenWorkUnits, pendingWork, throttler, rested, disposed,
          accepted, handled>>

Init ==
    /\ waitThrottleDelayBetweenWorkUnits \in BOOLEAN
    /\ pendingWork = <<>>
    /\ throttler = FALSE
    /\ rested = TRUE
    /\ disposed = FALSE
    /\ accepted = 0
    /\ handled = <<>>

\* Work that work() does not accept: when it is not throttled, one chunk is going
\* to be worked on directly.
TooMuch(n) ==
    Len(pendingWork) + n - (IF throttler THEN 0 ELSE maxWorkChunkSize) > maxBufferedWork

ChunkOf(work) ==
    IF Len(work) < maxWorkChunkSize THEN work ELSE SubSeq(work, 1, maxWorkChunkSize)

Remaining(work) == SubSeq(work, Len(ChunkOf(work)) + 1, Len(work))

\* The throttler is scheduled after a chunk if work is left.
Schedules(work) == work # <<>>

\* doWork() with that work pending.
DoWork(work) ==
    /\ handled' = Append(handled, ChunkOf(work))
    /\ pendingWork' = Remaining(work)
    /\ throttler' = Schedules(Remaining(work))
    /\ rested' = FALSE

MutantWorksAtOnce == ~throttler

\* Work directly if we are not throttling and not enforced to throttle between
\* calls of work().
WorksDirectly == ~throttler /\ (~waitThrottleDelayBetweenWorkUnits \/ rested)

\* work() with n units.
Work(n) ==
    LET work == pendingWork \o [i \in 1..n |-> accepted + i]
    IN  /\ ~disposed
        /\ accepted + n <= MaxUnits
        /\ ~TooMuch(n)
        /\ accepted' = accepted + n
        /\ IF WorksDirectly
           THEN DoWork(work)
           ELSE /\ pendingWork' = work
                /\ throttler' = TRUE
                /\ UNCHANGED <<handled, rested>>
        /\ UNCHANGED <<waitThrottleDelayBetweenWorkUnits, disposed>>

\* The timer of the throttler.
ThrottlerFires ==
    /\ throttler
    /\ rested
    /\ DoWork(pendingWork)
    /\ UNCHANGED <<waitThrottleDelayBetweenWorkUnits, accepted, disposed>>

\* throttleDelay passes.
TimePasses ==
    /\ ~rested
    /\ rested' = TRUE
    /\ UNCHANGED <<waitThrottleDelayBetweenWorkUnits, pendingWork, throttler, disposed,
                   accepted, handled>>

Dispose ==
    /\ ~disposed
    /\ disposed' = TRUE
    /\ throttler' = FALSE
    /\ UNCHANGED <<waitThrottleDelayBetweenWorkUnits, pendingWork, rested, accepted,
                   handled>>

Next ==
    \/ \E n \in 1..MaxUnits : Work(n)
    \/ ThrottlerFires
    \/ TimePasses
    \/ Dispose

Spec == Init /\ [][Next]_vars

\* The timer fires and time goes on.
Progress == ThrottlerFires \/ TimePasses

-----------------------------------------------------------------------------
(* Properties.                                                             *)

\* Work that was accepted is handled once and in order, whether it came while the
\* worker was throttled or not.
HandledInOrder ==
    FlattenSeq(handled) \o pendingWork = [i \in 1..accepted |-> i]

\* The limit of the buffer: "there is a maximum of units the worker will keep in
\* memory for processing (via `maxBufferedWork`)" (async.ts:1174).  A worker that
\* waits between calls of work() may keep a chunk more: it accepts the units as if
\* it were going to work on a chunk directly (async.ts:1225), and does not.
BufferIsBounded ==
    Len(pendingWork) <= maxBufferedWork +
        (IF waitThrottleDelayBetweenWorkUnits THEN maxWorkChunkSize ELSE 0)

\* While there is work pending, the worker rests before it goes on; if it has to
\* wait between calls of work(), it always does.
RestsBetweenChunks ==
    [][handled' # handled /\ (pendingWork # <<>> \/ waitThrottleDelayBetweenWorkUnits)
       => rested]_vars

\* Everything that was accepted is handled in the end: pending work always has a
\* throttler that is scheduled.
EventuallyHandled == <>[](pendingWork = <<>> \/ disposed)

=============================================================================
