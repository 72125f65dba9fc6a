------------------------- MODULE LimiterOperations -------------------------
(***************************************************************************)
(* The methods of the class Limiter (base/common/async.ts) as operators on *)
(* its fields.  Queue is a Limiter with maxDegreeOfParalellism 1.          *)
(*                                                                         *)
(* A task is a number.  A factory returns a promise, as its type says, and *)
(* does not throw.                                                         *)
(***************************************************************************)
EXTENDS Integers, Sequences

CONSTANT maxDegreeOfParalellism   \* at least 1

NewLimiter ==
    [size |-> 0, runningPromises |-> 0, outstandingPromises |-> <<>>,
     isDisposed |-> FALSE]

\* How many tasks the loop of consume() starts.
Starts(l) ==
    LET free == maxDegreeOfParalellism - l.runningPromises
    IN  IF Len(l.outstandingPromises) < free THEN Len(l.outstandingPromises)
        ELSE IF free > 0 THEN free ELSE 0

\* The tasks that consume() starts.
Started(l) == {l.outstandingPromises[i] : i \in 1..Starts(l)}

\* consume()
Consume(l) ==
    [l EXCEPT !.runningPromises = @ + Starts(l),
              !.outstandingPromises = SubSeq(@, Starts(l) + 1, Len(@))]

\* queue(), before it calls consume().
Enqueue(l, t) ==
    [l EXCEPT !.size = @ + 1, !.outstandingPromises = Append(@, t)]

MutantConsumed(l) == [l EXCEPT !.size = @ - 1]

\* consumed(), before it fires onDrained and calls consume().
Consumed(l) ==
    [l EXCEPT !.size = @ - 1, !.runningPromises = @ - 1]

MutantClear(l) == [l EXCEPT !.outstandingPromises = <<>>]

\* clear()
Clear(l) ==
    [l EXCEPT !.size = l.runningPromises, !.outstandingPromises = <<>>]

\* dispose()
DisposeLimiter(l) ==
    [l EXCEPT !.size = 0, !.outstandingPromises = <<>>, !.isDisposed = TRUE]

=============================================================================
