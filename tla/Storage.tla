------------------------------ MODULE Storage -------------------------------
(***************************************************************************)
(* The class Storage of base/parts/storage/common/storage.ts: a map that   *)
(* is kept in memory and written to a database in the background, through  *)
(* a ThrottledDelayer (base/common/async.ts).  The database is the one of  *)
(* base/parts/storage/node/storage.ts, seen through the calls Storage      *)
(* makes.  Everything runs on one event loop: an action is what happens    *)
(* between two turns of it.                                                *)
(***************************************************************************)
EXTENDS Naturals

CONSTANTS
    Keys, Values,
    Missing,      \* the value of a key that is not in a map
    NoRequest,    \* no update is in flight
    Calls,        \* the optional operations and events
    MaxChanges,   \* bound: changes made by set() and delete() in a session
    MaxRestarts   \* bound: restarts of the process

ASSUME StorageAssumption ==
    /\ Missing \notin Values
    /\ MaxChanges \in Nat
    /\ MaxRestarts \in Nat

VARIABLES
    state, cache, pendingInserts, pendingDeletes,
    loading,              \* init() awaits getItems()
    whenFlushedCallbacks, \* someone awaits whenFlushed()
    deferred,             \* the timer of the Delayer is set
    active,               \* Throttler: the update in flight
    queued,               \* Throttler: queuedPromise is set
    waits,                \* what close() and optimize() await
    db,                   \* the items in the database
    isErroneous,          \* the connection has seen an error
    restarts,
    snapshot,             \* the cache when the last update was taken from it
    version,              \* changes made in this session,
    taken, stored,        \* and how many the last update, the database have
    due                   \* the changes made when a flow called doFlush()

storageVars == <<state, cache, pendingInserts, pendingDeletes, loading,
                 whenFlushedCallbacks>>
delayerVars == <<deferred, active, queued, waits>>
databaseVars == <<db, isErroneous>>
ghostVars == <<snapshot, version, taken, stored, due>>
vars == <<storageVars, delayerVars, databaseVars, restarts, ghostVars>>

Maps == [Keys -> Values \cup {Missing}]
Empty == [k \in Keys |-> Missing]
Requests == [insert : Maps, delete : SUBSET Keys]

\* The operations that go on when their flush is done, and what they await:
\* the Delayer, the update in flight, the queued update, the queued update
\* in flight, nothing that ever settles, or the database.
Flows == {"close", "optimize"}
Stages == {"none", "delayer", "active", "queued", "requeued", "never",
           "database", "resolved", "rejected"}

ASSUME NoRequestAssumption == NoRequest \notin Requests

Init ==
    /\ state = "None"
    /\ cache = Empty
    /\ pendingInserts = Empty
    /\ pendingDeletes = {}
    /\ loading = FALSE
    /\ whenFlushedCallbacks = FALSE
    /\ deferred = FALSE
    /\ active = NoRequest
    /\ queued = FALSE
    /\ waits = [f \in Flows |-> "none"]
    /\ db \in Maps
    /\ isErroneous = FALSE
    /\ restarts = 0
    /\ snapshot = db
    /\ version = 0 /\ taken = 0 /\ stored = 0
    /\ due = [f \in Flows |-> 0]

-----------------------------------------------------------------------------
(* Updates.                                                                *)

\* updateItems(): the inserts, then the deletes, on the keys of ks.
ApplyTo(ks, m, r) ==
    [k \in Keys |-> IF k \notin ks THEN m[k]
                    ELSE IF k \in r.delete THEN Missing
                    ELSE IF r.insert[k] # Missing THEN r.insert[k] ELSE m[k]]

MutantApply(m, r) == ApplyTo({k \in Keys : r.insert[k] # Missing}, m, r)

Apply(m, r) == ApplyTo(Keys, m, r)

hasPending == pendingInserts # Empty \/ pendingDeletes # {}

Pending == [insert |-> pendingInserts, delete |-> pendingDeletes]

\* The part of flushPending() before its await, when there is something to
\* flush: the pending items become the update in flight.
TakePending ==
    /\ active' = Pending
    /\ pendingInserts' = Empty
    /\ pendingDeletes' = {}
    /\ snapshot' = cache
    /\ taken' = version

KeepPending == UNCHANGED <<pendingInserts, pendingDeletes, snapshot, taken>>

-----------------------------------------------------------------------------
(* init(), set(), delete(), whenFlushed().                                 *)

\* init() of a storage that does not exist yet needs no items.
InitNew ==
    /\ state = "None"
    /\ db = Empty
    /\ state' = "Initialized"
    /\ UNCHANGED <<cache, pendingInserts, pendingDeletes, loading,
                   whenFlushedCallbacks, delayerVars, databaseVars, restarts,
                   ghostVars>>

InitStorage ==
    /\ state = "None"
    /\ state' = "Initialized"
    /\ loading' = TRUE
    /\ UNCHANGED <<cache, pendingInserts, pendingDeletes, whenFlushedCallbacks,
                   delayerVars, databaseVars, restarts, ghostVars>>

\* getItems() ends.  If it fails the owner logs the error and goes on.
ItemsLoaded ==
    /\ loading
    /\ loading' = FALSE
    /\ \/ /\ cache' = db
          /\ UNCHANGED isErroneous
       \/ /\ "fail" \in Calls
          /\ isErroneous' = TRUE
          /\ UNCHANGED cache
    /\ UNCHANGED <<state, pendingInserts, pendingDeletes, whenFlushedCallbacks,
                   delayerVars, db, restarts, ghostVars>>

\* The owner awaits init() before it uses or closes the storage.
Usable == state = "Initialized" /\ ~loading

MutantTriggered == /\ deferred' = deferred
                   /\ UNCHANGED <<active, queued>>

\* ThrottledDelayer.trigger(): the timer of the Delayer is set anew.
Triggered == /\ deferred' = TRUE
             /\ UNCHANGED <<active, queued>>

Changed ==
    /\ version < MaxChanges
    /\ version' = version + 1
    /\ Triggered
    /\ UNCHANGED <<state, loading, whenFlushedCallbacks, waits, databaseVars,
                   restarts, snapshot, taken, stored, due>>

MutantSet(k, v) ==
    /\ Usable
    /\ cache[k] # v
    /\ cache' = [cache EXCEPT ![k] = v]
    /\ pendingInserts' = [pendingInserts EXCEPT ![k] = v]
    /\ UNCHANGED pendingDeletes
    /\ Changed

\* set() of a value that is not the current one; others are ignored.
Set(k, v) ==
    /\ Usable
    /\ cache[k] # v
    /\ cache' = [cache EXCEPT ![k] = v]
    /\ pendingInserts' = [pendingInserts EXCEPT ![k] = v]
    /\ pendingDeletes' = pendingDeletes \ {k}
    /\ Changed

\* delete() of a key that exists.
Delete(k) ==
    /\ Usable
    /\ cache[k] # Missing
    /\ cache' = [cache EXCEPT ![k] = Missing]
    /\ pendingDeletes' = pendingDeletes \cup {k}
    /\ pendingInserts' = [pendingInserts EXCEPT ![k] = Missing]
    /\ Changed

\* whenFlushed() when something is pending; otherwise it returns at once.
WhenFlushed ==
    /\ hasPending /\ ~whenFlushedCallbacks
    /\ whenFlushedCallbacks' = TRUE
    /\ UNCHANGED <<state, cache, pendingInserts, pendingDeletes, loading,
                   delayerVars, databaseVars, restarts, ghostVars>>

-----------------------------------------------------------------------------
(* close(), optimize(), flush(): they trigger a flush and go on after it.  *)

Await(f) ==
    /\ waits' = [waits EXCEPT ![f] = "delayer"]
    /\ due' = [due EXCEPT ![f] = version]
    /\ Triggered
    /\ UNCHANGED <<cache, pendingInserts, pendingDeletes, loading,
                   whenFlushedCallbacks, databaseVars, restarts, snapshot,
                   version, taken, stored>>

Close ==
    /\ Usable
    /\ waits["close"] = "none"
    /\ state' = "Closed"
    /\ Await("close")

Optimize ==
    /\ Usable
    /\ waits["optimize"] \in {"none", "resolved", "rejected"}
    /\ Await("optimize")
    /\ UNCHANGED state

Flush ==
    /\ Usable
    /\ ~deferred
    /\ Triggered
    /\ UNCHANGED <<storageVars, waits, databaseVars, restarts, ghostVars>>

-----------------------------------------------------------------------------
(* ThrottledDelayer.                                                       *)

\* The timer of the Delayer fires: Throttler.queue(flushPending).
DelayerFires ==
    /\ deferred
    /\ deferred' = FALSE
    /\ IF active # NoRequest
       THEN /\ queued' = TRUE
            /\ waits' = [f \in Flows |-> IF waits[f] = "delayer" THEN "queued" ELSE waits[f]]
            /\ UNCHANGED active
            /\ KeepPending
       ELSE /\ UNCHANGED queued
            /\ waits' = [f \in Flows |->
                           IF waits[f] # "delayer" THEN waits[f]
                           ELSE IF hasPending THEN "active" ELSE "database"]
            /\ IF hasPending THEN TakePending ELSE KeepPending /\ UNCHANGED active
    /\ UNCHANGED <<state, cache, loading, whenFlushedCallbacks, databaseVars,
                   restarts, version, stored, due>>

\* doClose() ignores an error of the flush, optimize() does not.
AfterFlush(f, ok) == IF ok \/ f = "close" THEN "database" ELSE "rejected"

MutantAfterUpdate(f, ok) ==
    IF waits[f] \in {"active", "queued", "requeued"} THEN AfterFlush(f, ok) ELSE waits[f]

\* Where f is once the update in flight has ended: queuedPromise follows the
\* queued update when that succeeds, and never settles when it fails.
AfterUpdate(f, ok) ==
    CASE waits[f] = "active" -> AfterFlush(f, ok)
      [] waits[f] = "queued" -> IF hasPending THEN "requeued" ELSE "database"
      [] waits[f] = "requeued" -> IF ok THEN "database" ELSE "never"
      [] OTHER -> waits[f]

\* Nothing is pending any more: whenFlushed() ends.
Released == whenFlushedCallbacks /\ hasPending
RunsQueued == queued /\ hasPending

\* The update in flight has ended: waiters are released if nothing is
\* pending, and the queued flush runs.
UpdateEnds(ok) ==
    /\ active # NoRequest
    /\ whenFlushedCallbacks' = Released
    /\ waits' = [f \in Flows |-> AfterUpdate(f, ok)]
    /\ queued' = FALSE
    /\ IF RunsQueued THEN TakePending ELSE KeepPending /\ active' = NoRequest
    /\ UNCHANGED <<state, cache, loading, deferred, restarts, version, due>>

UpdateDone ==
    /\ UpdateEnds(TRUE)
    /\ db' = Apply(db, active)
    /\ stored' = taken
    /\ UNCHANGED isErroneous

\* A statement fails, which only marks the connection, or the transaction
\* does, which also rejects.
UpdateFails ==
    /\ "fail" \in Calls
    /\ \E ok \in BOOLEAN : UpdateEnds(ok)
    /\ \E ks \in SUBSET Keys : db' = ApplyTo(ks, db, active)
    /\ isErroneous' = TRUE
    /\ UNCHANGED stored

-----------------------------------------------------------------------------
(* The database: close() with its recovery, optimize(); restarts.          *)

DatabaseEnds(f, result) ==
    /\ waits[f] = "database"
    /\ waits' = [waits EXCEPT ![f] = result]
    /\ UNCHANGED <<storageVars, deferred, active, queued, restarts, snapshot,
                   version, taken, due>>

\* A healthy connection is closed.
DatabaseClosed ==
    /\ ~isErroneous
    /\ DatabaseEnds("close", "resolved")
    /\ UNCHANGED <<databaseVars, stored>>

MutantRecovered(m) == UNCHANGED db

Recovered(m) == db' = m

\* The connection has seen an error, also now: the database is deleted and
\* filled with the cache again.
DatabaseRecovered ==
    /\ isErroneous \/ "fail" \in Calls
    /\ DatabaseEnds("close", "resolved")
    /\ isErroneous' = TRUE
    /\ Recovered(cache)
    /\ stored' = version

\* Deleting, opening or filling the database fails.
DatabaseNotRecovered ==
    /\ "fail" \in Calls
    /\ DatabaseEnds("close", "rejected")
    /\ isErroneous' = TRUE
    /\ \/ UNCHANGED db
       \/ \E ks \in SUBSET Keys : db' = [k \in Keys |-> IF k \in ks THEN cache[k] ELSE Missing]
    /\ UNCHANGED stored

\* VACUUM
DatabaseOptimized ==
    \/ /\ DatabaseEnds("optimize", "resolved")
       /\ UNCHANGED <<databaseVars, stored>>
    \/ /\ "fail" \in Calls
       /\ DatabaseEnds("optimize", "rejected")
       /\ isErroneous' = TRUE
       /\ UNCHANGED <<db, stored>>

\* The process ends, after close() or before, and starts again.  The
\* transaction in flight may have been committed.
Restart ==
    /\ restarts < MaxRestarts
    /\ restarts' = restarts + 1
    /\ db' \in {db} \cup (IF active = NoRequest THEN {} ELSE {Apply(db, active)})
    /\ state' = "None"
    /\ cache' = Empty
    /\ pendingInserts' = Empty
    /\ pendingDeletes' = {}
    /\ loading' = FALSE
    /\ whenFlushedCallbacks' = FALSE
    /\ deferred' = FALSE
    /\ active' = NoRequest
    /\ queued' = FALSE
    /\ waits' = [f \in Flows |-> "none"]
    /\ isErroneous' = FALSE
    /\ snapshot' = db'
    /\ version' = 0 /\ taken' = 0 /\ stored' = 0
    /\ due' = [f \in Flows |-> 0]

Next ==
    \/ InitNew \/ InitStorage \/ ItemsLoaded
    \/ \E k \in Keys, v \in Values : Set(k, v)
    \/ \E k \in Keys : Delete(k)
    \/ WhenFlushed
    \/ Close
    \/ "optimize" \in Calls /\ Optimize
    \/ "flush" \in Calls /\ Flush
    \/ DelayerFires \/ UpdateDone \/ UpdateFails
    \/ DatabaseClosed \/ DatabaseRecovered \/ DatabaseNotRecovered
    \/ DatabaseOptimized
    \/ Restart

Spec == Init /\ [][Next]_vars

\* Timers fire and calls of the database end.
Fairness ==
    /\ WF_vars(ItemsLoaded)
    /\ WF_vars(DelayerFires)
    /\ WF_vars(UpdateDone \/ UpdateFails)
    /\ WF_vars(DatabaseClosed \/ DatabaseRecovered \/ DatabaseNotRecovered)
    /\ WF_vars(DatabaseOptimized)

FairSpec == Spec /\ Fairness

-----------------------------------------------------------------------------
(* Properties.                                                             *)

\* Type invariant of Storage, its ThrottledDelayer and its database.
TypeOK ==
    /\ state \in {"None", "Initialized", "Closed"}
    /\ cache \in Maps /\ db \in Maps /\ snapshot \in Maps
    /\ pendingInserts \in Maps
    /\ pendingDeletes \in SUBSET Keys
    /\ loading \in BOOLEAN
    /\ whenFlushedCallbacks \in BOOLEAN
    /\ deferred \in BOOLEAN
    /\ queued \in BOOLEAN
    /\ active \in Requests \cup {NoRequest}
    /\ waits \in [Flows -> Stages]
    /\ isErroneous \in BOOLEAN
    /\ restarts \in 0..MaxRestarts
    /\ version \in 0..MaxChanges /\ taken \in 0..version /\ stored \in 0..version
    /\ due \in [Flows -> 0..version]

\* The cache has been filled by init().
Loaded == state # "None" /\ ~loading

\* The items the database has once the update in flight is done.
Settled == IF active = NoRequest THEN db ELSE Apply(db, active)

\* The cache is what the database has, the update in flight and the pending
\* items: no order of set(), delete(), flushes and close() loses a change or
\* brings an old value back (the pending sets are replaced, not copied, when
\* flushPending() takes them).
NothingLost ==
    Loaded /\ ~isErroneous => cache = Apply(Settled, Pending)

\* Pending items have a flush coming: the timer of the Delayer is set, or a
\* flush is queued behind the update in flight.
PendingIsScheduled ==
    hasPending => deferred \/ (queued /\ active # NoRequest)

\* When close() or optimize() goes on to the database, every change made
\* before its call is stored ("Await pending data to be flushed to the DB
\* before attempting to optimize the DB", storage.ts:324).
FlushCovers ==
    \A f \in Flows :
        waits[f] = "database" /\ ~isErroneous => stored >= due[f]

\* close() of the database comes last: no update is in flight, pending or
\* still to be triggered.
CloseIsLast ==
    waits["close"] \in {"database", "resolved", "rejected"} =>
        active = NoRequest /\ ~hasPending /\ ~deferred /\ ~queued

\* After a successful close() the database has exactly the cache, whatever
\* errors it has seen before ("recover all known data without loss if
\* possible", node/storage.ts:192).
ClosedIsPersisted ==
    waits["close"] = "resolved" => db = cache

\* "We must always ensure the DB is closed to avoid corruption"
\* (storage.ts:345): close() comes to an end, unless the process does.
CloseEnds ==
    waits["close"] # "none" ~> waits["close"] \in {"resolved", "rejected", "none"}

\* As long as the database works, close() comes to an end, every change is stored
\* and who awaits whenFlushed() goes on, whatever the order of timers, updates,
\* flushes and restarts.
SettlesIfHealthy ==
    []~isErroneous =>
        /\ CloseEnds
        /\ <>[](Loaded => db = cache)
        /\ whenFlushedCallbacks ~> ~whenFlushedCallbacks

\* The map that users see, or will see once the items are loaded.
View == IF Loaded THEN cache ELSE db

\* The database holds a state that the cache had, never a mixture.
Durable == INSTANCE DurableMap WITH map <- View, stored <- db,
                                    broken <- isErroneous
ImplementsDurableMap == Durable!Spec

-----------------------------------------------------------------------------
(* The inductive invariant behind the safety properties.                   *)

\* Nobody has used the storage before its items are loaded.
UnusedBeforeLoaded ==
    /\ loading => state = "Initialized"
    /\ ~Loaded => cache = Empty /\ ~hasPending /\ active = NoRequest

\* The update in flight leads to the state of the cache it was taken from.
FlightIsSnapshot ==
    active # NoRequest /\ ~isErroneous => Apply(db, active) = snapshot

\* Where close() is in the ThrottledDelayer tells what else is there.
CloseStages ==
    /\ waits["close"] # "none" <=> state = "Closed"
    /\ queued => active # NoRequest
    /\ waits["close"] = "delayer" => deferred
    /\ waits["close"] = "queued" => queued /\ ~deferred
    /\ waits["close"] \in {"active", "requeued"} =>
          active # NoRequest /\ ~hasPending /\ ~deferred /\ ~queued
    /\ waits["close"] = "never" =>
          active = NoRequest /\ ~hasPending /\ ~deferred /\ ~queued

IInv == /\ TypeOK
        /\ UnusedBeforeLoaded
        /\ NothingLost
        /\ FlightIsSnapshot
        /\ PendingIsScheduled
        /\ CloseStages
        /\ CloseIsLast
        /\ ClosedIsPersisted

=============================================================================
