--------------------------- MODULE StorageProofs ----------------------------
(***************************************************************************)
(* Theorems about Storage for every set of keys and values, every number   *)
(* of changes and restarts and any errors of the database.                 *)
(***************************************************************************)
EXTENDS Storage, TLAPS

\* An empty map is a map.
LEMMA EmptyIsMap == Empty \in Maps
  BY DEF Empty, Maps

\* An update turns a map into a map, whatever part of it is done.
LEMMA ApplyType ==
    ASSUME NEW m \in Maps, NEW r \in Requests, NEW ks \in SUBSET Keys
    PROVE  ApplyTo(ks, m, r) \in Maps /\ Apply(m, r) \in Maps
  BY DEF ApplyTo, Apply, Maps, Requests

\* An update with nothing in it changes nothing.
LEMMA ApplyNothing ==
    ASSUME NEW m \in Maps
    PROVE  Apply(m, [insert |-> Empty, delete |-> {}]) = m
  BY DEF ApplyTo, Apply, Maps, Empty

\* What set() does to the pending items adds the change to their effect.
LEMMA ApplySet ==
    ASSUME NEW m \in Maps, NEW i \in Maps, NEW d \in SUBSET Keys,
           NEW k \in Keys, NEW v \in Values
    PROVE  Apply(m, [insert |-> [i EXCEPT ![k] = v], delete |-> d \ {k}])
             = [Apply(m, [insert |-> i, delete |-> d]) EXCEPT ![k] = v]
  BY Zenon, StorageAssumption DEF ApplyTo, Apply, Maps

\* And so does delete().
LEMMA ApplyDelete ==
    ASSUME NEW m \in Maps, NEW i \in Maps, NEW d \in SUBSET Keys, NEW k \in Keys
    PROVE  Apply(m, [insert |-> [i EXCEPT ![k] = Missing], delete |-> d \cup {k}])
             = [Apply(m, [insert |-> i, delete |-> d]) EXCEPT ![k] = Missing]
  BY Zenon DEF ApplyTo, Apply, Maps

\* The pending items are a request.
LEMMA PendingType == ASSUME TypeOK PROVE Pending \in Requests /\ Pending # NoRequest
  BY NoRequestAssumption DEF TypeOK, Pending, Requests

\* The constructors establish the invariant.
LEMMA InitIInv == ASSUME Init PROVE IInv
  <1>1. TypeOK
    <2>1. 0 \in 0..MaxRestarts /\ 0 \in 0..MaxChanges /\ 0 \in 0..0
      BY StorageAssumption
    <2>2. waits \in [Flows -> Stages] /\ due \in [Flows -> 0..version]
      BY <2>1 DEF Init, Flows, Stages
    <2> QED BY Zenon, <2>1, <2>2, EmptyIsMap DEF Init, TypeOK
  <1>2. ~hasPending /\ ~Loaded
    BY DEF Init, hasPending, Loaded
  <1> QED BY <1>1, <1>2 DEF Init, IInv, UnusedBeforeLoaded, NothingLost, FlightIsSnapshot,
             PendingIsScheduled, CloseStages, CloseIsLast, ClosedIsPersisted, Flows

\* init() of a new storage keeps the invariant.
LEMMA InitNewStep == ASSUME IInv, InitNew PROVE IInv'
  <1>1. TypeOK'
    BY DEF IInv, TypeOK, InitNew, storageVars, delayerVars, databaseVars, ghostVars
  <1> QED BY <1>1, ApplyNothing, EmptyIsMap DEF InitNew, storageVars, delayerVars, databaseVars, ghostVars,
             IInv, UnusedBeforeLoaded, NothingLost, FlightIsSnapshot, PendingIsScheduled,
             CloseStages, CloseIsLast, ClosedIsPersisted, hasPending, Loaded, Settled, Pending

\* So does init() up to its await,
LEMMA InitStorageStep == ASSUME IInv, InitStorage PROVE IInv'
  <1>1. TypeOK'
    BY DEF IInv, TypeOK, InitStorage, storageVars, delayerVars, databaseVars, ghostVars
  <1> QED BY <1>1 DEF InitStorage, storageVars, delayerVars, databaseVars, ghostVars,
             IInv, UnusedBeforeLoaded, NothingLost, FlightIsSnapshot, PendingIsScheduled,
             CloseStages, CloseIsLast, ClosedIsPersisted, hasPending, Loaded, Settled, Pending

\* and after it: the items are the database's.
LEMMA ItemsLoadedStep == ASSUME IInv, ItemsLoaded PROVE IInv'
  <1>1. TypeOK'
    BY Zenon DEF IInv, TypeOK, ItemsLoaded, storageVars, delayerVars, databaseVars, ghostVars
  <1> QED BY Zenon, <1>1, ApplyNothing, EmptyIsMap DEF ItemsLoaded, TypeOK, storageVars, delayerVars, databaseVars, ghostVars,
             IInv, UnusedBeforeLoaded, NothingLost, FlightIsSnapshot, PendingIsScheduled,
             CloseStages, CloseIsLast, ClosedIsPersisted, hasPending, Loaded, Settled, Pending

\* whenFlushed() only waits.
LEMMA WhenFlushedStep == ASSUME IInv, WhenFlushed PROVE IInv'
  <1>1. TypeOK'
    BY DEF IInv, TypeOK, WhenFlushed, storageVars, delayerVars, databaseVars, ghostVars
  <1> QED BY <1>1 DEF WhenFlushed, storageVars, delayerVars, databaseVars, ghostVars,
             IInv, UnusedBeforeLoaded, NothingLost, FlightIsSnapshot, PendingIsScheduled,
             CloseStages, CloseIsLast, ClosedIsPersisted, hasPending, Loaded, Settled, Pending

\* flush() only sets the timer.
LEMMA FlushStep == ASSUME IInv, Flush PROVE IInv'
  <1>1. TypeOK'
    BY DEF IInv, TypeOK, Flush, Triggered, storageVars, delayerVars, databaseVars, ghostVars
  <1> QED BY <1>1 DEF Flush, Triggered, Usable, storageVars, delayerVars, databaseVars, ghostVars,
             IInv, UnusedBeforeLoaded, NothingLost, FlightIsSnapshot, PendingIsScheduled,
             CloseStages, CloseIsLast, ClosedIsPersisted, hasPending, Loaded, Settled, Pending

\* close() sets the timer.
LEMMA CloseStep == ASSUME IInv, Close PROVE IInv'
  <1>1. TypeOK'
    BY DEF IInv, TypeOK, Close, Await, Triggered, Usable, Flows, Stages, storageVars, delayerVars, databaseVars, ghostVars
  <1> QED BY <1>1 DEF Close, Await, Triggered, Usable, TypeOK, Flows, storageVars, delayerVars, databaseVars, ghostVars,
             IInv, UnusedBeforeLoaded, NothingLost, FlightIsSnapshot, PendingIsScheduled,
             CloseStages, CloseIsLast, ClosedIsPersisted, hasPending, Loaded, Settled, Pending

\* And so does optimize().
LEMMA OptimizeStep == ASSUME IInv, Optimize PROVE IInv'
  <1>1. TypeOK'
    BY DEF IInv, TypeOK, Optimize, Await, Triggered, Usable, Flows, Stages, storageVars, delayerVars, databaseVars, ghostVars
  <1> QED BY <1>1 DEF Optimize, Await, Triggered, Usable, TypeOK, Flows, storageVars, delayerVars, databaseVars, ghostVars,
             IInv, UnusedBeforeLoaded, NothingLost, FlightIsSnapshot, PendingIsScheduled,
             CloseStages, CloseIsLast, ClosedIsPersisted, hasPending, Loaded, Settled, Pending

\* set() changes the cache and the pending items alike.
LEMMA SetStep ==
    ASSUME IInv, NEW k \in Keys, NEW v \in Values, Set(k, v)
    PROVE  IInv'
  <1>1. TypeOK'
    <2>1. cache' \in Maps /\ pendingInserts' \in Maps /\ pendingDeletes' \in SUBSET Keys
      BY DEF IInv, TypeOK, Set, Maps
    <2>2. /\ version' \in 0..MaxChanges /\ taken' \in 0..version' /\ stored' \in 0..version'
          /\ due' \in [Flows -> 0..version']
      BY StorageAssumption DEF IInv, TypeOK, Set, Changed
    <2> QED BY <2>1, <2>2 DEF IInv, TypeOK, Set, Changed, Triggered, databaseVars
  <1>2. Settled \in Maps /\ Settled' = Settled
    BY ApplyType DEF IInv, TypeOK, Settled, Set, Changed, Triggered, databaseVars
  <1>3. Apply(Settled, Pending') = [Apply(Settled, Pending) EXCEPT ![k] = v]
    <2>1. pendingInserts \in Maps /\ pendingDeletes \in SUBSET Keys
      BY DEF IInv, TypeOK
    <2>2. Pending' = [insert |-> [pendingInserts EXCEPT ![k] = v],
                      delete |-> pendingDeletes \ {k}]
      BY DEF Set, Pending
    <2> QED BY SMTT(30), <1>2, <2>1, <2>2, ApplySet DEF Pending
  <1>4. NothingLost'
    BY <1>2, <1>3 DEF IInv, NothingLost, Loaded, Set, Changed, Usable, databaseVars
  <1> QED BY <1>1, <1>4 DEF Set, Changed, Triggered, Usable, databaseVars,
             IInv, UnusedBeforeLoaded, FlightIsSnapshot, PendingIsScheduled,
             CloseStages, CloseIsLast, ClosedIsPersisted, Loaded

\* And so does delete().
LEMMA DeleteStep ==
    ASSUME IInv, NEW k \in Keys, Delete(k)
    PROVE  IInv'
  <1>1. TypeOK'
    <2>1. cache' \in Maps /\ pendingInserts' \in Maps /\ pendingDeletes' \in SUBSET Keys
      BY DEF IInv, TypeOK, Delete, Maps
    <2>2. /\ version' \in 0..MaxChanges /\ taken' \in 0..version' /\ stored' \in 0..version'
          /\ due' \in [Flows -> 0..version']
      BY StorageAssumption DEF IInv, TypeOK, Delete, Changed
    <2> QED BY <2>1, <2>2 DEF IInv, TypeOK, Delete, Changed, Triggered, databaseVars
  <1>2. Settled \in Maps /\ Settled' = Settled
    BY ApplyType DEF IInv, TypeOK, Settled, Delete, Changed, Triggered, databaseVars
  <1>3. Apply(Settled, Pending') = [Apply(Settled, Pending) EXCEPT ![k] = Missing]
    <2>1. pendingInserts \in Maps /\ pendingDeletes \in SUBSET Keys
      BY DEF IInv, TypeOK
    <2>2. Pending' = [insert |-> [pendingInserts EXCEPT ![k] = Missing],
                      delete |-> pendingDeletes \cup {k}]
      BY DEF Delete, Pending
    <2> QED BY SMTT(30), <1>2, <2>1, <2>2, ApplyDelete DEF Pending
  <1>4. NothingLost'
    BY <1>2, <1>3 DEF IInv, NothingLost, Loaded, Delete, Changed, Usable, databaseVars
  <1> QED BY <1>1, <1>4 DEF Delete, Changed, Triggered, Usable, databaseVars,
             IInv, UnusedBeforeLoaded, FlightIsSnapshot, PendingIsScheduled,
             CloseStages, CloseIsLast, ClosedIsPersisted, Loaded

\* Taking the pending items leaves none and puts a request in flight.
LEMMA TakeTypes ==
    ASSUME TypeOK, TakePending
    PROVE  /\ active' \in Requests /\ active' # NoRequest
           /\ snapshot' \in Maps /\ pendingInserts' \in Maps
           /\ pendingDeletes' \in SUBSET Keys /\ taken' \in 0..version
           /\ ~hasPending' /\ Pending' = [insert |-> Empty, delete |-> {}]
  <1>1. active' \in Requests /\ active' # NoRequest
    BY PendingType DEF TakePending
  <1>2. taken' \in 0..version
    BY StorageAssumption DEF TakePending, TypeOK
  <1> QED BY <1>1, <1>2, EmptyIsMap DEF TakePending, TypeOK, hasPending, Pending

\* The request leads from the database m to the cache it was taken from.
LEMMA TakeView ==
    ASSUME TypeOK, TakePending, NEW m \in Maps, cache = Apply(m, Pending)
    PROVE  /\ Apply(m, active') = snapshot'
           /\ cache = Apply(Apply(m, active'), Pending')
  <1>1. Apply(m, active') = cache /\ snapshot' = cache
    BY DEF TakePending
  <1>2. Apply(cache, Pending') = cache
    BY TakeTypes, ApplyNothing DEF TypeOK
  <1> QED BY <1>1, <1>2

\* The timer of the Delayer starts a flush, or queues one.
LEMMA DelayerStep == ASSUME IInv, DelayerFires PROVE IInv'
  <1>1. TypeOK'
    <2>1. waits' \in [Flows -> Stages]
      BY DEF IInv, TypeOK, DelayerFires, Stages
    <2>2. CASE TakePending
      BY Zenon, <2>1, <2>2, TakeTypes DEF IInv, TypeOK, DelayerFires, databaseVars
    <2>3. CASE KeepPending /\ UNCHANGED active
      BY Zenon, <2>1, <2>3 DEF IInv, TypeOK, DelayerFires, KeepPending, databaseVars
    <2> QED BY <2>2, <2>3 DEF DelayerFires
  <1>2. waits'["close"] = IF waits["close"] # "delayer" THEN waits["close"]
                          ELSE IF active # NoRequest THEN "queued"
                          ELSE IF hasPending THEN "active" ELSE "database"
    BY DEF DelayerFires, Flows
  <1>3. CASE active # NoRequest
    BY <1>1, <1>2, <1>3 DEF DelayerFires, KeepPending, databaseVars, IInv,
             UnusedBeforeLoaded, NothingLost, FlightIsSnapshot, PendingIsScheduled,
             CloseStages, CloseIsLast, ClosedIsPersisted, hasPending, Loaded, Settled, Pending
  <1>4. CASE active = NoRequest /\ ~hasPending
    BY <1>1, <1>2, <1>4 DEF DelayerFires, KeepPending, databaseVars, IInv,
             UnusedBeforeLoaded, NothingLost, FlightIsSnapshot, PendingIsScheduled,
             CloseStages, CloseIsLast, ClosedIsPersisted, hasPending, Loaded, Settled, Pending
  <1>5. CASE active = NoRequest /\ hasPending
    <2>1. TakePending /\ Loaded /\ Loaded' /\ db' = db /\ cache' = cache
      BY <1>5 DEF DelayerFires, IInv, UnusedBeforeLoaded, Loaded, databaseVars
    <2>2. /\ active' # NoRequest /\ ~hasPending'
      BY <2>1, TakeTypes DEF IInv
    <2>3. ASSUME ~isErroneous
          PROVE  /\ Apply(db, active') = snapshot'
                 /\ cache = Apply(Apply(db, active'), Pending')
      BY <1>5, <2>1, <2>3, TakeView DEF IInv, TypeOK, NothingLost, Settled
    <2>4. NothingLost' /\ FlightIsSnapshot'
      BY <2>1, <2>2, <2>3 DEF NothingLost, FlightIsSnapshot, Settled, DelayerFires, databaseVars
    <2> QED BY <1>1, <1>2, <1>5, <2>1, <2>2, <2>4 DEF DelayerFires, databaseVars, IInv,
             UnusedBeforeLoaded, PendingIsScheduled, CloseStages, CloseIsLast,
             ClosedIsPersisted, Loaded
  <1> QED BY <1>3, <1>4, <1>5

\* Where close() goes when the update in flight ends.
LEMMA CloseAfterUpdate ==
    ASSUME IInv, NEW ok \in BOOLEAN, UpdateEnds(ok)
    PROVE  waits'["close"] =
             IF waits["close"] = "active" THEN "database"
             ELSE IF waits["close"] = "queued"
                  THEN IF hasPending THEN "requeued" ELSE "database"
             ELSE IF waits["close"] = "requeued"
                  THEN IF ok THEN "database" ELSE "never"
             ELSE waits["close"]
  BY DEF UpdateEnds, AfterUpdate, AfterFlush, Flows

\* The end of an update, whatever it did to the database.
LEMMA UpdateEndsTypes ==
    ASSUME IInv, NEW ok \in BOOLEAN, UpdateEnds(ok), db' \in Maps,
           isErroneous' \in BOOLEAN, stored' \in 0..version
    PROVE  TypeOK'
  <1>1. waits' \in [Flows -> Stages]
    BY DEF IInv, TypeOK, UpdateEnds, AfterUpdate, AfterFlush, Stages
  <1>2. CASE TakePending
    BY Zenon, <1>1, <1>2, TakeTypes DEF IInv, TypeOK, UpdateEnds, Released
  <1>3. CASE KeepPending /\ active' = NoRequest
    BY Zenon, <1>1, <1>3 DEF IInv, TypeOK, UpdateEnds, KeepPending, Released
  <1> QED BY <1>2, <1>3 DEF UpdateEnds

\* The end of an update keeps what does not depend on the database's items.
LEMMA UpdateEndsStages ==
    ASSUME IInv, NEW ok \in BOOLEAN, UpdateEnds(ok)
    PROVE  /\ UnusedBeforeLoaded' /\ PendingIsScheduled'
           /\ CloseStages' /\ CloseIsLast' /\ ClosedIsPersisted'
           /\ Loaded /\ Loaded'
  <1>1. Loaded /\ Loaded' /\ cache' = cache /\ state' = state /\ loading' = loading
    BY DEF IInv, UnusedBeforeLoaded, UpdateEnds, Loaded
  <1>2. waits["close"] \notin {"database", "resolved", "rejected", "never"}
    BY DEF IInv, CloseIsLast, CloseStages, UpdateEnds
  <1>3. /\ waits["close"] = "active" => waits'["close"] = "database"
        /\ waits["close"] = "queued" =>
              waits'["close"] = IF hasPending THEN "requeued" ELSE "database"
        /\ waits["close"] = "requeued" => waits'["close"] \in {"database", "never"}
        /\ waits["close"] \in {"none", "delayer"} => waits'["close"] = waits["close"]
    BY CloseAfterUpdate
  <1>4. waits["close"] \in {"none", "delayer", "active", "queued", "requeued"}
    BY <1>2 DEF IInv, TypeOK, Flows, Stages
  <1>5. ~queued' /\ deferred' = deferred /\ deferred \in BOOLEAN /\ queued \in BOOLEAN
    BY DEF UpdateEnds, IInv, TypeOK
  <1>6. /\ queued => active # NoRequest
        /\ hasPending => deferred \/ queued
        /\ waits["close"] # "none" <=> state = "Closed"
        /\ waits["close"] = "delayer" => deferred
        /\ waits["close"] = "queued" => queued /\ ~deferred
        /\ waits["close"] \in {"active", "requeued"} => ~hasPending /\ ~deferred /\ ~queued
        /\ loading => state = "Initialized"
    BY DEF IInv, CloseStages, PendingIsScheduled, UnusedBeforeLoaded
  <1>7. CASE RunsQueued
    <2>1. TakePending
      BY <1>7 DEF UpdateEnds
    <2>2. active' # NoRequest /\ ~hasPending'
      BY <2>1, TakeTypes DEF IInv
    <2>3. hasPending /\ queued
      BY <1>7 DEF RunsQueued
    <2> QED BY <1>1, <1>3, <1>4, <1>5, <1>6, <2>2, <2>3 DEF
             UnusedBeforeLoaded, PendingIsScheduled, CloseStages, CloseIsLast,
             ClosedIsPersisted
  <1>8. CASE ~RunsQueued
    <2>1. active' = NoRequest /\ (hasPending' <=> hasPending)
      BY <1>8 DEF UpdateEnds, KeepPending, hasPending
    <2>2. ~(hasPending /\ queued)
      BY <1>8 DEF RunsQueued
    <2> QED BY <1>1, <1>3, <1>4, <1>5, <1>6, <2>1, <2>2 DEF
             UnusedBeforeLoaded, PendingIsScheduled, CloseStages, CloseIsLast,
             ClosedIsPersisted
  <1> QED BY <1>7, <1>8

\* An update that succeeds.
LEMMA UpdateDoneStep == ASSUME IInv, UpdateDone PROVE IInv'
  <1>1. UpdateEnds(TRUE) /\ active \in Requests /\ db \in Maps
    BY DEF UpdateDone, UpdateEnds, IInv, TypeOK
  <1>2. db' = Apply(db, active) /\ db' \in Maps
    BY <1>1, ApplyType DEF UpdateDone
  <1>3. TypeOK'
    BY Zenon, <1>1, <1>2, UpdateEndsTypes DEF UpdateDone, IInv, TypeOK
  <1>4. /\ UnusedBeforeLoaded' /\ PendingIsScheduled'
        /\ CloseStages' /\ CloseIsLast' /\ ClosedIsPersisted'
        /\ Loaded /\ Loaded'
    BY Zenon, <1>1, UpdateEndsStages
  <1>5. ASSUME ~isErroneous PROVE cache = Apply(db', Pending)
    BY <1>1, <1>2, <1>4, <1>5 DEF IInv, NothingLost, Settled, UpdateEnds
  <1>6. cache' = cache /\ isErroneous' = isErroneous
    BY <1>1 DEF UpdateDone, UpdateEnds
  <1>7. NothingLost' /\ FlightIsSnapshot'
    <2>1. CASE RunsQueued
      <3>1. TakePending
        BY <1>1, <2>1 DEF UpdateEnds
      <3>2. active' # NoRequest
        BY <3>1, TakeTypes DEF IInv
      <3>3. ASSUME ~isErroneous
            PROVE  /\ Apply(db', active') = snapshot'
                   /\ cache = Apply(Apply(db', active'), Pending')
        BY <1>2, <1>5, <3>1, <3>3, TakeView DEF IInv
      <3> QED BY <1>6, <3>2, <3>3 DEF NothingLost, FlightIsSnapshot, Settled
    <2>2. CASE ~RunsQueued
      <3>1. active' = NoRequest /\ Pending' = Pending
        BY <1>1, <2>2 DEF UpdateEnds, KeepPending, Pending
      <3> QED BY <1>5, <1>6, <3>1 DEF NothingLost, FlightIsSnapshot, Settled
    <2> QED BY <2>1, <2>2
  <1> QED BY <1>3, <1>4, <1>7 DEF IInv

\* An update that fails, with or without a rejection.
LEMMA UpdateFailsStep == ASSUME IInv, UpdateFails PROVE IInv'
  <1>1. PICK ok \in BOOLEAN : UpdateEnds(ok)
    BY DEF UpdateFails
  <1>2. active \in Requests /\ db \in Maps
    BY <1>1 DEF UpdateEnds, IInv, TypeOK
  <1>3. db' \in Maps
    BY <1>2, ApplyType DEF UpdateFails
  <1>4. TypeOK'
    BY <1>1, <1>3, UpdateEndsTypes DEF UpdateFails, IInv, TypeOK
  <1> QED BY <1>1, <1>4, UpdateEndsStages DEF UpdateFails, IInv, NothingLost, FlightIsSnapshot

\* The database ends a call of close() or optimize() without an update.
LEMMA DatabaseStages ==
    ASSUME IInv, NEW f \in Flows, NEW r \in {"resolved", "rejected"}, DatabaseEnds(f, r),
           db' \in Maps, isErroneous' \in BOOLEAN, stored' \in 0..version
    PROVE  /\ TypeOK' /\ UnusedBeforeLoaded' /\ PendingIsScheduled'
           /\ CloseStages' /\ CloseIsLast'
           /\ Loaded' = Loaded /\ Pending' = Pending /\ active' = active
           /\ cache' = cache /\ snapshot' = snapshot
  <1>1. TypeOK'
    BY DEF IInv, TypeOK, DatabaseEnds, storageVars, Stages
  <1>2. waits'["close"] = IF f = "close" THEN r ELSE waits["close"]
    BY DEF IInv, TypeOK, DatabaseEnds, Flows
  <1> QED BY <1>1, <1>2 DEF IInv, UnusedBeforeLoaded, PendingIsScheduled, CloseStages,
             CloseIsLast, DatabaseEnds, storageVars, Loaded, Pending, hasPending

\* A healthy connection is closed: everything is in the database.
LEMMA DatabaseClosedStep == ASSUME IInv, DatabaseClosed PROVE IInv'
  <1>1. DatabaseEnds("close", "resolved") /\ db' = db /\ isErroneous' = isErroneous /\ stored' = stored
    BY DEF DatabaseClosed, databaseVars
  <1>2. /\ TypeOK' /\ UnusedBeforeLoaded' /\ PendingIsScheduled'
        /\ CloseStages' /\ CloseIsLast'
        /\ Loaded' = Loaded /\ Pending' = Pending /\ active' = active
        /\ cache' = cache /\ snapshot' = snapshot
    BY <1>1, DatabaseStages DEF Flows, IInv, TypeOK
  <1>3. active = NoRequest /\ ~hasPending /\ Loaded /\ ~isErroneous
    BY DEF DatabaseClosed, DatabaseEnds, IInv, CloseIsLast, CloseStages, UnusedBeforeLoaded, Loaded
  <1>4. Pending = [insert |-> Empty, delete |-> {}]
    BY <1>3 DEF hasPending, Pending
  <1>5. db = cache
    BY <1>3, <1>4, ApplyNothing DEF IInv, NothingLost, Settled, TypeOK
  <1> QED BY <1>1, <1>2, <1>5 DEF IInv, NothingLost, FlightIsSnapshot, ClosedIsPersisted, Settled

\* The cache is written to a new database.
LEMMA DatabaseRecoveredStep == ASSUME IInv, DatabaseRecovered PROVE IInv'
  <1>1. /\ DatabaseEnds("close", "resolved") /\ db' = cache /\ isErroneous' = TRUE
        /\ stored' = version
    BY DEF DatabaseRecovered, Recovered
  <1>2. db' \in Maps /\ stored' \in 0..version
    BY <1>1, StorageAssumption DEF IInv, TypeOK
  <1>3. /\ TypeOK' /\ UnusedBeforeLoaded' /\ PendingIsScheduled'
        /\ CloseStages' /\ CloseIsLast' /\ cache' = cache
    BY <1>1, <1>2, DatabaseStages DEF Flows
  <1> QED BY <1>1, <1>3 DEF IInv, NothingLost, FlightIsSnapshot, ClosedIsPersisted

\* Or cannot be.
LEMMA DatabaseNotRecoveredStep == ASSUME IInv, DatabaseNotRecovered PROVE IInv'
  <1>1. /\ DatabaseEnds("close", "rejected") /\ isErroneous' = TRUE /\ stored' = stored
    BY DEF DatabaseNotRecovered
  <1>2. db' \in Maps /\ stored' \in 0..version
    BY <1>1 DEF IInv, TypeOK, DatabaseNotRecovered, Maps
  <1>3. /\ TypeOK' /\ UnusedBeforeLoaded' /\ PendingIsScheduled'
        /\ CloseStages' /\ CloseIsLast'
    BY <1>1, <1>2, DatabaseStages DEF Flows
  <1>4. waits'["close"] = "rejected"
    BY <1>1 DEF DatabaseEnds, IInv, TypeOK, Flows
  <1> QED BY <1>1, <1>3, <1>4 DEF IInv, NothingLost, FlightIsSnapshot, ClosedIsPersisted

\* VACUUM changes no item.
LEMMA DatabaseOptimizedStep == ASSUME IInv, DatabaseOptimized PROVE IInv'
  <1>1. PICK r \in {"resolved", "rejected"} : DatabaseEnds("optimize", r)
    BY DEF DatabaseOptimized
  <1>2. db' = db /\ isErroneous' \in {isErroneous, TRUE} /\ stored' = stored
    BY Zenon DEF DatabaseOptimized, databaseVars
  <1>3. /\ TypeOK' /\ UnusedBeforeLoaded' /\ PendingIsScheduled'
        /\ CloseStages' /\ CloseIsLast'
        /\ Loaded' = Loaded /\ Pending' = Pending /\ active' = active
        /\ cache' = cache /\ snapshot' = snapshot
    BY Zenon, <1>1, <1>2, DatabaseStages DEF Flows, IInv, TypeOK
  <1>4. waits'["close"] = waits["close"]
    BY <1>1 DEF DatabaseEnds, IInv, TypeOK, Flows
  <1> QED BY Zenon, <1>2, <1>3, <1>4 DEF IInv, NothingLost, FlightIsSnapshot, ClosedIsPersisted, Settled

\* A new process starts with nothing in memory.
LEMMA RestartStep == ASSUME IInv, Restart PROVE IInv'
  <1>1. db' \in Maps
    BY ApplyType DEF Restart, IInv, TypeOK
  <1>2. TypeOK'
    <2>1. waits' \in [Flows -> Stages] /\ due' \in [Flows -> 0..version']
      BY DEF Restart, Flows, Stages
    <2>2. restarts' \in 0..MaxRestarts /\ 0 \in 0..MaxChanges /\ 0 \in 0..0
      BY StorageAssumption DEF Restart, IInv, TypeOK
    <2> QED BY Zenon, <1>1, <2>1, <2>2, EmptyIsMap DEF Restart, TypeOK
  <1>3. ~hasPending' /\ ~Loaded' /\ waits'["close"] = "none"
    BY DEF Restart, hasPending, Loaded, Flows
  <1> QED BY <1>2, <1>3 DEF Restart, IInv, UnusedBeforeLoaded, NothingLost, FlightIsSnapshot,
             PendingIsScheduled, CloseStages, CloseIsLast, ClosedIsPersisted

\* Every step of the storage keeps the invariant.
LEMMA NextIInv == ASSUME IInv, [Next]_vars PROVE IInv'
  <1>1. CASE UNCHANGED vars
    BY <1>1 DEF vars, storageVars, delayerVars, databaseVars, ghostVars, IInv, TypeOK,
             UnusedBeforeLoaded, NothingLost, FlightIsSnapshot, PendingIsScheduled,
             CloseStages, CloseIsLast, ClosedIsPersisted, hasPending, Loaded, Settled, Pending
  <1>2. CASE Next
    BY <1>2, InitNewStep, InitStorageStep, ItemsLoadedStep, SetStep, DeleteStep,
       WhenFlushedStep, CloseStep, OptimizeStep, FlushStep, DelayerStep, UpdateDoneStep,
       UpdateFailsStep, DatabaseClosedStep, DatabaseRecoveredStep,
       DatabaseNotRecoveredStep, DatabaseOptimizedStep, RestartStep DEF Next
  <1> QED BY <1>1, <1>2

\* IInv holds in every reachable state.
LEMMA Invariant == Spec => []IInv
  BY InitIInv, NextIInv, PTL DEF Spec

\* Type correctness of Storage, its ThrottledDelayer and its database.
THEOREM TypeCorrect == Spec => []TypeOK
  BY Invariant, PTL DEF IInv

\* set(), delete() and flushPending() never lose a change: the cache is always
\* what the database, the update in flight and the pending items make.
THEOREM NothingIsLost == Spec => []NothingLost
  BY Invariant, PTL DEF IInv

\* Pending items always have a flush coming.
THEOREM PendingScheduled == Spec => []PendingIsScheduled
  BY Invariant, PTL DEF IInv

\* When doClose() closes the database, nothing is in flight, pending, queued
\* or about to be triggered.
THEOREM CloseComesLast == Spec => []CloseIsLast
  BY Invariant, PTL DEF IInv

\* A close() that succeeds leaves exactly the cache in the database.
THEOREM ClosedIsComplete == Spec => []ClosedIsPersisted
  BY Invariant, PTL DEF IInv

\* Each step is a step of DurableMap, or none.
LEMMA StepSimulation ==
    ASSUME IInv, IInv', [Next]_vars
    PROVE  Durable!Next \/ UNCHANGED Durable!vars
  <1> DEFINE same == View' = View /\ snapshot' = snapshot /\ db' = db /\ isErroneous' = isErroneous
  <1>0. same => UNCHANGED Durable!vars
    BY DEF Durable!vars
  <1>1. CASE UNCHANGED vars
    BY <1>0, <1>1 DEF vars, storageVars, databaseVars, ghostVars, View, Loaded
  <1>2. CASE InitNew \/ InitStorage
    <2>1. View' = View
      BY <1>2 DEF InitNew, InitStorage, View, Loaded, databaseVars, IInv, UnusedBeforeLoaded
    <2> QED BY <1>0, <1>2, <2>1 DEF InitNew, InitStorage, databaseVars, ghostVars
  <1>3. CASE ItemsLoaded
    <2>1. snapshot' = snapshot /\ db' = db /\ ~Loaded /\ Loaded' /\ cache = Empty
      BY <1>3 DEF ItemsLoaded, ghostVars, Loaded, IInv, UnusedBeforeLoaded
    <2>2. CASE cache' = db /\ UNCHANGED isErroneous
      BY <1>0, <2>1, <2>2 DEF View
    <2>3. CASE isErroneous' = TRUE /\ UNCHANGED cache
      BY <2>1, <2>3 DEF View, Durable!Next, Durable!Unreadable, Empty
    <2> QED BY Zenon, <1>3, <2>2, <2>3 DEF ItemsLoaded
  <1>4. ASSUME NEW k \in Keys, NEW v \in Values, Set(k, v)
        PROVE  Durable!Next
    <2>1. View' = [View EXCEPT ![k] = v]
      BY <1>4 DEF Set, Changed, Usable, View, Loaded
    <2> QED BY Zenon, <1>4, <2>1 DEF Set, Changed, databaseVars, Durable!Next, Durable!Change
  <1>5. ASSUME NEW k \in Keys, Delete(k)
        PROVE  Durable!Next
    <2>1. View' = [View EXCEPT ![k] = Missing]
      BY <1>5 DEF Delete, Changed, Usable, View, Loaded
    <2> QED BY Zenon, <1>5, <2>1 DEF Delete, Changed, databaseVars, Durable!Next, Durable!Change
  <1>6. CASE WhenFlushed \/ Flush
    BY <1>0, <1>6 DEF WhenFlushed, Flush, storageVars, databaseVars, ghostVars, View, Loaded
  <1>7. CASE Close \/ Optimize
    BY <1>0, <1>7 DEF Close, Optimize, Await, Usable, databaseVars, View, Loaded
  <1>8. CASE DelayerFires
    <2>1. View' = View /\ db' = db /\ isErroneous' = isErroneous
      BY <1>8 DEF DelayerFires, databaseVars, View, Loaded
    <2>2. CASE KeepPending
      BY <1>0, <2>1, <2>2 DEF KeepPending
    <2>3. CASE TakePending /\ hasPending
      <3>1. snapshot' = View
        BY <2>3 DEF TakePending, View, IInv, UnusedBeforeLoaded
      <3> QED BY <2>1, <3>1 DEF Durable!Next, Durable!Take
    <2> QED BY <1>8, <2>2, <2>3 DEF DelayerFires
  <1>9. ASSUME NEW ok \in BOOLEAN, UpdateEnds(ok)
        PROVE  View' = View /\ snapshot' \in {snapshot, View}
    BY <1>9 DEF UpdateEnds, TakePending, KeepPending, View, Loaded, IInv, UnusedBeforeLoaded
  <1>10. db' \in Maps /\ Maps = Durable!Maps
    BY DEF IInv, TypeOK, Maps, Durable!Maps
  <1>11. CASE UpdateDone
    <2>1. View' = View /\ snapshot' \in {snapshot, View} /\ isErroneous' = isErroneous
      BY Zenon, <1>9, <1>11 DEF UpdateDone
    <2>2. CASE isErroneous
      BY <1>10, <2>1, <2>2 DEF Durable!Next, Durable!Break
    <2>3. CASE ~isErroneous
      <3>1. db' = snapshot
        BY <1>11, <2>3 DEF UpdateDone, UpdateEnds, IInv, FlightIsSnapshot
      <3> QED BY <2>1, <2>3, <3>1 DEF Durable!Next, Durable!Store
    <2> QED BY <2>2, <2>3
  <1>12. CASE UpdateFails
    BY <1>9, <1>10, <1>12 DEF UpdateFails, Durable!Next, Durable!Break
  <1>13. CASE DatabaseClosed \/ DatabaseRecovered \/ DatabaseNotRecovered
    <2>1. Loaded /\ snapshot' = snapshot
      BY <1>13 DEF DatabaseClosed, DatabaseRecovered, DatabaseNotRecovered, DatabaseEnds,
                   IInv, CloseStages, UnusedBeforeLoaded, Loaded
    <2>2. View' = View
      BY <1>13, <2>1 DEF DatabaseClosed, DatabaseRecovered, DatabaseNotRecovered,
                   DatabaseEnds, storageVars, View, Loaded
    <2>3. CASE DatabaseClosed
      BY <1>0, <2>1, <2>2, <2>3 DEF DatabaseClosed, databaseVars
    <2>4. CASE DatabaseRecovered \/ DatabaseNotRecovered
      BY <1>10, <2>1, <2>2, <2>4 DEF DatabaseRecovered, DatabaseNotRecovered, Durable!Next,
                   Durable!Break
    <2> QED BY <1>13, <2>3, <2>4
  <1>14. CASE DatabaseOptimized
    <2>1. snapshot' = snapshot /\ db' = db /\ View' = View
      BY <1>14 DEF DatabaseOptimized, DatabaseEnds, storageVars, databaseVars, View, Loaded
    <2>2. CASE isErroneous' = isErroneous
      BY <1>0, <2>1, <2>2
    <2>3. CASE isErroneous' = TRUE
      BY <1>10, <2>1, <2>3 DEF Durable!Next, Durable!Break
    <2> QED BY Zenon, <1>14, <2>2, <2>3 DEF DatabaseOptimized, databaseVars
  <1>15. CASE Restart
    <2>1. View' = db' /\ snapshot' = db' /\ isErroneous' = FALSE
      BY <1>15 DEF Restart, View, Loaded
    <2>2. isErroneous \/ db' \in {db, snapshot}
      BY <1>15 DEF Restart, IInv, FlightIsSnapshot
    <2> QED BY <1>10, <2>1, <2>2 DEF Durable!Next, Durable!Crash
  <1> QED BY <1>1, <1>2, <1>3, <1>4, <1>5, <1>6, <1>7, <1>8, <1>11, <1>12, <1>13, <1>14, <1>15
          DEF Next

\* Storage implements DurableMap: without errors the database always holds a
\* state that the cache had, and a later one than before.
THEOREM RefinesDurableMap == Spec => ImplementsDurableMap
  <1>1. Init => Durable!Init
    BY DEF Init, Durable!Init, View, Loaded, Maps, Durable!Maps
  <1> QED BY <1>1, Invariant, StepSimulation, PTL
          DEF ImplementsDurableMap, Durable!Spec, Spec

=============================================================================
