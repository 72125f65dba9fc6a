---------------------------- MODULE StorageFile -----------------------------
(***************************************************************************)
(* How SQLiteStorageDatabase (base/parts/storage/node/storage.ts) treats   *)
(* its file from session to session: opening with a retry, falling back to *)
(* the backup and to memory, the backup after a good session and the       *)
(* recovery after a bad one.  Every update stores one more item.  A        *)
(* transaction of the database is atomic, copying a file is not.           *)
(***************************************************************************)
EXTENDS Naturals

CONSTANTS
    Items,        \* what updates store, one after another
    MaxSessions,  \* bound: sessions
    MaxFaults     \* bound: operations that fail, crashes, locks, damages

VARIABLES
    db, backup,   \* the files
    step,         \* what the connection is doing
    retryOnBusy,
    isErroneous, isInMemory,
    cache,        \* the items of the Storage above
    locked,       \* another process has locked the file
    sessions, faults,
    closed,       \* the items when close() was last successful
    unread        \* getItems() failed in some session

vars == <<db, backup, step, retryOnBusy, isErroneous, isInMemory, cache, locked, sessions,
          faults, closed, unread>>

connectionVars == <<retryOnBusy, isErroneous, isInMemory>>

File(items) == [state |-> "good", items |-> items]
Absent == [state |-> "absent", items |-> {}]
Corrupt == [state |-> "corrupt", items |-> {}]

Init ==
    /\ db = Absent
    /\ backup = Absent
    /\ step = "none"
    /\ retryOnBusy = FALSE
    /\ isErroneous = FALSE
    /\ isInMemory = FALSE
    /\ cache = {}
    /\ locked = FALSE
    /\ sessions = 0
    /\ faults = 0
    /\ closed = {}
    /\ unread = FALSE

Fault == faults < MaxFaults /\ faults' = faults + 1
NoFault == UNCHANGED faults

-----------------------------------------------------------------------------
(* connect().                                                              *)

Connect ==
    /\ step = "none"
    /\ sessions < MaxSessions
    /\ sessions' = sessions + 1
    /\ step' = "open"
    /\ retryOnBusy' = TRUE
    /\ isErroneous' = FALSE
    /\ isInMemory' = FALSE
    /\ UNCHANGED <<db, backup, cache, locked, faults, closed, unread>>

\* doConnect() with the path: it creates the file if there is none.  A lock is
\* on the file that connect() deletes, not on the next one.
DoConnect ==
    /\ step \in {"open", "reopen"}
    /\ ~locked
    /\ db # Corrupt
    /\ db' = IF db = Absent THEN File({}) ELSE db
    /\ step' = "load"
    /\ UNCHANGED <<backup, connectionVars, cache, locked, sessions, faults, closed, unread>>

\* The file is locked, and connect() tries again after a while, once.
Busy ==
    /\ step = "open"
    /\ locked
    /\ step' = IF retryOnBusy THEN "open" ELSE "unlink"
    /\ retryOnBusy' = FALSE
    /\ UNCHANGED <<db, backup, isErroneous, isInMemory, cache, locked, sessions, faults, closed,
                   unread>>

\* The file is corrupt, or the operation fails.
DoConnectFails ==
    /\ step \in {"open", "reopen"}
    /\ IF db = Corrupt THEN NoFault ELSE Fault
    /\ step' = IF step = "open" THEN "unlink" ELSE "load"
    /\ isInMemory' = (step = "reopen")
    /\ UNCHANGED <<db, backup, retryOnBusy, isErroneous, cache, locked, sessions, closed, unread>>

\* The file makes room for the backup.  If it cannot be deleted, memory is used.
Unlink ==
    /\ step = "unlink"
    /\ \/ /\ db # Absent
          /\ NoFault
          /\ db' = Absent
          /\ locked' = FALSE
          /\ step' = "rename"
          /\ UNCHANGED isInMemory
       \/ /\ IF db = Absent THEN NoFault ELSE Fault
          /\ step' = "load"
          /\ isInMemory' = TRUE
          /\ UNCHANGED <<db, locked>>
    /\ UNCHANGED <<backup, retryOnBusy, isErroneous, cache, sessions, closed, unread>>

\* The backup becomes the file; a failure is ignored.
Rename ==
    /\ step = "rename"
    /\ step' = "reopen"
    /\ \/ NoFault /\ db' = backup /\ backup' = Absent
       \/ Fault /\ UNCHANGED <<db, backup>>
    /\ UNCHANGED <<connectionVars, cache, locked, sessions, closed, unread>>

\* getItems() fills the cache.  If it fails, Storage works on with an empty one.
Load ==
    /\ step = "load"
    /\ step' = "connected"
    /\ \/ /\ NoFault
          /\ cache' = IF isInMemory THEN {} ELSE db.items
          /\ UNCHANGED <<isErroneous, unread>>
       \/ /\ Fault
          /\ cache' = {}
          /\ isErroneous' = TRUE
          /\ unread' = TRUE
    /\ UNCHANGED <<db, backup, retryOnBusy, isInMemory, locked, sessions, closed>>

-----------------------------------------------------------------------------
(* updateItems(), close().                                                 *)

\* After an error the next transactions may be lost too.
Update ==
    /\ step = "connected"
    /\ \E item \in Items \ cache :
        /\ cache' = cache \cup {item}
        /\ \/ /\ NoFault
              /\ db' = IF isInMemory THEN db ELSE File(db.items \cup {item})
              /\ UNCHANGED isErroneous
           \/ /\ IF isErroneous THEN NoFault ELSE Fault
              /\ isErroneous' = TRUE
              /\ UNCHANGED db
    /\ UNCHANGED <<backup, step, retryOnBusy, isInMemory, locked, sessions, closed, unread>>

MutantIsHealthy(erroneous) == ~isInMemory

\* The session was good enough to keep a backup of its file.
IsHealthy(erroneous) == ~erroneous /\ ~isInMemory

\* doClose(): the database is closed, with or without an error.
Close ==
    /\ step = "connected"
    /\ \/ NoFault /\ UNCHANGED isErroneous
       \/ Fault /\ isErroneous' = TRUE
    /\ step' = IF IsHealthy(isErroneous') THEN "backup" ELSE "recover"
    /\ UNCHANGED <<db, backup, retryOnBusy, isInMemory, cache, locked, sessions, closed, unread>>

\* backup() starts to overwrite the old backup,
StartBackup ==
    /\ step = "backup"
    /\ step' = "copy"
    /\ backup' = Corrupt
    /\ UNCHANGED <<db, connectionVars, cache, locked, sessions, faults, closed, unread>>

\* and ends, or fails, which is ignored.
EndBackup ==
    /\ step = "copy"
    /\ step' = "none"
    /\ closed' = cache
    /\ \/ NoFault /\ backup' = db
       \/ Fault /\ UNCHANGED backup
    /\ UNCHANGED <<db, connectionVars, cache, locked, sessions, unread>>

\* Recovery deletes the file; if it cannot, close() is rejected.
Recover ==
    /\ step = "recover"
    /\ \/ NoFault /\ db # Absent /\ db' = Absent /\ step' = "recreate"
       \/ /\ IF db = Absent THEN NoFault ELSE Fault
          /\ step' = "none"
          /\ UNCHANGED db
    /\ UNCHANGED <<backup, connectionVars, cache, locked, sessions, closed, unread>>

\* doConnect() makes a new file,
Recreate ==
    /\ step = "recreate"
    /\ \/ NoFault /\ db' = File({}) /\ step' = "restore"
       \/ Fault /\ step' = "none" /\ UNCHANGED db
    /\ UNCHANGED <<backup, connectionVars, cache, locked, sessions, closed, unread>>

\* the items of the cache are stored in it, and the new connection is closed; if one of
\* the two fails, close() is rejected.
Restore ==
    /\ step = "restore"
    /\ \/ NoFault /\ db' = File(cache) /\ step' = "backup"
       \/ Fault /\ db' \in {db, File(cache)} /\ step' = "none"
    /\ UNCHANGED <<backup, connectionVars, cache, locked, sessions, closed, unread>>

-----------------------------------------------------------------------------
(* The environment.                                                        *)

Crash ==
    /\ step # "none"
    /\ Fault
    /\ step' = "none"
    /\ UNCHANGED <<db, backup, connectionVars, cache, locked, sessions, closed, unread>>

\* The file is damaged between two sessions.
Damage ==
    /\ step = "none"
    /\ db.state = "good"
    /\ Fault
    /\ db' = Corrupt
    /\ UNCHANGED <<backup, step, connectionVars, cache, locked, sessions, closed, unread>>

Lock ==
    /\ step = "none"
    /\ db.state = "good"
    /\ ~locked
    /\ Fault
    /\ locked' = TRUE
    /\ UNCHANGED <<db, backup, step, connectionVars, cache, sessions, closed, unread>>

Unlock ==
    /\ locked
    /\ locked' = FALSE
    /\ UNCHANGED <<db, backup, step, connectionVars, cache, sessions, faults, closed, unread>>

Next ==
    \/ Connect \/ DoConnect \/ Busy \/ DoConnectFails \/ Unlink \/ Rename \/ Load
    \/ Update \/ Close \/ StartBackup \/ EndBackup \/ Recover \/ Recreate \/ Restore
    \/ Crash \/ Damage \/ Lock \/ Unlock

Spec == Init /\ [][Next]_vars

-----------------------------------------------------------------------------
(* Properties.                                                             *)

\* No single failure - the process dying at any step of opening, using or
\* closing, a file that is locked or damaged, an operation that fails - makes
\* the next session start without what an earlier session stored and closed.
\* The exception is a failing getItems(): close() then takes the empty cache for
\* what is to be recovered.
SurvivesOneFault ==
    step = "connected" /\ faults <= 1 /\ ~unread => closed \subseteq cache
=============================================================================
