-------------------------- MODULE StorageWindows ---------------------------
(***************************************************************************)
(* The storage that windows share: every window has a Storage of its own   *)
(* whose database is a client of the storage in the main process           *)
(* (platform/storage/common/storageIpc.ts).  The channel in the main       *)
(* process (platform/storage/electron-main/storageIpc.ts) applies the      *)
(* updates and tells all windows, with a delay, which keys have changed.   *)
(*                                                                         *)
(* A partial function from keys to values stands for an update, a list of  *)
(* items and a change event alike; the value Missing deletes.  How a       *)
(* Storage schedules its flushes is the subject of module Storage: here a  *)
(* window flushes at any time, with one update in flight.  The messages    *)
(* between two processes arrive in order.                                  *)
(***************************************************************************)
EXTENDS Naturals, Sequences

CONSTANTS
    Windows, Keys, Values,
    Missing,     \* the value of a key that is not in a map
    MaxChanges,  \* bound: changes made by windows and by the main process
    MaxOpens     \* bound: windows that open, again or for the first time

VARIABLES
    state,       \* of a window's Storage: "None", "Loading", "Initialized" or "Closed"
    cache,       \* its items
    pending,     \* pendingInserts and pendingDeletes
    active,      \* an update is in flight
    main,        \* the items in the main process
    changed,     \* the keys of the events that Event.debounce holds back
    listeners,   \* the windows that main has a listener of
    toMain, toWindow,  \* the messages under way
    changes, opens

vars == <<state, cache, pending, active, main, changed, listeners, toMain, toWindow,
          changes, opens>>

Contents == Values \cup {Missing}
Maps == [Keys -> Contents]
Empty == [k \in Keys |-> Missing]

NoItems == [k \in {} |-> Missing]

\* The items of m, where it has any, over those of c.
Over(c, m) == [k \in DOMAIN c \cup DOMAIN m |-> IF k \in DOMAIN m THEN m[k] ELSE c[k]]

Message(type, items) == [type |-> type, items |-> items]

Init ==
    /\ state = [w \in Windows |-> "None"]
    /\ cache = [w \in Windows |-> Empty]
    /\ pending = [w \in Windows |-> NoItems]
    /\ active = [w \in Windows |-> FALSE]
    /\ main \in Maps
    /\ changed = {}
    /\ listeners = {}
    /\ toMain = [w \in Windows |-> <<>>]
    /\ toWindow = [w \in Windows |-> <<>>]
    /\ changes = 0
    /\ opens = 0

-----------------------------------------------------------------------------
(* The windows.                                                            *)

ListenFirst == <<Message("listen", NoItems), Message("getItems", NoItems)>>
GetItemsFirst == <<Message("getItems", NoItems), Message("listen", NoItems)>>

\* The constructor listens to changes, and init() asks for the items.  In a
\* window that loads, both requests wait for the main process and are sent
\* in this order.  Later, when the profile changes, listen() of the IPC
\* channel sends its request at the end of the turn, after that of init().
Open(w) ==
    /\ state[w] = "None"
    /\ toMain[w] = <<>>
    /\ opens < MaxOpens
    /\ opens' = opens + 1
    /\ state' = [state EXCEPT ![w] = "Loading"]
    /\ \E first \in {ListenFirst, GetItemsFirst} : toMain' = [toMain EXCEPT ![w] = first]
    /\ UNCHANGED <<cache, pending, active, main, changed, listeners, toWindow, changes>>

\* set(), and with the value Missing delete(), when it does not return early.
Set(w, k, v) ==
    /\ state[w] = "Initialized"
    /\ cache[w][k] # v
    /\ changes < MaxChanges
    /\ changes' = changes + 1
    /\ cache' = [cache EXCEPT ![w][k] = v]
    /\ pending' = [pending EXCEPT ![w] = Over(@, [x \in {k} |-> v])]
    /\ UNCHANGED <<state, active, main, changed, listeners, toMain, toWindow, opens>>

\* flushPending() hands the pending items to updateItems().
Flush(w) ==
    /\ pending[w] # NoItems
    /\ ~active[w]
    /\ active' = [active EXCEPT ![w] = TRUE]
    /\ pending' = [pending EXCEPT ![w] = NoItems]
    /\ toMain' = [toMain EXCEPT ![w] = Append(@, Message("updateItems", pending[w]))]
    /\ UNCHANGED <<state, cache, main, changed, listeners, toWindow, changes, opens>>

MutantCacheAfter(w, m) ==
    [k \in Keys |-> IF k \in DOMAIN m.items /\ m.items[k] # Missing THEN m.items[k]
                   ELSE cache[w][k]]

\* acceptExternal() for the items of an event, and the end of init().
CacheAfter(w, m) ==
    IF m.type = "change" /\ state[w] = "Closed" THEN cache[w] ELSE Over(cache[w], m.items)

Receive(w) ==
    /\ toWindow[w] # <<>>
    /\ LET m == Head(toWindow[w])
       IN  /\ cache' = [cache EXCEPT ![w] = CacheAfter(w, m)]
           /\ state' = [state EXCEPT ![w] = IF m.type = "items" THEN "Initialized" ELSE @]
           /\ active' = [active EXCEPT ![w] = @ /\ m.type # "updated"]
    /\ toWindow' = [toWindow EXCEPT ![w] = Tail(@)]
    /\ UNCHANGED <<pending, main, changed, listeners, toMain, changes, opens>>

\* close() of the Storage: no more changes, then a last flush.
Close(w) ==
    /\ state[w] = "Initialized"
    /\ state' = [state EXCEPT ![w] = "Closed"]
    /\ UNCHANGED <<cache, pending, active, main, changed, listeners, toMain, toWindow,
                   changes, opens>>

\* The window is gone, and what is on its way to it is lost.
Leave(w) ==
    /\ state' = [state EXCEPT ![w] = "None"]
    /\ cache' = [cache EXCEPT ![w] = Empty]
    /\ pending' = [pending EXCEPT ![w] = NoItems]
    /\ active' = [active EXCEPT ![w] = FALSE]
    /\ listeners' = listeners \ {w}
    /\ toWindow' = [toWindow EXCEPT ![w] = <<>>]
    /\ UNCHANGED <<main, changed, changes, opens>>

\* The flush of close() has ended, and close() of the client disposes it.
Closed(w) ==
    /\ state[w] = "Closed"
    /\ pending[w] = NoItems
    /\ ~active[w]
    /\ Leave(w)
    /\ UNCHANGED toMain

\* The process of the window ends; main has received some of its messages.
Crash(w) ==
    /\ state[w] # "None"
    /\ Leave(w)
    /\ \E n \in 0..Len(toMain[w]) : toMain' = [toMain EXCEPT ![w] = SubSeq(@, 1, n)]

-----------------------------------------------------------------------------
(* The main process.                                                       *)

MutantUpdateMain(m) ==
    /\ main' = Over(main, m)
    /\ changed' = {k \in DOMAIN m : main[k] # m[k]}

\* set() and delete() for the items of m.  Those that change something fire.
UpdateMain(m) ==
    /\ main' = Over(main, m)
    /\ changed' = changed \cup {k \in DOMAIN m : main[k] # m[k]}

\* A reply to window w, which is lost if the window is gone.
Reply(w, m) ==
    toWindow' = [toWindow EXCEPT ![w] = IF state[w] = "None" THEN @ ELSE Append(@, m)]

\* listen() and call() for the next message of w.
Handle(w) ==
    /\ toMain[w] # <<>>
    /\ toMain' = [toMain EXCEPT ![w] = Tail(@)]
    /\ LET m == Head(toMain[w])
       IN  \/ /\ m.type = "listen"
              /\ listeners' = IF state[w] = "None" THEN listeners ELSE listeners \cup {w}
              /\ UNCHANGED <<main, changed, toWindow>>
           \/ /\ m.type = "getItems"
              /\ Reply(w, Message("items", main))
              /\ UNCHANGED <<main, changed, listeners>>
           \/ /\ m.type = "updateItems"
              /\ UpdateMain(m.items)
              /\ Reply(w, Message("updated", NoItems))
              /\ UNCHANGED listeners
    /\ UNCHANGED <<state, cache, pending, active, changes, opens>>

\* The main process itself sets a key.
SetMain(k, v) ==
    /\ main[k] # v
    /\ changes < MaxChanges
    /\ changes' = changes + 1
    /\ UpdateMain([x \in {k} |-> v])
    /\ UNCHANGED <<state, cache, pending, active, listeners, toMain, toWindow, opens>>

\* Main has sent the items to w and has not started to listen for it.
Gap(w) ==
    /\ state[w] # "None"
    /\ toMain[w] # <<>>
    /\ Head(toMain[w]).type = "listen"
    /\ toMain[w] # ListenFirst

\* The debounced event: serializeStorageChangeEvents() reads the values anew.
\* Its delay of 100 ms outlasts the time between two messages that a window
\* sends in the same turn.
FireChanges ==
    /\ changed # {}
    /\ \A w \in Windows : ~Gap(w)
    /\ LET e == Message("change", [k \in changed |-> main[k]])
       IN  toWindow' = [w \in Windows |-> IF w \in listeners THEN Append(toWindow[w], e)
                                          ELSE toWindow[w]]
    /\ changed' = {}
    /\ UNCHANGED <<state, cache, pending, active, main, listeners, toMain, changes, opens>>

Next ==
    \/ \E w \in Windows :
         \/ Open(w)
         \/ \E k \in Keys, v \in Contents : Set(w, k, v)
         \/ Flush(w)
         \/ Receive(w)
         \/ Close(w)
         \/ Closed(w)
         \/ Crash(w)
         \/ Handle(w)
    \/ \E k \in Keys, v \in Contents : SetMain(k, v)
    \/ FireChanges

Spec == Init /\ [][Next]_vars

\* The timers fire, and the messages arrive.  No window has to close.
Progress ==
    \/ \E w \in Windows : Flush(w) \/ Receive(w) \/ Handle(w)
    \/ FireChanges

-----------------------------------------------------------------------------
(* Properties.                                                             *)

\* The window has a change of key k that main does not know of yet.
Unsent(w, k) ==
    \/ k \in DOMAIN pending[w]
    \/ \E i \in DOMAIN toMain[w] : k \in DOMAIN toMain[w][i].items

Untold(w, k) ==
    \/ k \in changed
    \/ \E i \in DOMAIN toWindow[w] : k \in DOMAIN toWindow[w][i].items

\* If a window and the main process have different values of a key, then a
\* message that settles the matter is under way, or waits for a timer: the
\* early returns of set(), delete() and acceptExternal(), and the change
\* events that carry the value of the moment they are sent, never leave two
\* processes with different values for good.
DivergenceIsUnderWay ==
    \A w \in Windows, k \in Keys :
        state[w] = "Initialized" /\ cache[w][k] # main[k] => Unsent(w, k) \/ Untold(w, k)

\* Once nobody changes anything, every window ends up with the items of the
\* main process, and stays with them, whatever windows opened or ended in
\* the midst of a change.
EventuallyAgree ==
    <>[](\A w \in Windows : state[w] = "Initialized" => cache[w] = main)
=============================================================================
