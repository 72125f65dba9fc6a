----------------------------- MODULE DurableMap -----------------------------
(***************************************************************************)
(* What Storage promises of its database: the stored map only moves        *)
(* forward, from one state that the map in memory had to a later one.  A   *)
(* crash therefore loses recent changes but never mixes old and new ones.  *)
(* Once the database has reported an error (broken), what it holds is not  *)
(* reliable until the process ends.                                        *)
(***************************************************************************)

CONSTANTS Keys, Values, Missing

Maps == [Keys -> Values \cup {Missing}]

VARIABLES
    map,       \* the map in memory
    snapshot,  \* the state of map that is stored next
    stored,    \* the stored map
    broken

vars == <<map, snapshot, stored, broken>>

Init == /\ stored \in Maps
        /\ map = stored
        /\ snapshot = stored
        /\ broken = FALSE

Change == /\ \E k \in Keys, v \in Values \cup {Missing} : map' = [map EXCEPT ![k] = v]
          /\ UNCHANGED <<snapshot, stored, broken>>

Take == /\ snapshot' = map
        /\ UNCHANGED <<map, stored, broken>>

Store == /\ ~broken
         /\ stored' = snapshot
         /\ snapshot' \in {snapshot, map}
         /\ UNCHANGED <<map, broken>>

\* The database reports an error: what it holds is not reliable.
Break == /\ broken'
         /\ stored' \in Maps
         /\ snapshot' \in {snapshot, map}
         /\ UNCHANGED map

\* The stored map cannot be read: the map in memory starts empty.
Unreadable == /\ broken'
              /\ map' = [k \in Keys |-> Missing]
              /\ UNCHANGED <<snapshot, stored>>

\* The process ends; the transaction under way may have been committed.
Crash == /\ broken \/ stored' \in {stored, snapshot}
         /\ stored' \in Maps
         /\ map' = stored'
         /\ snapshot' = stored'
         /\ broken' = FALSE

Next == Change \/ Take \/ Store \/ Break \/ Unreadable \/ Crash

Spec == Init /\ [][Next]_vars

=============================================================================
