--------------------------- MODULE MC_RemoteWindow --------------------------
(***************************************************************************)
(* RemoteConnection for TLC: a Management connection, alone or with an     *)
(* extension host connection that is made after it.                        *)
(***************************************************************************)
EXTENDS RemoteConnection

CONSTANT SharedSockets   \* bound: sockets that the connections use together

\* No extension host connection is under way yet.
Alone == \A k \in ExtensionHosts : initial[k] /\ loop[k] = "resolving" /\ attempt[k] = 1

\* A constraint: an extension host connection is made once the Management connection is
\* there; then there are fewer sockets, and the owner does not end the latter.
SharedWindow ==
    \/ Alone
    \/ /\ opened <= SharedSockets
       /\ \A k \in Management : ~initial[k] /\ ~farewell[k]
=============================================================================
