--------------------------- MODULE ReliableChannel --------------------------
(***************************************************************************)
(* What PersistentProtocol promises the code above it (the channels of     *)
(* ipc.ts and rpcProtocol.ts): a queue in each direction that delivers     *)
(* what is sent, in order and exactly once.  Sockets, acknowledgements and *)
(* retransmission are not visible here.                                    *)
(***************************************************************************)
EXTENDS Integers, Sequences

CONSTANTS Peers, Data, Other(_)

VARIABLES sent, delivered

Init ==
    /\ sent = [p \in Peers |-> <<>>]
    /\ delivered = [p \in Peers |-> <<>>]

\* send()
Send(p, d) ==
    /\ sent' = [sent EXCEPT ![p] = Append(@, d)]
    /\ UNCHANGED delivered

\* onMessage fires with the oldest message that has not been delivered.
Deliver(p) ==
    LET n == Len(delivered[p]) + 1
    IN  /\ n <= Len(sent[Other(p)])
        /\ delivered' = [delivered EXCEPT ![p] = Append(@, sent[Other(p)][n])]
        /\ UNCHANGED sent

Next ==
    \E p \in Peers :
        \/ \E d \in Data : Send(p, d)
        \/ Deliver(p)

Spec == Init /\ [][Next]_<<sent, delivered>>

=============================================================================
