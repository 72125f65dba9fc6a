-------------------------- MODULE MC_ProtocolCalls --------------------------
(* PersistentProtocol for TLC, with every call of the peers' users.        *)
EXTENDS PersistentProtocol

\* The client sends one message.
OneAndNone == [p \in Peers |-> IF p = "client" THEN 1 ELSE 0]

-----------------------------------------------------------------------------
(* A constraint: what ends a connection is not mixed with what controls    *)
(* its flow.                                                               *)

UnderWay(types) ==
    \E p \in Peers :
        \/ \E i \in DOMAIN data[p] : data[p][i].type \in types
        \/ \E c \in 1..opened : \E i \in DOMAIN wire[c][p] : wire[c][p][i].type \in types

Ends(p) == didSendDisconnect[p] \/ disposed[p]

\* One peer ends the connection, when nothing is paused and no optional frame is under
\* way, and is disposed after a goodbye; before that, Pause and Resume are not under way
\* beside other optional frames.
OneConcern ==
    IF \E p \in Peers : Ends(p) \/ didDispose[p]
    THEN /\ \E p \in Peers : ~Ends(p)
         /\ \A p \in Peers : ~paused[p] /\ (disposed[p] => didSendDisconnect[p] \/ didDispose[p])
         /\ ~UnderWay({"Pause", "Resume", "Control", "KeepAlive"})
    ELSE ~(UnderWay({"Pause", "Resume"}) /\ UnderWay({"Control", "KeepAlive"}))
=============================================================================
