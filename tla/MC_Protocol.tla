----------------------------- MODULE MC_Protocol -----------------------------
(* PersistentProtocol for TLC.                                               *)
EXTENDS PersistentProtocol, TLC

\* How many messages each peer sends.
OneAndOne == [p \in Peers |-> 1]
TwoAndOne == [p \in Peers |-> IF p = "client" THEN 2 ELSE 1]

Symmetry == Permutations(Data)
=============================================================================
