------------------------ MODULE MC_RemoteConnection ------------------------
(* RemoteConnection for TLC: one or two connections of a window.           *)
EXTENDS RemoteConnection

=============================================================================
