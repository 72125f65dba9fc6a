---------------------------- MODULE MC_Storage ------------------------------
(* Instances of Storage for TLC.                                           *)
EXTENDS Storage

=============================================================================
