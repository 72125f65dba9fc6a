-------------------------- MODULE MC_WorkingCopies --------------------------
(***************************************************************************)
(* A text file model, with two choices of calls, and the backup of a       *)
(* working copy, for TLC.  The backup tracker sees a copy only through its *)
(* events, so every behaviour is about one of them, which the initial      *)
(* state chooses.                                                          *)
(***************************************************************************)
EXTENDS TextFileModel

CONSTANTS MaxFaults

VARIABLES
    part,
    up, copy, ops, suspended, known, file, isReady, unrestored, shutdown,
    backupUsed, backupHistory

\* Two saves with any options, and reverts and reads that race with a save.
AllSaves == {Explicit, WithoutParticipants, Auto, Overwrite, HandlesErrors}
SomeSaves == {WithoutParticipants, HandlesErrors}
SaveCalls ==
    [edit |-> 2, undo |-> 1, save |-> 2, cancel |-> 1, revert |-> 0, open |-> 0,
     outside |-> 1, fault |-> MaxFaults, dispose |-> 1, all |-> 5]
ReadCalls ==
    [edit |-> 2, undo |-> 0, save |-> 1, cancel |-> 0, revert |-> 1, open |-> 1,
     outside |-> 1, fault |-> MaxFaults, dispose |-> 0, all |-> 5]
BackupCalls ==
    [edit |-> 2, flip |-> 2, register |-> 1, shutdown |-> 1, cancel |-> 1,
     fault |-> MaxFaults, crash |-> 1, all |-> 5]

R == INSTANCE TextFileModel WITH SaveOptions <- SomeSaves, MaxCalls <- ReadCalls
B == INSTANCE WorkingCopyBackup WITH
        MaxCalls <- BackupCalls, used <- backupUsed, history <- backupHistory

backupVars == <<up, copy, ops, suspended, known, file, isReady, unrestored, shutdown,
                backupUsed, backupHistory>>

PartInit ==
    /\ part \in {"Save", "Read", "Backup"}
    /\ Init
    /\ B!Init

SavePart ==
    /\ part = "Save"
    /\ Next
    /\ UNCHANGED <<part, backupVars>>

ReadPart ==
    /\ part = "Read"
    /\ R!Next
    /\ UNCHANGED <<part, backupVars>>

BackupPart ==
    /\ part = "Backup"
    /\ B!Next
    /\ UNCHANGED <<part, vars>>

PartSpec == PartInit /\ [][SavePart \/ ReadPart \/ BackupPart]_<<part, vars, backupVars>>

-----------------------------------------------------------------------------
(* Properties of the backup, as WorkingCopyBackup states them.             *)

\* WorkingCopyBackupTracker: at rest, the backup is that of a modified copy.
BackupFollowsCopy == B!BackupFollowsCopy

\* NativeWorkingCopyBackupTracker: a window that closes leaves a backup of what is not
\* saved.
ClosesBackedUp == B!ClosesBackedUp

\* WorkingCopyBackupTracker: a backup of an earlier session is kept until it is opened.
UnopenedSurvives == B!UnopenedSurvives

\* WorkingCopyBackupTracker: "creating backups for modified working copies".
ModifiedIsBackedUp == B!ModifiedIsBackedUp

=============================================================================
