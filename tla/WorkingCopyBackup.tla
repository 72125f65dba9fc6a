------------------------- MODULE WorkingCopyBackup -------------------------
(***************************************************************************)
(* Hot exit for one working copy: the backup tracker that follows its      *)
(* events, the backup service that queues the I/O on its backup file, and  *)
(* the before-shutdown and will-shutdown handling of the window, with      *)
(* vetoes, crashes and restarts.                                           *)
(*                                                                         *)
(* A content is a number that grows with every change.  An operation of    *)
(* the tracker that is not cancelled is its entry of                       *)
(* pendingBackupOperations; those that are cancelled run on until they     *)
(* look at their token.  A copy that is loading is registered, and reads   *)
(* its backup or its file before anyone can change it.                     *)
(***************************************************************************)
EXTENDS Integers, Sequences, SequencesExt

CONSTANTS
    MaxCalls    \* bounds, by name: edit, flip, register, shutdown, cancel, fault, crash,
                \* and all of these together

VARIABLES
    up,         \* the window runs
    copy,       \* the working copy, with its entry of mapWorkingCopyToContentVersion
    ops,        \* the operations of the tracker and of the shutdown, oldest first
    suspended,
    known,      \* the version of the entry of WorkingCopyBackupsModel, or Absent
    file,       \* the backup file: a content, Partial or Absent
    isReady,
    unrestored, \* unrestoredBackups has the backup
    shutdown,   \* phase, and the content that was modified when it began
    used,
    history     \* missed, kept, spoilt, anyway, empty, passedOver, opened: only for the
                \* properties

vars == <<up, copy, ops, suspended, known, file, isReady, unrestored, shutdown, used, history>>

Absent == -1
Partial == -2

NoCopy == [state |-> "none", modified |-> FALSE, content |-> 0, version |-> 0]
NoShutdown == [phase |-> "none", content |-> Absent]
NoHistory == [missed |-> FALSE, kept |-> FALSE, spoilt |-> FALSE, anyway |-> FALSE,
              empty |-> FALSE, passedOver |-> FALSE, opened |-> FALSE]

Init ==
    /\ up = TRUE
    /\ copy = [NoCopy EXCEPT !.state = "open"]
    /\ ops = <<>>
    /\ suspended = FALSE
    /\ known = Absent
    /\ file = Absent
    /\ isReady = TRUE
    /\ unrestored = FALSE
    /\ shutdown = NoShutdown
    /\ used = [c \in DOMAIN MaxCalls |-> 0]
    /\ history = [NoHistory EXCEPT !.opened = TRUE]

Call(c) ==
    /\ up
    /\ used[c] < MaxCalls[c]
    /\ used["all"] < MaxCalls["all"]
    /\ used' = [used EXCEPT ![c] = @ + 1, !["all"] = @ + 1]

-----------------------------------------------------------------------------
(* The tracker follows the events of the working copy.                     *)

Op(kind, phase, owner) ==
    [kind |-> kind, phase |-> phase, owner |-> owner, cancelled |-> FALSE,
     content |-> Absent, version |-> Absent]

\* cancelBackupOperation() and cancelBackupOperations(): a timer is cleared, what runs
\* already finds its token cancelled.
CancelOperations(s) ==
    LET running == SelectSeq(s, LAMBDA o : o.phase # "timer")
    IN  [i \in DOMAIN running |->
            [running[i] EXCEPT !.cancelled = @ \/ running[i].owner = "tracker"]]

ScheduleBackup(s) == Append(CancelOperations(s), Op("backup", "timer", "tracker"))
DiscardBackup(s) == Append(CancelOperations(s), Op("discard", "queued", "tracker"))

\* An event of the working copy: a suspended tracker misses it.
Follow(s, h) ==
    IF suspended
    THEN /\ UNCHANGED ops
         /\ history' = [h EXCEPT !.missed = TRUE]
    ELSE /\ ops' = s
         /\ history' = [h EXCEPT !.missed = FALSE, !.spoilt = @ /\ shutdown.phase # "none"]

\* onDidChangeDirty(), if it changes, and onDidChangeContent(): typing, and an undo back
\* to what was saved or a reload of a clean copy, which leave it clean.
Edit(modified) ==
    /\ Call("edit")
    /\ copy.state = "open"
    /\ copy' = [copy EXCEPT !.content = @ + 1, !.modified = modified, !.version = @ + 1]
    /\ CASE modified -> Follow(ScheduleBackup(ops), history)
         [] ~modified /\ copy.modified -> Follow(DiscardBackup(ops), history)
         [] ~modified /\ ~copy.modified -> UNCHANGED <<ops, history>>
    /\ shutdown' = IF modified THEN shutdown ELSE [shutdown EXCEPT !.content = Absent]
    /\ UNCHANGED <<up, suspended, known, file, isReady, unrestored>>

\* onDidChangeDirty() without a change of the content: a save or a soft revert, and a
\* save of a clean copy that fails and makes it dirty.
ChangeDirty ==
    /\ Call("flip")
    /\ copy.state = "open"
    /\ copy' = [copy EXCEPT !.modified = ~@]
    /\ Follow(IF copy'.modified THEN ScheduleBackup(ops) ELSE DiscardBackup(ops), history)
    /\ shutdown' = [shutdown EXCEPT !.content = Absent]
    /\ UNCHANGED <<up, suspended, known, file, isReady, unrestored>>

\* onDidUnregister()
Unregister ==
    /\ Call("register")
    /\ copy.state = "open"
    /\ ~copy.modified
    /\ copy' = [copy EXCEPT !.state = "none", !.version = 0]
    /\ Follow(DiscardBackup(ops), history)
    /\ UNCHANGED <<up, suspended, known, file, isReady, unrestored, shutdown>>

-----------------------------------------------------------------------------
(* An operation runs: the timer, the snapshot, and the queue of the file.  *)

\* model.has() with a version.
Has(version) == known # Absent /\ known = version

InQueue(o) == o.phase \in {"queued", "io"}
QueueIsEmpty == \A i \in DOMAIN ops : ~InQueue(ops[i])

\* The backup that has() reports is about to be deleted, or what a crash has left of it.
Doomed ==
    \/ file = Partial
    \/ \E i \in DOMAIN ops :
            /\ ops[i].kind = "discard"
            /\ ops[i].phase = "io" \/ (ops[i].phase = "queued" /\ ~ops[i].cancelled)

\* What comes after an operation: the next step of the shutdown, if it belongs to it.
\* (One of the tracker is no longer pending.)
Ended(o, phase) ==
    shutdown' = IF o.owner = "shutdown" /\ ~o.cancelled
                THEN [shutdown EXCEPT !.phase = phase]
                ELSE shutdown

TimerFires(i) ==
    /\ ops[i].phase = "timer"
    /\ ops' = IF copy.modified
              THEN [ops EXCEPT ![i].phase = "snapshot", ![i].content = copy.content]
              ELSE RemoveAt(ops, i)
    /\ UNCHANGED <<up, copy, suspended, known, file, isReady, unrestored, shutdown, used,
                   history>>

\* The copy has made its backup: the tracker asks the service to store it under the
\* version that the copy has now, the shutdown under the version that it had before.
SnapshotDone(i) ==
    LET o == ops[i]
        version == IF o.owner = "tracker" THEN copy.version ELSE o.version
        rest == RemoveAt(ops, i)
        goes == o.cancelled \/ (o.owner = "tracker" /\ ~copy.modified)
    IN  /\ o.phase = "snapshot"
        /\ IF goes \/ Has(version)
           THEN /\ ops' = rest
                /\ Ended(o, "agreed")
                /\ history' = [history EXCEPT !.spoilt = @ \/ (~goes /\ Doomed)]
           ELSE /\ ops' = Append(rest, [o EXCEPT !.phase = "queued", !.version = version])
                /\ UNCHANGED <<shutdown, history>>
        /\ UNCHANGED <<up, copy, suspended, known, file, isReady, unrestored, used>>

\* The copy can not make its backup.
SnapshotFails(i) ==
    /\ Call("fault")
    /\ ops[i].phase = "snapshot"
    /\ ops' = RemoveAt(ops, i)
    /\ Ended(ops[i], "errorDialog")
    /\ history' = [history EXCEPT !.missed = @ \/ ~ops[i].cancelled]
    /\ UNCHANGED <<up, copy, suspended, known, file, isReady, unrestored>>

MutantIsNext(i) == ops[i].phase = "queued"

\* The queue of the backup file starts operation i.
IsNext(i) ==
    /\ ops[i].phase = "queued"
    /\ \A j \in DOMAIN ops : ops[j].phase # "io" /\ (ops[j].phase = "queued" => j >= i)

\* Cancelled meanwhile, or another operation has stored the version.
Skips(o) == o.cancelled \/ (o.kind = "backup" /\ Has(o.version))

\* A write truncates the file first.
StartIO(i) ==
    LET o == ops[i]
    IN  /\ IsNext(i)
        /\ IF Skips(o)
           THEN /\ ops' = RemoveAt(ops, i)
                /\ Ended(o, "agreed")
                /\ UNCHANGED file
           ELSE /\ ops' = [ops EXCEPT ![i].phase = "io"]
                /\ file' = IF o.kind = "backup" THEN Partial ELSE file
                /\ UNCHANGED shutdown
        /\ UNCHANGED <<up, copy, suspended, known, isReady, unrestored, used, history>>

\* The write or the delete is done, and noted in the model even if it was cancelled
\* meanwhile.  A file that was deleted under a write stays away.
EndIO(i) ==
    LET o == ops[i]
    IN  /\ o.phase = "io"
        /\ ops' = RemoveAt(ops, i)
        /\ IF o.kind = "backup"
           THEN /\ known' = o.version
                /\ file' \in {o.content} \cup ({file} \cap {Absent})
           ELSE /\ known' = Absent
                /\ file' = Absent
        /\ Ended(o, "agreed")
        /\ UNCHANGED <<up, copy, suspended, isReady, unrestored, used, history>>

\* The write or the delete fails: errors of a delete are only logged.
FailIO(i) ==
    LET o == ops[i]
    IN  /\ Call("fault")
        /\ o.phase = "io"
        /\ ops' = RemoveAt(ops, i)
        /\ Ended(o, IF o.kind = "backup" THEN "errorDialog" ELSE "agreed")
        /\ history' = [history EXCEPT !.spoilt = TRUE]
        /\ UNCHANGED <<up, copy, suspended, known, file, isReady, unrestored>>

-----------------------------------------------------------------------------
(* The window is about to close.                                           *)

HasPending == \E i \in DOMAIN ops : ops[i].owner = "tracker" /\ ~ops[i].cancelled

MutantHasBackup == known # Absent

\* hasBackupSync() for the content of now.
HasBackup == Has(copy.version)

MutantKeepsUnrestored(emptyWindow) == unrestored /\ ~emptyWindow

\* discardBackupsBeforeShutdown() does nothing before the window knows which backups are
\* not restored, and in a workspace window keeps those.
KeepsUnrestored(emptyWindow) == ~isReady \/ (unrestored /\ ~emptyWindow)

\* onFinalBeforeShutdown(), after all other vetoes: with hot exit the copy is backed up
\* unless it has been, without hot exit the user is asked.  A window without modified
\* copies discards what is left.
BeforeShutdown(hotExit, emptyWindow) ==
    LET s == CancelOperations(ops)
        begin(phase) == [phase |-> phase,
                         content |-> IF copy.modified THEN copy.content ELSE Absent]
        store == [Op("backup", "snapshot", "shutdown") EXCEPT
                        !.content = copy.content, !.version = copy.version]
    IN  /\ Call("shutdown")
        /\ shutdown.phase = "none"
        /\ suspended' = TRUE
        /\ CASE copy.modified /\ hotExit /\ HasBackup ->
                    ops' = s /\ shutdown' = begin("agreed")
             [] copy.modified /\ hotExit /\ ~HasBackup ->
                    ops' = Append(s, store) /\ shutdown' = begin("handling")
             [] copy.modified /\ ~hotExit ->
                    ops' = s /\ shutdown' = begin("confirm")
             [] ~copy.modified /\ KeepsUnrestored(emptyWindow) ->
                    ops' = s /\ shutdown' = begin("agreed")
             [] ~copy.modified /\ ~KeepsUnrestored(emptyWindow) ->
                    ops' = s /\ shutdown' = begin("discardAll")
        /\ history' = [history EXCEPT !.missed = @ \/ HasPending,
                                      !.spoilt = @ \/ (HasBackup /\ Doomed),
                                      !.anyway = FALSE, !.empty = emptyWindow]
        /\ UNCHANGED <<up, copy, known, file, isReady, unrestored>>

\* discardBackups() deletes the folder of the backups, past the queue.
DiscardAll ==
    /\ up
    /\ shutdown.phase = "discardAll"
    /\ known' = Absent
    /\ file' = Absent
    /\ shutdown' = [shutdown EXCEPT !.phase = "agreed"]
    /\ history' = [history EXCEPT !.kept = @ \/ ~QueueIsEmpty]
    /\ UNCHANGED <<up, copy, ops, suspended, isReady, unrestored, used>>

\* The folder can not be deleted, or not all of it, which is only logged.
DiscardAllFails ==
    /\ Call("fault")
    /\ shutdown.phase = "discardAll"
    /\ file' \in {file, Absent}
    /\ shutdown' = [shutdown EXCEPT !.phase = "agreed"]
    /\ history' = [history EXCEPT !.kept = TRUE]
    /\ UNCHANGED <<up, copy, ops, suspended, known, isReady, unrestored>>

\* The user cancels the progress of the backup, and is asked instead.
CancelProgress ==
    /\ Call("cancel")
    /\ shutdown.phase = "handling"
    /\ ops' = [i \in DOMAIN ops |->
                [ops[i] EXCEPT !.cancelled = @ \/ ops[i].owner = "shutdown"]]
    /\ shutdown' = [shutdown EXCEPT !.phase = "confirm"]
    /\ UNCHANGED <<up, copy, suspended, known, file, isReady, unrestored, history>>

\* "Save", which may fail and veto, or "Don't Save", whose revert is soft: the backup of
\* what was saved or reverted is discarded, unless the window is not ready.
ConfirmSave(answer, succeeds) ==
    LET discards == Append(ops, Op("discard", "queued", "shutdown"))
    IN  /\ up
        /\ shutdown.phase = "confirm"
        /\ IF answer = "save" /\ ~(succeeds /\ copy.modified)
           THEN /\ shutdown' = [shutdown EXCEPT !.phase = "vetoed"]
                /\ UNCHANGED <<copy, ops, history>>
           ELSE /\ copy' = [copy EXCEPT !.modified = FALSE]
                /\ ops' = IF isReady THEN discards ELSE ops
                /\ shutdown' = [phase |-> IF isReady THEN "discarding" ELSE "agreed",
                                content |-> Absent]
                /\ history' = [history EXCEPT !.missed = TRUE]
        /\ UNCHANGED <<up, suspended, known, file, isReady, unrestored, used>>

\* "Cancel" in the first dialog, "OK" or "Close Anyway" in the one after an error.
Dismiss(anyway) ==
    /\ up
    /\ shutdown.phase \in {"confirm", "errorDialog"}
    /\ anyway => shutdown.phase = "errorDialog"
    /\ shutdown' = [shutdown EXCEPT !.phase = IF anyway THEN "agreed" ELSE "vetoed"]
    /\ history' = [history EXCEPT !.anyway = anyway]
    /\ UNCHANGED <<up, copy, ops, suspended, known, file, isReady, unrestored, used>>

\* resume(): the veto is sent, or the consent, after which the window waits.
Resume ==
    /\ up
    /\ shutdown.phase \in {"agreed", "vetoed"}
    /\ suspended
    /\ suspended' = FALSE
    /\ shutdown' = IF shutdown.phase = "vetoed"
                   THEN NoShutdown ELSE [shutdown EXCEPT !.phase = "waiting"]
    /\ UNCHANGED <<up, copy, ops, known, file, isReady, unrestored, used, history>>

\* Another window vetoes the quit.
Abandoned ==
    /\ up
    /\ shutdown.phase = "waiting"
    /\ shutdown' = NoShutdown
    /\ UNCHANGED <<up, copy, ops, suspended, known, file, isReady, unrestored, used, history>>

\* onWillShutdown() of the tracker: joinBackups() of the service holds the window.
WillShutdown ==
    /\ up
    /\ shutdown.phase = "waiting"
    /\ ops' = CancelOperations(ops)
    /\ suspended' = TRUE
    /\ shutdown' = [shutdown EXCEPT !.phase = "joining"]
    /\ UNCHANGED <<up, copy, known, file, isReady, unrestored, used, history>>

\* The window is gone: what it had in memory is lost.
Gone ==
    /\ up' = FALSE
    /\ copy' = [NoCopy EXCEPT !.content = copy.content]
    /\ ops' = <<>>
    /\ suspended' = FALSE
    /\ known' = Absent
    /\ isReady' = FALSE
    /\ unrestored' = FALSE
    /\ shutdown' = NoShutdown
    /\ history' = NoHistory

Close ==
    /\ up
    /\ shutdown.phase = "joining"
    /\ QueueIsEmpty
    /\ Gone
    /\ UNCHANGED <<file, used>>

\* The user does not wait for the joiners: force() of the will-shutdown event.
ForceClose ==
    /\ up
    /\ shutdown.phase = "joining"
    /\ ~QueueIsEmpty
    /\ Gone
    /\ UNCHANGED <<file, used>>

\* A write that the crash meets has left the file partial.
Crash ==
    /\ Call("crash")
    /\ Gone
    /\ UNCHANGED file

-----------------------------------------------------------------------------
(* The window opens again.                                                 *)

\* The model of the service finds the files that exist.
Restart ==
    /\ ~up
    /\ up' = TRUE
    /\ known' = IF file = Absent THEN Absent ELSE 0
    /\ UNCHANGED <<copy, ops, suspended, file, isReady, unrestored, shutdown, used, history>>

\* resolveBackupsToRestore(): a file without a preamble is passed over.
BackupsResolved ==
    /\ up
    /\ ~isReady
    /\ QueueIsEmpty
    /\ isReady' = TRUE
    /\ unrestored' = (known # Absent /\ file # Partial)
    /\ UNCHANGED <<up, copy, ops, suspended, known, file, shutdown, used, history>>

\* An editor is opened, by the user, by the workbench or by restoreBackups(): the copy
\* is registered and begins to load.
Open ==
    /\ up
    /\ copy.state = "none"
    /\ shutdown.phase = "none"
    /\ copy' = [copy EXCEPT !.state = "loading"]
    /\ UNCHANGED <<up, ops, suspended, known, file, isReady, unrestored, shutdown, used, history>>

\* The copy takes its content from the backup if there is one, and is dirty then.  (The
\* read of the backup waits in the queue.)
Loaded ==
    LET restores == known # Absent /\ file \notin {Absent, Partial}
        loaded == [history EXCEPT !.opened = TRUE, !.kept = @ \/ known > 0]
    IN  /\ up
        /\ copy.state = "loading"
        /\ QueueIsEmpty
        /\ copy' = [state |-> "open", modified |-> restores, version |-> 0,
                    content |-> IF restores THEN file ELSE copy.content]
        /\ IF restores
           THEN Follow(ScheduleBackup(ops), loaded)
           ELSE UNCHANGED ops /\ history' = loaded
        /\ UNCHANGED <<up, suspended, known, file, isReady, unrestored, shutdown, used>>

\* The backup or the file can not be read: the model is disposed, and the tracker
\* discards the backup of a copy that is no longer registered.
LoadFails ==
    /\ Call("fault")
    /\ copy.state = "loading"
    /\ QueueIsEmpty
    /\ copy' = [copy EXCEPT !.state = "none"]
    /\ Follow(DiscardBackup(ops), [history EXCEPT !.passedOver = TRUE])
    /\ UNCHANGED <<up, suspended, known, file, isReady, unrestored, shutdown>>

\* restoreBackups() has resolved the editor of the backup.  It does not wait for one
\* that is visible, which may be loading still.
Restored ==
    /\ up
    /\ isReady
    /\ unrestored
    /\ copy.state # "none"
    /\ unrestored' = FALSE
    /\ history' = [history EXCEPT !.passedOver = @ \/ copy.state = "loading"]
    /\ UNCHANGED <<up, copy, ops, suspended, known, file, isReady, shutdown, used>>

OpStep(i) ==
    \/ TimerFires(i)
    \/ SnapshotDone(i)
    \/ SnapshotFails(i)
    \/ StartIO(i)
    \/ EndIO(i)
    \/ FailIO(i)

Next ==
    \/ \E modified \in BOOLEAN : Edit(modified)
    \/ ChangeDirty
    \/ Unregister
    \/ \E i \in DOMAIN ops : OpStep(i)
    \/ \E hotExit, emptyWindow \in BOOLEAN : BeforeShutdown(hotExit, emptyWindow)
    \/ DiscardAll
    \/ DiscardAllFails
    \/ CancelProgress
    \/ \E answer \in {"save", "dontSave"}, succeeds \in BOOLEAN : ConfirmSave(answer, succeeds)
    \/ \E anyway \in BOOLEAN : Dismiss(anyway)
    \/ Resume
    \/ Abandoned
    \/ WillShutdown
    \/ Close
    \/ ForceClose
    \/ Crash
    \/ Restart
    \/ BackupsResolved
    \/ Open
    \/ Loaded
    \/ LoadFails
    \/ Restored

Spec == Init /\ [][Next]_vars

-----------------------------------------------------------------------------
(* Properties.                                                             *)

\* No operation of the tracker or of a shutdown is under way.
AtRest == up /\ isReady /\ ops = <<>> /\ shutdown.phase = "none"

\* "creating backups for modified working copies" (WorkingCopyBackupTracker): a modified
\* copy has a backup of its content once the tracker is at rest.
ModifiedIsBackedUp == AtRest /\ copy.modified => file = copy.content

\* The tracker at rest: a modified copy has a backup of its content, and a copy that is
\* not modified has none that could be restored, however edits, saves, slow writes and
\* deletes interleave.  Except when
\*   - missed: an event was missed during a shutdown that was vetoed, a shutdown has
\*     cancelled the operation, or the copy could not make its backup;
\*   - spoilt and kept, as for ClosesBackedUp.
BackupFollowsCopy ==
    AtRest /\ copy.state = "open" /\ ~unrestored
        /\ ~history.missed /\ ~history.kept /\ ~history.spoilt =>
        IF copy.modified THEN file = copy.content ELSE file \in {Absent, Partial}

\* A window that closes, other than by a crash, with changes that were not saved when
\* the shutdown began.
ClosesModified ==
    up /\ ~up' /\ used' = used /\ shutdown.phase = "joining" /\ shutdown.content # Absent

\* A window that closes leaves a backup of what is not saved, no older than the begin of
\* the shutdown, even though hasBackupSync() only compares versions and writes are
\* still in the queue; and nothing partial.  Except when
\*   - the user closes anyway after an error, or does not wait for the queue;
\*   - spoilt: the version that hasBackupSync() found is about to be deleted by an
\*     operation that can no longer be cancelled, is the partial file that a crash has
\*     left, or a write or a delete of it has failed;
\*   - kept: an earlier shutdown has deleted the folder past the queue, or failed to, or
\*     the copy was opened again, and counts its versions again, while the service still
\*     had an entry for an earlier one.
ClosesBackedUp ==
    [][/\ ClosesModified
       /\ QueueIsEmpty /\ ~history.anyway /\ ~history.kept /\ ~history.spoilt
       => file >= shutdown.content]_vars

\* A backup of an earlier session that no one has opened yet is not lost, neither before
\* the window has read which backups there are nor when it closes without modified
\* copies.  Except when
\*   - the window is empty, which discards all of them;
\*   - passedOver: restoreBackups() took its editor for restored while it was loading, or
\*     reading it has failed.
UnopenedSurvives ==
    [][/\ ~history.opened /\ file >= 0 /\ ~history.passedOver
       /\ ~(shutdown.phase = "discardAll" /\ history.empty)
       => file' = file]_vars

=============================================================================
