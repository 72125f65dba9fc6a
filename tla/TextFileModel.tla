--------------------------- MODULE TextFileModel ---------------------------
(***************************************************************************)
(* One resolved TextFileEditorModel, the TaskSequentializer that orders    *)
(* its saves, the part of the TextFileEditorModelManager that reloads it,  *)
(* and the calls of the file service that both make, on a file that other  *)
(* programs change too.                                                    *)
(*                                                                         *)
(* A content is a pair: who wrote it, and a number that makes it unique.   *)
(* Every content has a size of its own, so the size in a stat is the       *)
(* content.  A text is a content with the alternative version id of the    *)
(* text model, which an undo brings back.                                  *)
(***************************************************************************)
EXTENDS Integers, Sequences, SequencesExt, FiniteSets

CONSTANTS
    SaveOptions, \* the options that users and features save with
    MaxCalls     \* bounds, by name: edit, undo, save, cancel, revert, open, outside, fault,
                 \* dispose, and all of these together

VARIABLES
    text,       \* the text model: now, and past (what undo brings back)
    versionId,
    flags,      \* dirty, inConflictMode, inErrorMode, bufferSavedVersionId
    inOrphanMode,
    isDisposed,
    lastResolvedFileStat,
    recentlyUndone,   \* the last change came from an undo, less than 500 ms ago
    saver,      \* saveSequentializer, the saves under way, ignoreSaveFromSaveParticipants
    reads,      \* the reads under way, by who asked: a reload, a revert, an editor that opens
    reloads,    \* the size of the queue of modelResolveQueue
    revert,     \* the revert() under way
    orphanCheck,   \* the onDidFilesChange() that checks whether the file is gone
    disk,
    events,     \* file events that have not been delivered
    used,       \* calls so far, by name
    history     \* onDisk, released, forgotten, seen, raced, asked: only for the properties

vars == <<text, versionId, flags, inOrphanMode, isDisposed, lastResolvedFileStat,
          recentlyUndone, saver, reads, reloads, revert, orphanCheck, disk, events,
          used, history>>

None == [none |-> TRUE]
Slots == 1..2
Readers == {"reload", "revert", "open"}

\* The options of a save: the user's, with and without the save participants, that of
\* auto save, that of a conflict that is resolved, and that of configuration editing.
NoOptions == [auto |-> FALSE, force |-> FALSE, ignoreModifiedSince |-> FALSE,
              skipSaveParticipants |-> FALSE, ignoreErrorHandler |-> FALSE]
Explicit == [NoOptions EXCEPT !.force = TRUE]
WithoutParticipants == [Explicit EXCEPT !.skipSaveParticipants = TRUE]
Auto == [NoOptions EXCEPT !.auto = TRUE]
Overwrite == [NoOptions EXCEPT !.ignoreModifiedSince = TRUE]
HandlesErrors == [NoOptions EXCEPT !.ignoreErrorHandler = TRUE]

Initial == <<"file", 0>>
StatOf(d) == [mtime |-> d.mtime, size |-> d.content]

Init ==
    /\ text = [now |-> [alt |-> 0, content |-> Initial], past |-> <<>>]
    /\ versionId = 0
    /\ flags = [dirty |-> FALSE, inConflictMode |-> FALSE, inErrorMode |-> FALSE,
                bufferSavedVersionId |-> 0]
    /\ inOrphanMode = FALSE
    /\ isDisposed = FALSE
    /\ disk = [content |-> Initial, mtime |-> 0, exists |-> TRUE]
    /\ lastResolvedFileStat = StatOf(disk)
    /\ recentlyUndone = FALSE
    /\ saver = [running |-> None, queued |-> None, tasks |-> [s \in Slots |-> None],
                ignoring |-> FALSE]
    /\ reads = [r \in Readers |-> None]
    /\ reloads = 0
    /\ revert = None
    /\ orphanCheck = "none"
    /\ events = {}
    /\ used = [c \in DOMAIN MaxCalls |-> 0]
    /\ history = [onDisk |-> {Initial}, released |-> {}, forgotten |-> {},
                  seen |-> {Initial}, raced |-> FALSE, asked |-> 0]

Call(c) ==
    /\ used[c] < MaxCalls[c]
    /\ used["all"] < MaxCalls["all"]
    /\ used' = [used EXCEPT ![c] = @ + 1, !["all"] = @ + 1]

fileVars == <<disk, events>>
readVars == <<reads, reloads, revert, orphanCheck>>

-----------------------------------------------------------------------------
(* Dirty state.                                                            *)

\* doSetDirty(dirty), with the alternative version id of the text.
DoSetDirty(f, dirty, alt) ==
    IF dirty
    THEN [f EXCEPT !.dirty = TRUE]
    ELSE [dirty |-> FALSE, inConflictMode |-> FALSE, inErrorMode |-> FALSE,
          bufferSavedVersionId |-> alt]

\* onModelContentChanged() for a change by the user.
AfterChange(f, alt) == DoSetDirty(f, alt # f.bufferSavedVersionId, alt)

\* Typing, or an edit of a save participant.
Edit ==
    LET new == [alt |-> versionId + 1, content |-> <<"edit", versionId + 1>>]
    IN  /\ Call("edit")
        /\ ~isDisposed
        /\ text' = [now |-> new, past |-> Append(text.past, text.now)]
        /\ versionId' = versionId + 1
        /\ flags' = AfterChange(flags, new.alt)
        /\ history' = [history EXCEPT !.seen = @ \cup {new.content}]
        /\ UNCHANGED <<inOrphanMode, isDisposed, lastResolvedFileStat, recentlyUndone, saver,
                       readVars, fileVars>>

Undo ==
    LET back == Last(text.past)
    IN  /\ Call("undo")
        /\ ~isDisposed
        /\ text.past # <<>>
        /\ text' = [now |-> back, past |-> Front(text.past)]
        /\ versionId' = versionId + 1
        /\ flags' = AfterChange(flags, back.alt)
        /\ recentlyUndone' = TRUE
        /\ history' = [history EXCEPT !.asked = IF flags'.dirty THEN @ ELSE 0]
        /\ UNCHANGED <<inOrphanMode, isDisposed, lastResolvedFileStat, saver, readVars,
                       fileVars>>

\* The throttle threshold after an undo passes.
ThrottlePasses ==
    /\ recentlyUndone
    /\ recentlyUndone' = FALSE
    /\ UNCHANGED <<text, versionId, flags, inOrphanMode, isDisposed, lastResolvedFileStat,
                   saver, readVars, fileVars, used, history>>

-----------------------------------------------------------------------------
(* Saving.                                                                 *)

IsRunning(s) == s.running # None

\* What a save looks at when it starts, after the handler of an earlier one.
Model(f, stat) == [dirty |-> f.dirty, version |-> versionId, stat |-> stat]

\* The task of a save starts: it writes at once if it skips the save participants, and
\* an automatic save right after an undo waits before it runs them.
StartTask(s, options, m) ==
    LET slot == CHOOSE k \in Slots : s.tasks[k] = None
        skips == options.skipSaveParticipants /\ ~isDisposed
        waits == ~skips /\ options.auto /\ recentlyUndone
        task == [phase |-> IF skips THEN "write" ELSE IF waits THEN "waiting" ELSE "participants",
                 cancelled |-> FALSE, options |-> options, outer |-> m.version,
                 version |-> m.version, content |-> text.now.content, base |-> m.stat,
                 unchecked |-> FALSE, result |-> "pending", stat |-> None]
    IN  [s EXCEPT !.tasks[slot] = task, !.ignoring = @ \/ task.phase = "participants",
                  !.running = [taskId |-> m.version, slot |-> slot, cancellable |-> TRUE]]

\* The error flag is cleared when a task begins to write.
Cleared(f, s) ==
    IF \E k \in Slots :
            s.tasks[k] # None /\ s.tasks[k].phase = "write" /\ s.tasks[k] # saver.tasks[k]
    THEN [f EXCEPT !.inErrorMode = FALSE]
    ELSE f

CancelsWithoutEffect(task) == task.phase \notin {"waiting", "participants"}

\* cancelRunning(): participants can be cancelled, a write can not.
CancelRunning(s) ==
    IF ~s.running.cancellable \/ CancelsWithoutEffect(s.tasks[s.running.slot])
    THEN s
    ELSE [s EXCEPT !.tasks[s.running.slot].cancelled = TRUE]

MutantDoSave(s, options, m) ==
    IF s.ignoring \/ (IsRunning(s) /\ s.running.taskId = m.version) \/ (~options.force /\ ~m.dirty)
    THEN s
    ELSE StartTask(s, options, m)

\* doSave(), up to its first await.
DoSave(s, options, m) ==
    IF \/ s.ignoring
       \/ IsRunning(s) /\ s.running.taskId = m.version
       \/ ~options.force /\ ~m.dirty
    THEN s
    ELSE IF IsRunning(s)
         THEN [CancelRunning(s) EXCEPT !.queued = options]
         ELSE StartTask(s, options, m)

MutantDoneRunning(s, taskId, m) ==
    IF ~IsRunning(s) \/ s.running.taskId # taskId
    THEN s
    ELSE [s EXCEPT !.running = None]

\* TaskSequentializer.doneRunning() and runQueued().
DoneRunning(s, taskId, m) ==
    IF ~IsRunning(s) \/ s.running.taskId # taskId
    THEN s
    ELSE IF s.queued = None
         THEN [s EXCEPT !.running = None]
         ELSE DoSave([s EXCEPT !.running = None, !.queued = None], s.queued, m)

\* A task ends before it has written anything.
EndEarly(s, slot) ==
    DoneRunning([s EXCEPT !.tasks[slot] = None], s.tasks[slot].outer,
                Model(flags, lastResolvedFileStat))

\* A call of save() that the properties count: there is something to save, and it does
\* not meet a save that the user has cancelled and that has not ended yet.
Counts ==
    /\ flags.dirty
    /\ ~ /\ IsRunning(saver)
         /\ saver.tasks[saver.running.slot].cancelled
         /\ saver.ignoring \/ saver.running.taskId = versionId

\* save(): automatic saves do not touch a model in conflict or error.
Save(options) ==
    /\ Call("save")
    /\ ~isDisposed
    /\ ~(options.auto /\ (flags.inConflictMode \/ flags.inErrorMode))
    /\ saver' = DoSave(saver, options, Model(flags, lastResolvedFileStat))
    /\ flags' = Cleared(flags, saver')
    /\ history' = [history EXCEPT !.asked = IF Counts THEN versionId ELSE @]
    /\ UNCHANGED <<text, versionId, inOrphanMode, isDisposed, lastResolvedFileStat,
                   recentlyUndone, readVars, fileVars>>

\* The user cancels the progress of a save.
CancelSave(slot) ==
    /\ Call("cancel")
    /\ saver.tasks[slot] # None
    /\ saver.tasks[slot].phase \in {"waiting", "participants"}
    /\ saver' = [saver EXCEPT !.tasks[slot].cancelled = TRUE]
    /\ history' = [history EXCEPT !.asked = 0]
    /\ UNCHANGED <<text, versionId, flags, inOrphanMode, isDisposed, lastResolvedFileStat,
                   recentlyUndone, readVars, fileVars>>

\* The wait after an undo is over.
WaitOver(slot) ==
    /\ saver.tasks[slot] # None
    /\ saver.tasks[slot].phase = "waiting"
    /\ saver' = IF saver.tasks[slot].cancelled
                THEN EndEarly(saver, slot)
                ELSE [saver EXCEPT !.tasks[slot].phase = "participants", !.ignoring = TRUE]
    /\ flags' = Cleared(flags, saver')
    /\ UNCHANGED <<text, versionId, inOrphanMode, isDisposed, lastResolvedFileStat,
                   recentlyUndone, readVars, fileVars, used, history>>

\* A save that was cancelled, or whose model is gone, does not write.
MayWrite(task) == ~task.cancelled /\ ~isDisposed

\* The save participants have ended, in success or not.
ParticipantsDone(slot) ==
    LET task == saver.tasks[slot]
        s == [saver EXCEPT !.ignoring = FALSE]
    IN  /\ task # None
        /\ task.phase = "participants"
        /\ saver' = IF MayWrite(task)
                    THEN [s EXCEPT
                        !.tasks[slot].phase = "write", !.tasks[slot].version = versionId,
                        !.tasks[slot].content = text.now.content,
                        !.tasks[slot].base = lastResolvedFileStat,
                        !.running = [taskId |-> versionId, slot |-> slot, cancellable |-> FALSE]]
                    ELSE EndEarly(s, slot)
        /\ flags' = Cleared(flags, saver')
        /\ UNCHANGED <<text, versionId, inOrphanMode, isDisposed, lastResolvedFileStat,
                       recentlyUndone, readVars, fileVars, used, history>>

-----------------------------------------------------------------------------
(* The file service: a write checks the file, writes it and asks for its   *)
(* new stat; a read with an etag asks for the stat first, one without      *)
(* reads the stat and the content in parallel.                             *)


\* The check against dirty writes of validateWriteFile().
ModifiedSince(base, stat) == base.mtime < stat.mtime /\ stat.size # base.size

ValidateWrite(slot) ==
    LET task == saver.tasks[slot]
        conflict == /\ disk.exists
                    /\ ~task.options.ignoreModifiedSince
                    /\ ModifiedSince(task.base, StatOf(disk))
    IN  /\ task # None
        /\ task.phase = "write"
        /\ saver' = IF conflict
                    THEN [saver EXCEPT !.tasks[slot].phase = "settled",
                                       !.tasks[slot].result = "conflict"]
                    ELSE [saver EXCEPT !.tasks[slot].phase = "validated"]
        /\ UNCHANGED <<text, versionId, flags, inOrphanMode, isDisposed, lastResolvedFileStat,
                       recentlyUndone, readVars, fileVars, used, history>>

\* provider.stat() fails: validateWriteFile() takes it for a file that does not exist, so
\* that nothing is checked, and the write that was done ends with an error.
StatFails(slot) ==
    LET task == saver.tasks[slot]
    IN  /\ Call("fault")
        /\ task # None
        /\ \/ /\ task.phase = "write"
              /\ saver' = [saver EXCEPT !.tasks[slot].phase = "validated",
                                        !.tasks[slot].unchecked = TRUE]
           \/ /\ task.phase = "written"
              /\ saver' = [saver EXCEPT !.tasks[slot].phase = "settled",
                                        !.tasks[slot].result = "error"]
        /\ UNCHANGED <<text, versionId, flags, inOrphanMode, isDisposed, lastResolvedFileStat,
                       recentlyUndone, readVars, fileVars, history>>

\* What the watcher reports of a write.
WriteEvent == IF disk.exists THEN "UPDATED" ELSE "ADDED"

\* The content reaches the disk.
WriteOut(slot) ==
    LET task == saver.tasks[slot]
    IN  /\ task # None
        /\ task.phase = "validated"
        /\ disk' = [content |-> task.content, mtime |-> disk.mtime + 1, exists |-> TRUE]
        /\ events' = events \cup {WriteEvent}
        /\ saver' = [saver EXCEPT !.tasks[slot].phase = "written"]
        /\ history' = [history EXCEPT !.onDisk = @ \cup {task.content}]
        /\ UNCHANGED <<text, versionId, flags, inOrphanMode, isDisposed, lastResolvedFileStat,
                       recentlyUndone, readVars, used>>

\* The write fails, before or after it has truncated the file.
WriteFails(slot) ==
    LET task == saver.tasks[slot]
        truncated == [content |-> <<"truncated", disk.mtime + 1>>, mtime |-> disk.mtime + 1,
                      exists |-> TRUE]
    IN  /\ Call("fault")
        /\ task # None
        /\ task.phase = "validated"
        /\ \/ UNCHANGED <<fileVars, history>>
           \/ /\ disk' = truncated
              /\ events' = events \cup {WriteEvent}
              /\ history' = [history EXCEPT !.onDisk = @ \cup {truncated.content},
                                            !.seen = @ \cup {truncated.content}]
        /\ saver' = [saver EXCEPT !.tasks[slot].phase = "settled", !.tasks[slot].result = "error"]
        /\ UNCHANGED <<text, versionId, flags, inOrphanMode, isDisposed, lastResolvedFileStat,
                       recentlyUndone, readVars>>

StatAfterWrite(slot) ==
    /\ saver.tasks[slot] # None
    /\ saver.tasks[slot].phase = "written"
    /\ saver' = [saver EXCEPT !.tasks[slot].phase = "settled",
                              !.tasks[slot].result = IF disk.exists THEN "ok" ELSE "error",
                              !.tasks[slot].stat = StatOf(disk)]
    /\ UNCHANGED <<text, versionId, flags, inOrphanMode, isDisposed, lastResolvedFileStat,
                   recentlyUndone, readVars, fileVars, used, history>>

\* updateLastResolvedFileStat()
Newer(stat) ==
    IF lastResolvedFileStat.mtime <= stat.mtime THEN stat ELSE lastResolvedFileStat

\* The flags after handleSaveSuccess() and after handleSaveError().
SavedFlags(task) ==
    IF task.version = versionId /\ ~isDisposed
    THEN DoSetDirty(flags, FALSE, text.now.alt)
    ELSE flags
MutantErrorFlags(task) ==
    [flags EXCEPT !.inErrorMode = TRUE, !.inConflictMode = @ \/ task.result = "conflict"]
ErrorFlags(task) ==
    IF task.options.ignoreErrorHandler
    THEN flags
    ELSE [flags EXCEPT !.dirty = @ \/ ~isDisposed, !.inErrorMode = TRUE,
                       !.inConflictMode = @ \/ task.result = "conflict"]

\* The write answers: the handler, and the ends of the inner and the outer task.
SaveSettles(slot) ==
    LET task == saver.tasks[slot]
        failed == task.result # "ok"
        free == [saver EXCEPT !.tasks[slot] = None]
        f == IF failed THEN ErrorFlags(task) ELSE SavedFlags(task)
        stat == IF failed THEN lastResolvedFileStat ELSE Newer(task.stat)
        inner == DoneRunning(free, task.version, Model(f, stat))
    IN  /\ task # None
        /\ task.phase = "settled"
        /\ lastResolvedFileStat' = stat
        /\ inOrphanMode' = (inOrphanMode /\ failed)
        /\ saver' = DoneRunning(inner, task.outer, Model(f, stat))
        /\ flags' = Cleared(f, saver')
        /\ history' = [history EXCEPT
                !.asked = IF failed \/ task.version >= @ THEN 0 ELSE @]
        /\ UNCHANGED <<text, versionId, isDisposed, recentlyUndone, readVars, fileVars, used>>

-----------------------------------------------------------------------------
(* Reading the file again.                                                 *)

\* A read of resolveFromFile().
NewRead(force) ==
    [force |-> force, versionId |-> versionId, etag |-> lastResolvedFileStat,
     stat |-> None, content |-> <<>>, result |-> "pending"]

\* resolve() does not replace what is dirty or being saved.
MayResolve == ~flags.dirty /\ ~IsRunning(saver) /\ ~isDisposed

\* mapResourceToPendingModelResolvers has the file: joinPendingResolves() waits.
PendingResolve == reads["reload"] # None \/ reads["revert"] # None

\* revert(), which reads the file at once unless another read is pending.
Revert ==
    /\ Call("revert")
    /\ ~isDisposed
    /\ revert = None
    /\ flags' = DoSetDirty(flags, FALSE, text.now.alt)
    /\ IF PendingResolve
       THEN /\ revert' = [undo |-> flags]
            /\ UNCHANGED reads
       ELSE IF IsRunning(saver)
            THEN UNCHANGED <<revert, reads>>
            ELSE /\ revert' = [undo |-> flags]
                 /\ reads' = [reads EXCEPT !["revert"] = NewRead(TRUE)]
    /\ history' = [history EXCEPT !.released = @ \cup {text.now.content}, !.asked = 0]
    /\ UNCHANGED <<text, versionId, inOrphanMode, isDisposed, lastResolvedFileStat,
                   recentlyUndone, saver, reloads, orphanCheck, fileVars>>

\* The read that a revert() has waited for is over.
RevertResolves ==
    /\ revert # None
    /\ ~PendingResolve
    /\ IF MayResolve
       THEN /\ reads' = [reads EXCEPT !["revert"] = NewRead(TRUE)]
            /\ UNCHANGED revert
       ELSE /\ revert' = None
            /\ UNCHANGED reads
    /\ UNCHANGED <<text, versionId, flags, inOrphanMode, isDisposed, lastResolvedFileStat,
                   recentlyUndone, saver, reloads, orphanCheck, fileVars, used, history>>

\* An editor opens on the model: an asynchronous reload, which no one joins.
Open ==
    /\ Call("open")
    /\ MayResolve
    /\ reads["open"] = None
    /\ reads' = [reads EXCEPT !["open"] = NewRead(FALSE)]
    /\ UNCHANGED <<text, versionId, flags, inOrphanMode, isDisposed, lastResolvedFileStat,
                   recentlyUndone, saver, reloads, revert, orphanCheck, fileVars, history>>

\* reload(), from the queue of reloads.
Reload ==
    /\ reloads > 0
    /\ ~PendingResolve
    /\ IF MayResolve
       THEN /\ reads' = [reads EXCEPT !["reload"] = NewRead(FALSE)]
            /\ UNCHANGED reloads
       ELSE /\ reloads' = reloads - 1
            /\ UNCHANGED reads
    /\ UNCHANGED <<text, versionId, flags, inOrphanMode, isDisposed, lastResolvedFileStat,
                   recentlyUndone, saver, revert, orphanCheck, fileVars, used, history>>

Pending(r) == reads[r] # None /\ reads[r].result = "pending"

\* validateReadFile()
ReadStat(r) ==
    LET stat == StatOf(disk)
        notModified == ~reads[r].force /\ reads[r].etag = stat
    IN  /\ Pending(r)
        /\ reads[r].stat = None
        /\ reads' = [reads EXCEPT
                ![r].stat = IF disk.exists THEN stat ELSE None,
                ![r].result = IF ~disk.exists THEN "notFound"
                              ELSE IF notModified THEN "notModified" ELSE "pending"]
        /\ UNCHANGED <<text, versionId, flags, inOrphanMode, isDisposed, lastResolvedFileStat,
                       recentlyUndone, saver, reloads, revert, orphanCheck, fileVars, used,
                       history>>

ReadContent(r) ==
    /\ Pending(r)
    /\ reads[r].content = <<>>
    /\ reads[r].force \/ reads[r].stat # None
    /\ reads' = [reads EXCEPT
            ![r].content = IF disk.exists THEN disk.content ELSE <<>>,
            ![r].result = IF disk.exists THEN "pending" ELSE "notFound"]
    /\ UNCHANGED <<text, versionId, flags, inOrphanMode, isDisposed, lastResolvedFileStat,
                   recentlyUndone, saver, reloads, revert, orphanCheck, fileVars, used, history>>

ReadFails(r) ==
    /\ Call("fault")
    /\ Pending(r)
    /\ reads' = [reads EXCEPT ![r].result = "error"]
    /\ UNCHANGED <<text, versionId, flags, inOrphanMode, isDisposed, lastResolvedFileStat,
                   recentlyUndone, saver, reloads, revert, orphanCheck, fileVars, history>>

MutantUnchangedSince(read) == TRUE

\* The model has not changed since the read began.
UnchangedSince(read) == read.versionId = versionId

\* resolveFromContent(): the text changes only if the content differs.
ResolveFromContent(read) ==
    LET differs == read.content # text.now.content
        v == IF differs THEN versionId + 1 ELSE versionId
        now == IF differs THEN [alt |-> v, content |-> read.content] ELSE text.now
    IN  /\ lastResolvedFileStat' = Newer(read.stat)
        /\ text' = [now |-> now,
                    past |-> IF differs THEN Append(text.past, text.now) ELSE text.past]
        /\ versionId' = v
        /\ flags' = DoSetDirty(flags, FALSE, now.alt)
        /\ history' = [history EXCEPT !.seen = @ \cup {read.content}, !.asked = 0]

\* The read ends: whoever asked for it goes on.
ReadEnds(r) ==
    /\ reads' = [reads EXCEPT ![r] = None]
    /\ reloads' = IF r = "reload" THEN reloads - 1 ELSE reloads
    /\ revert' = IF r = "revert" THEN None ELSE revert

\* resolveFromFile() has read the file.
ReadSettles(r) ==
    LET read == reads[r]
    IN  /\ Pending(r)
        /\ read.stat # None
        /\ read.content # <<>>
        /\ ReadEnds(r)
        /\ inOrphanMode' = FALSE
        /\ IF UnchangedSince(read) /\ ~isDisposed
           THEN ResolveFromContent(read)
           ELSE UNCHANGED <<text, versionId, flags, lastResolvedFileStat, history>>
        /\ UNCHANGED <<isDisposed, recentlyUndone, saver, orphanCheck, fileVars, used>>

\* A revert() that could not read the file sets the flags back.
FlagsAfterError(r) ==
    IF r = "revert" /\ reads[r].result = "error" THEN revert.undo ELSE flags

\* resolveFromFile() has met an error, or the file has not changed.
ReadRejects(r) ==
    LET read == reads[r]
    IN  /\ read # None
        /\ read.result \in {"notFound", "notModified", "error"}
        /\ ReadEnds(r)
        /\ inOrphanMode' = (read.result = "notFound")
        /\ lastResolvedFileStat' = IF read.result = "notModified" /\ ~isDisposed
                                   THEN Newer(read.stat) ELSE lastResolvedFileStat
        /\ flags' = FlagsAfterError(r)
        /\ history' = IF flags'.dirty \/ ~flags.dirty
                      THEN history
                      ELSE [history EXCEPT !.asked = 0, !.forgotten = @ \cup {text.now.content}]
        /\ UNCHANGED <<text, versionId, isDisposed, recentlyUndone, saver, orphanCheck,
                       fileVars, used>>

-----------------------------------------------------------------------------
(* Other programs, the events of the watcher, and the end of the model.    *)

\* An outside change that falls inside a call of the file service.
FallsInside ==
    \/ \E r \in Readers : Pending(r) /\ reads[r].content # <<>> /\ reads[r].stat = None
    \/ \E s \in Slots : saver.tasks[s] # None /\ saver.tasks[s].phase \in {"validated", "written"}

OutsideWrite ==
    /\ Call("outside")
    /\ disk' = [content |-> <<"outside", disk.mtime + 1>>, mtime |-> disk.mtime + 1,
                exists |-> TRUE]
    /\ events' = events \cup {WriteEvent}
    /\ history' = [history EXCEPT !.onDisk = @ \cup {<<"outside", disk.mtime + 1>>},
                                  !.raced = @ \/ FallsInside]
    /\ UNCHANGED <<text, versionId, flags, inOrphanMode, isDisposed, lastResolvedFileStat,
                   recentlyUndone, saver, readVars>>

OutsideDelete ==
    /\ Call("outside")
    /\ disk.exists
    /\ disk' = [disk EXCEPT !.exists = FALSE]
    /\ events' = events \cup {"DELETED"}
    /\ UNCHANGED <<text, versionId, flags, inOrphanMode, isDisposed, lastResolvedFileStat,
                   recentlyUndone, saver, readVars, history>>

\* onDidFilesChange() of the manager: at most one reload runs and one waits.
ReloadsAfter(e) ==
    IF e # "DELETED" /\ ~flags.dirty /\ reloads <= 1 THEN reloads + 1 ELSE reloads

\* onDidFilesChange() of the manager and of the model.
FileEvent(e) ==
    /\ e \in events
    /\ ~isDisposed
    /\ e = "DELETED" /\ ~inOrphanMode => orphanCheck = "none"
    /\ events' = events \ {e}
    /\ reloads' = ReloadsAfter(e)
    /\ inOrphanMode' = (inOrphanMode /\ e # "ADDED")
    /\ orphanCheck' = IF e = "DELETED" /\ ~inOrphanMode THEN "timeout" ELSE orphanCheck
    /\ UNCHANGED <<text, versionId, flags, isDisposed, lastResolvedFileStat, recentlyUndone,
                   saver, reads, revert, disk, used, history>>

\* The file service answers whether the file exists.
CheckExists ==
    /\ orphanCheck = "timeout"
    /\ orphanCheck' = IF isDisposed THEN "none" ELSE IF disk.exists THEN "exists" ELSE "gone"
    /\ UNCHANGED <<text, versionId, flags, inOrphanMode, isDisposed, lastResolvedFileStat,
                   recentlyUndone, saver, reads, reloads, revert, fileVars, used, history>>

SetOrphaned ==
    /\ orphanCheck \in {"exists", "gone"}
    /\ orphanCheck' = "none"
    /\ inOrphanMode' = IF isDisposed THEN inOrphanMode ELSE orphanCheck = "gone"
    /\ UNCHANGED <<text, versionId, flags, isDisposed, lastResolvedFileStat, recentlyUndone,
                   saver, reads, reloads, revert, fileVars, used, history>>

\* dispose(), once canDispose() allows it.
Dispose ==
    /\ Call("dispose")
    /\ ~isDisposed
    /\ ~flags.dirty
    /\ ~PendingResolve
    /\ isDisposed' = TRUE
    /\ inOrphanMode' = FALSE
    /\ flags' = [flags EXCEPT !.inConflictMode = FALSE, !.inErrorMode = FALSE]
    /\ UNCHANGED <<text, versionId, lastResolvedFileStat, recentlyUndone, saver, readVars,
                   fileVars, history>>

TaskStep(slot) ==
    \/ CancelSave(slot)
    \/ WaitOver(slot)
    \/ ParticipantsDone(slot)
    \/ ValidateWrite(slot)
    \/ StatFails(slot)
    \/ WriteOut(slot)
    \/ WriteFails(slot)
    \/ StatAfterWrite(slot)
    \/ SaveSettles(slot)

ReadStep(r) ==
    \/ ReadStat(r)
    \/ ReadContent(r)
    \/ ReadFails(r)
    \/ ReadSettles(r)
    \/ ReadRejects(r)

Next ==
    \/ Edit
    \/ Undo
    \/ ThrottlePasses
    \/ \E options \in SaveOptions : Save(options)
    \/ \E slot \in Slots : TaskStep(slot)
    \/ Revert
    \/ RevertResolves
    \/ Open
    \/ Reload
    \/ \E r \in Readers : ReadStep(r)
    \/ OutsideWrite
    \/ OutsideDelete
    \/ \E e \in {"UPDATED", "ADDED", "DELETED"} : FileEvent(e)
    \/ CheckExists
    \/ SetOrphaned
    \/ Dispose

Spec == Init /\ [][Next]_vars

-----------------------------------------------------------------------------
(* Properties.                                                             *)

\* Two saves never write at the same time, however saves, cancellations, participants
\* that edit and queued saves interleave ("Never ever must 2 saves execute at the same
\* time", doSave()).
OneWriteAtATime ==
    Cardinality({k \in Slots : saver.tasks[k] # None /\
        saver.tasks[k].phase \in {"write", "validated", "written", "settled"}}) <= 1

\* When no save runs, every save that was asked for has written the version of the call
\* or a later one, unless it failed, was cancelled by the user, or its changes were
\* reverted or undone: neither the queue of one save nor the saves that are refused
\* while participants run lose a request.
NoSaveForgotten ==
    ~IsRunning(saver) => saver.queued = None /\ history.asked = 0

\* A read of the file replaces a text only if it has been on disk or the user has
\* reverted it: what is typed while the read is under way survives.  (Except what a
\* revert that failed has marked as clean, see UnsavedIsDirty.)
UnsavedSurvives ==
    [][\A r \in Readers : reads[r] # None /\ reads'[r] = None /\ text' # text =>
            text.now.content \in
                history.onDisk \cup history.released \cup history.forgotten]_vars


\* "Models in conflict mode are always dirty", and "models in error mode are always
\* dirty" (TextFileEditorModelState), as long as the model is not disposed.
ErrorIsDirty ==
    ~isDisposed /\ (flags.inConflictMode \/ flags.inErrorMode) => flags.dirty

\* isDirty() "indicates that the file has unsaved changes": a text that is not dirty has
\* been on disk, or the user has reverted it.
UnsavedIsDirty ==
    ~isDisposed /\ ~flags.dirty => text.now.content \in history.onDisk \cup history.released

=============================================================================
