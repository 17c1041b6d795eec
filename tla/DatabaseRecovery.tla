--------------------------- MODULE DatabaseRecovery ---------------------------
(***************************************************************************)
(* The offline helper's writes to Cursor's database, their journals and    *)
(* backups (src/src/helper/database.ts, backupRetention.ts,                *)
(* compressedBackups.ts, and run in main.ts).                              *)
(*                                                                         *)
(* A run takes the lock, finishes what journals say was interrupted, then  *)
(* restores a backup or applies the queue page by page, and compresses the *)
(* backups.  It may die between any two steps; a transaction is one step.  *)
(* The check that Cursor is closed and the transaction it guards are one   *)
(* step; Cursor may be opened before any of them, works on a copy in       *)
(* memory, and writes that copy back when it quits.  Cursor opened during a*)
(* run is assumed to stay open until the run looks: a session that opens   *)
(* and quits between two checks is not noticed by the code either.         *)
(***************************************************************************)
EXTENDS Naturals, FiniteSets, Sequences, SequencesExt

CONSTANTS
    Page, Use,
    MaxFiles, MaxBytes,    \* the retention policy's limits
    Sizes,                 \* sizes a backup may have
    MaxUses, MaxBackups, MaxFaults   \* bounds

VARIABLES
    db, cursor, memory,    \* the database; is Cursor open, with what in memory
    queue,                 \* pages not yet marked as applied
    backups,               \* in the order they were taken
    request,               \* the backup a confirmed restore will read, or 0
    applying, restoring,   \* the journals of an apply and of a restore
    pc, mode, pin,         \* the run; pin: its own backups, spared by retention
    restored,              \* history: has a restore rewound the database?
    used,                  \* history: used since the newest complete backup?
    faults

user == <<cursor, memory>>
run == <<pc, mode, pin>>
journals == <<applying, restoring>>
vars == <<db, user, queue, backups, request, journals, run, restored, used, faults>>

Ids == DOMAIN backups
Plain == {b \in Ids : backups[b].plain}     \* scanBackupDirectory
Readable(b) ==      \* resolveBackupSource, readArchiveMetadata
    backups[b].ok /\ (backups[b].plain \/ (backups[b].zip /\ backups[b].meta))
Contents == {backups[b].content : b \in {b \in Ids : Readable(b)}}

NoPage == [status |-> "none", page |-> {}]
None == [status |-> "none", source |-> 0, fresh |-> TRUE]
Fault == faults < MaxFaults /\ faults' = faults + 1
Faults(f) == IF f THEN Fault ELSE UNCHANGED faults

Init ==
    /\ db = {} /\ cursor = "open" /\ memory = {} /\ queue = Page
    /\ backups = <<>> /\ request = 0
    /\ applying = NoPage /\ restoring = None
    /\ pc = "idle" /\ mode = "none" /\ pin = {}
    /\ restored = FALSE /\ used = TRUE /\ faults = 0

-----------------------------------------------------------------------------
(* The user.                                                               *)

Works(u) ==
    /\ cursor = "open" /\ u \notin memory /\ Cardinality(memory \cap Use) < MaxUses
    /\ memory' = memory \cup {u} /\ db' = memory' /\ used' = TRUE
    /\ UNCHANGED <<cursor, queue, backups, request, journals, run, restored, faults>>

OpenCursor ==
    /\ cursor = "closed" /\ cursor' = "open" /\ memory' = db
    /\ Faults(pc # "idle")
    /\ UNCHANGED <<db, queue, backups, request, journals, run, restored, used>>

CloseCursor ==
    /\ cursor = "open" /\ pc = "idle" /\ cursor' = "closed" /\ db' = memory
    /\ UNCHANGED <<memory, queue, backups, request, journals, run, restored, used, faults>>

AskRestore(b) ==
    /\ cursor = "open" /\ pc = "idle" /\ request = 0 /\ Readable(b)
    /\ request' = b
    /\ UNCHANGED <<db, user, queue, backups, journals, run, restored, used, faults>>

(* A day goes by, or a month.                                              *)
Elapse(month) ==
    /\ pc = "idle" /\ Fault
    /\ restoring' = [restoring EXCEPT !.fresh = FALSE]
    /\ backups' = [b \in Ids |-> [backups[b] EXCEPT !.old = @ \/ month]]
    /\ UNCHANGED <<db, user, queue, request, applying, run, restored, used>>

-----------------------------------------------------------------------------
(* A run begins, ends, and dies.                                           *)

Journal(status) == applying' = [applying EXCEPT !.status = status]

Idle == pc' = "idle" /\ mode' = "none" /\ pin' = {}

Start(m) ==
    /\ pc = "idle" /\ cursor = "closed"
    /\ m = "restore" => request # 0
    /\ pc' = "recover" /\ mode' = m
    /\ UNCHANGED <<db, user, queue, backups, request, journals, pin, restored, used, faults>>

Crash ==
    /\ pc # "idle" /\ Fault /\ Idle
    /\ request' = IF mode = "restore" THEN 0 ELSE request
    /\ UNCHANGED <<db, user, queue, backups, journals, restored, used>>

(* Cursor is back: the run ends, with its journals as they are.            *)
Reopened ==
    /\ pc \in {"replay", "settled", "archive", "prune"} /\ cursor = "open" /\ Idle
    /\ request' = IF mode = "restore" THEN 0 ELSE request
    /\ UNCHANGED <<db, user, queue, backups, journals, restored, used, faults>>

-----------------------------------------------------------------------------
(* Backups: created whole or left in pieces by a crash, then retention.    *)

Backup(kind, size) ==
    [content |-> db, ok |-> TRUE, plain |-> TRUE, zip |-> FALSE, meta |-> FALSE,
     kind |-> kind, size |-> size, old |-> FALSE]

Adds(b, next) ==
    /\ Len(backups) < MaxBackups
    /\ backups' = Append(backups, b) /\ pc' = next

(* It may also die while it writes the file.                               *)
PartialBackup(kind, size) ==
    /\ Fault /\ Adds([Backup(kind, size) EXCEPT !.ok = FALSE], "idle")
    /\ mode' = "none" /\ pin' = {}
    /\ request' = IF mode = "restore" THEN 0 ELSE request
    /\ UNCHANGED <<db, user, queue, journals, restored, used>>

Exempt(b) == b \in pin \/ b = request       \* exemptPath, priorApplyBackupPaths

(* enforceBackupRetention: newest first, a prefix within age and count, of *)
(* which those that exceed the rest of the budget are skipped.  It leaves  *)
(* archives alone, and files it cannot remove.                             *)
Fitting ==
    LET visit(acc, b) ==
            LET fits == /\ acc.open /\ ~backups[b].old /\ acc.count < MaxFiles
                        /\ acc.bytes + backups[b].size <= MaxBytes
            IN  IF b \notin Plain \/ (Exempt(b) /\ ~fits) THEN acc
                ELSE IF fits THEN [acc EXCEPT !.kept = @ \cup {b}, !.count = @ + 1,
                                              !.bytes = @ + backups[b].size]
                ELSE [acc EXCEPT !.open = @ /\ ~backups[b].old /\ acc.count < MaxFiles]
    IN  FoldLeft(visit, [kept |-> {}, count |-> 0, bytes |-> 0, open |-> TRUE],
                 Reverse([b \in Ids |-> b])).kept
Retained == Fitting \cup {b \in Plain : Exempt(b)}

Retention ==
    /\ pc = "retain" /\ pc' = "settled"
    /\ \E gone \in {Plain \ Retained, {}} :
          backups' = [b \in Ids |-> IF b \in gone THEN [backups[b] EXCEPT !.plain = FALSE]
                                    ELSE backups[b]]
    /\ Journal("applying")            \* backed-up, then applying
    /\ UNCHANGED <<db, user, queue, request, restoring, mode, pin, restored, used, faults>>

-----------------------------------------------------------------------------
(* What an earlier run left (recoverInterruptedApplyJournals).             *)

Open(status) == status \notin {"none", "failed", "verified"}

FaultyReplayBackup(ok, size) ==     \* the interrupted run's backup has to do
    /\ pc = "recover" /\ Open(restoring.status) /\ Readable(restoring.source) /\ ok
    /\ pc' = "replay"
    /\ UNCHANGED <<db, user, queue, backups, request, journals, mode, pin,
                   restored, used, faults>>

RecoverRestore(ok, size) ==
    LET source == restoring.source
    IN  /\ pc = "recover" /\ Open(restoring.status)
        /\ IF ~Readable(source) \/ ~restoring.fresh \/ ~ok
           THEN /\ restoring' = [restoring EXCEPT !.status = "failed"]
                /\ Faults(~ok) /\ UNCHANGED <<backups, pc, pin, used>>
           ELSE /\ Adds(Backup("pre", size), "replay")
                /\ pin' = pin \cup {Len(backups')} /\ used' = FALSE
                /\ UNCHANGED <<restoring, faults>>
        /\ UNCHANGED <<db, user, queue, request, applying, mode, restored>>

(* recoverRestoreJournal; a replay that fails has rolled back.             *)
Replay(ok) ==
    /\ pc = "replay" /\ cursor = "closed" /\ pc' = "recover" /\ Faults(~ok)
    /\ restoring' = IF ok THEN None ELSE [restoring EXCEPT !.status = "failed"]
    /\ db' = IF ok THEN backups[restoring.source].content ELSE db
    /\ restored' = (restored \/ ok)
    /\ UNCHANGED <<user, queue, backups, request, applying, mode, pin, used>>

Recovered(status) == IF status = "committed" THEN "verified" ELSE "failed"

RecoverApply ==
    /\ pc = "recover" /\ ~Open(restoring.status)
    /\ IF Open(applying.status) THEN Journal(Recovered(applying.status))
                                ELSE UNCHANGED applying
    /\ pc' = IF mode = "restore" THEN "restore" ELSE "pages"
    /\ UNCHANGED <<db, user, queue, backups, request, restoring, mode, pin,
                   restored, used, faults>>

-----------------------------------------------------------------------------
(* A restore (restoreReadableDatabaseBackup).                              *)

RestoreBegins(ok) ==
    /\ pc = "restore" /\ Faults(~ok)
    /\ IF ok /\ Readable(request)
       THEN /\ restoring' = [status |-> "preparing", source |-> request, fresh |-> TRUE]
            /\ pc' = "prepare" /\ UNCHANGED <<request, mode, pin>>
       ELSE Idle /\ request' = 0 /\ UNCHANGED restoring
    /\ UNCHANGED <<db, user, queue, backups, applying, restored, used>>

RestoreBackup(size) ==
    /\ pc = "prepare" /\ Adds(Backup("pre", size), "settled")
    /\ restoring' = [restoring EXCEPT !.status = "applying"]
    /\ pin' = pin \cup {Len(backups')} /\ used' = FALSE
    /\ UNCHANGED <<db, user, queue, request, applying, mode, restored, faults>>

(* restoreReadableKnownTables: one transaction, or it fails.               *)
RestoreTables(ok) ==
    /\ pc = "settled" /\ mode = "restore" /\ cursor = "closed" /\ Faults(~ok)
    /\ restoring' = [restoring EXCEPT !.status = IF ok THEN "verified" ELSE "failed"]
    /\ request' = 0
    /\ IF ok THEN /\ db' = backups[restoring.source].content /\ restored' = TRUE
                  /\ pc' = "archive" /\ UNCHANGED <<mode, pin>>
       ELSE Idle /\ UNCHANGED <<db, restored>>
    /\ UNCHANGED <<user, queue, backups, applying, used>>

-----------------------------------------------------------------------------
(* An apply, page by page (applyGlobalDatabaseChanges).                    *)

TakePage(p) ==
    /\ pc = "pages" /\ p \in queue
    /\ applying' = [status |-> "pending", page |-> {p}] /\ pc' = "backup"
    /\ UNCHANGED <<db, user, queue, backups, request, restoring, mode, pin, restored, used, faults>>

(* One backup for all pages of a run (createGlobalDatabaseApplySessionBackup).*)
HasBackup == \E b \in pin : backups[b].kind = "state"

SessionBackup(size) ==
    /\ pc = "backup" /\ ~HasBackup
    /\ Adds(Backup("state", size), "retain")
    /\ pin' = pin \cup {Len(backups')} /\ used' = FALSE
    /\ UNCHANGED <<db, user, queue, request, journals, mode, restored, faults>>

(* "The verified pre-drain backup disappeared" ends the run.               *)
SessionReused ==
    /\ pc = "backup" /\ HasBackup
    /\ IF \E b \in pin : backups[b].kind = "state" /\ backups[b].plain
       THEN pc' = "settled" /\ Journal("applying") /\ UNCHANGED <<mode, pin, request>>
       ELSE Idle /\ Journal("failed") /\ UNCHANGED request
    /\ UNCHANGED <<db, user, queue, backups, restoring, restored, used, faults>>

FaultyMayBegin == TRUE
MayBegin == cursor = "closed"

Transaction(ok) ==
    /\ pc = "settled" /\ mode = "apply" /\ MayBegin /\ Faults(~ok)
    /\ IF ok THEN /\ db' = db \cup applying.page /\ pc' = "committed"
                  /\ UNCHANGED <<applying, mode, pin>>
       ELSE Idle /\ Journal("failed") /\ UNCHANGED db
    /\ UNCHANGED <<user, queue, backups, request, restoring, restored, used>>

(* committed, then verified; the page's outcomes are marked and saved.     *)
Committed ==
    /\ pc = "committed" /\ Journal("committed") /\ pc' = "mark"
    /\ UNCHANGED <<db, user, queue, backups, request, restoring, mode, pin,
                   restored, used, faults>>

MarkApplied ==
    /\ pc = "mark" /\ Journal("verified") /\ pc' = "pages"
    /\ queue' = queue \ applying.page
    /\ UNCHANGED <<db, user, backups, request, restoring, mode, pin, restored, used, faults>>

(* What is queued may be blocked or not ready, and a final export may have *)
(* nothing to apply.                                                       *)
PagesDone ==
    /\ pc = "pages" /\ pc' = "archive"
    /\ UNCHANGED <<db, user, queue, backups, request, journals, mode, pin,
                   restored, used, faults>>

-----------------------------------------------------------------------------
(* maintainCompressedBackups: the newest becomes an archive, the rest go.  *)

(* A name tells what a "state" backup is of, its metadata an archive; other*)
(* files are known to the run that made them.                              *)
Candidates ==
    {b \in Ids : \/ backups[b].plain /\ (backups[b].kind = "state" \/ b \in pin)
                 \/ backups[b].zip /\ backups[b].meta}
Newest == Max(Candidates)
Pinned == Open(restoring.status) /\ restoring.source \in Candidates

Finished ==
    /\ Idle
    /\ UNCHANGED <<db, user, queue, backups, request, journals, restored, used, faults>>

Deferred == Candidates = {} \/ Pinned \/ ~backups[Newest].ok

(* The archive is published before its metadata.                           *)
Archive ==
    /\ pc = "archive" /\ cursor = "closed"
    /\ IF Deferred THEN Finished
       ELSE /\ IF backups[Newest].zip
               THEN /\ backups' = [backups EXCEPT ![Newest].meta = TRUE] /\ pc' = "prune"
               ELSE /\ backups' = [backups EXCEPT ![Newest].zip = TRUE] /\ UNCHANGED pc
            /\ UNCHANGED <<db, user, queue, request, journals, mode, pin,
                           restored, used, faults>>

(* One file goes at a time.                                                *)
Prune(b) ==
    /\ pc = "prune" /\ cursor = "closed" /\ b \in Candidates
    /\ \/ /\ b # Newest
          /\ backups' = [backups EXCEPT ![b].plain = FALSE, ![b].zip = FALSE]
       \/ /\ b = Newest /\ backups[b].plain
          /\ backups' = [backups EXCEPT ![b].plain = FALSE]
    /\ UNCHANGED <<db, user, queue, request, journals, run, restored, used, faults>>

Pruned ==
    /\ pc = "prune" /\ Candidates = {Newest} /\ ~backups[Newest].plain /\ Finished

-----------------------------------------------------------------------------
Next ==
    \/ \E u \in Use : Works(u)
    \/ OpenCursor \/ CloseCursor
    \/ \E b \in Ids : AskRestore(b)
    \/ \E month \in BOOLEAN : Elapse(month)
    \/ \E m \in {"apply", "restore"} : Start(m)
    \/ Crash \/ Reopened
    \/ \E size \in Sizes :
          \/ pc = "backup" /\ ~HasBackup /\ PartialBackup("state", size)
          \/ pc = "prepare" /\ PartialBackup("pre", size)
          \/ \E ok \in BOOLEAN : RecoverRestore(ok, size)
          \/ RestoreBackup(size)
          \/ SessionBackup(size)
    \/ Retention
    \/ \E ok \in BOOLEAN : Replay(ok) \/ RestoreBegins(ok) \/ RestoreTables(ok) \/ Transaction(ok)
    \/ RecoverApply
    \/ \E p \in Page : TakePage(p)
    \/ SessionReused \/ Committed \/ MarkApplied \/ PagesDone
    \/ Archive
    \/ \E b \in Ids : Prune(b)
    \/ Pruned

Spec == Init /\ [][Next]_vars

-----------------------------------------------------------------------------
BackupFile ==
    [content : SUBSET (Page \cup Use), ok : BOOLEAN, plain : BOOLEAN, zip : BOOLEAN,
     meta : BOOLEAN, kind : {"state", "pre"}, size : Sizes, old : BOOLEAN]
Statuses == {"none", "preparing", "pending", "applying", "committed", "verified", "failed"}

TypeOK ==
    /\ db \subseteq Page \cup Use /\ memory \subseteq Page \cup Use
    /\ cursor \in {"open", "closed"} /\ queue \subseteq Page
    /\ backups \in Seq(BackupFile) /\ request \in 0..Len(backups) /\ pin \subseteq Ids
    /\ applying \in [status : Statuses, page : SUBSET Page]
    /\ restoring \in [status : Statuses, source : 0..Len(backups), fresh : BOOLEAN]
    /\ pc \in {"idle", "recover", "replay", "restore", "prepare", "settled", "pages",
               "backup", "retain", "committed", "mark", "archive", "prune"}
    /\ mode \in {"none", "apply", "restore"}
    /\ restored \in BOOLEAN /\ used \in BOOLEAN

(* A page that is no longer queued is in the database, unless a restore has*)
(* rewound it since: no write is made under an open Cursor, whose memory   *)
(* would undo it.                                                          *)
MarkedIsWritten ==
    pc = "idle" /\ ~restored => Page \ queue \subseteq db

(* A journal is closed as verified only when the page is in the database   *)
(* (the comments at database.ts:239, 245).                                 *)
JournalTrue ==
    [][applying.status # "verified" /\ applying'.status = "verified" =>
          applying.page \subseteq db']_vars

(* The promise of RecoverableDatabase.                                     *)
Complete == {b \in Ids : backups[b].ok}
Latest == IF Complete = {} THEN {} ELSE backups[Max(Complete)].content
Promise == INSTANCE RecoverableDatabase WITH
    points <- Contents, newest <- Latest, covered <- ~used
Recoverable == Promise!Spec

(* A backup the user has asked to restore is there when the restore runs   *)
(* (the comment at main.ts:412).                                           *)
RequestedIsKept == request # 0 => Readable(request)
=============================================================================
