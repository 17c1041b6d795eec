---------------------------- MODULE WorkspaceRows ----------------------------
(***************************************************************************)
(* A workspace's database from one computer to another: the scan that      *)
(* captures it (snapshotWorkspaceDatabase) and the helper's write into the *)
(* other one (applyWorkspaceDatabaseSnapshot), while either Cursor may     *)
(* write its own.                                                          *)
(*                                                                         *)
(* A database has an item that travels, an item of the machine's own (its  *)
(* layout), and the header of a chat: a value, the workspace it belongs to *)
(* and a column that not every Cursor has.  A database is of a schema with *)
(* no headers, with plain ones, or with full ones.  Row counts, bytes and  *)
(* budgets are abstracted to the choice to give up.                        *)
(***************************************************************************)
EXTENDS Naturals

CONSTANTS
    Value, None,
    MaxWrites    \* what the two Cursors write

Schema == {"none", "plain", "full"}
Side == {"source", "target"}
Spot == {"item", "layout", "header"}

VARIABLES
    db,        \* db[s]: the database on each computer
    schema,    \* schema[s]: never changes
    writes,
    scan,      \* the scan: how far it is, its attempt, and what it read
    event,     \* the snapshot published, or None
    step,      \* the helper's write
    preflight, \* what it saw before the backup
    backup,    \* the backup file, or None
    sealed     \* what the backup was when it was verified

vars == <<db, schema, writes, scan, event, step, preflight, backup, sealed>>
scanVars == <<scan, event>>
applyVars == <<step, preflight, backup, sealed>>

Header(w, v, c) == [workspace |-> w, value |-> v, column |-> c]
Headers(s) ==    \* the column is null where it is not filled, or not there
    CASE schema[s] = "none" -> {None}
      [] schema[s] = "plain" -> {None} \cup {Header(w, v, None) : w \in {s, "other"}, v \in Value}
      [] schema[s] = "full" -> {None} \cup {Header(w, v, c) : w \in {s, "other"}, v \in Value,
                                                           c \in {None} \cup Value}

First == CHOOSE v \in Value : TRUE
Idle == [at |-> "idle", attempt |-> 0, content |-> None, changed |-> FALSE]

(* Each computer's workspace ID is its own, and stands for it here.        *)
Init ==
    /\ schema \in [Side -> Schema]
    /\ db = [s \in Side |-> [item |-> None, layout |-> First, header |-> None]]
    /\ writes = 0 /\ scan = Idle /\ event = None
    /\ step = "idle" /\ preflight = None /\ backup = None /\ sealed = None

-----------------------------------------------------------------------------
(* Cursor writes one row; the helper holds the database only in its        *)
(* transaction, which is one step here.  The source no longer matters once *)
(* it is published.                                                        *)
Write(s, spot) ==
    /\ writes < MaxWrites /\ writes' = writes + 1
    /\ s = "source" => event = None
    /\ \E row \in IF spot = "header" THEN Headers(s) ELSE {None} \cup Value :
          row # db[s][spot] /\ db' = [db EXCEPT ![s][spot] = row]
    /\ scan' = IF s = "source" /\ scan.at # "idle" THEN [scan EXCEPT !.changed = TRUE] ELSE scan
    /\ UNCHANGED <<schema, event, applyVars>>

-----------------------------------------------------------------------------
(* The scan.                                                               *)

(* captureFromOpenDatabase: in one transaction; the headers' own workspace *)
(* is written as the one the snapshot is of, whoever reads it.             *)
Named(row, from, to) ==
    IF row # None /\ row.workspace = from THEN [row EXCEPT !.workspace = to] ELSE row

capture(s, to, headers) ==
    [rows |-> [db[s] EXCEPT !.header = IF headers THEN Named(@, s, to) ELSE None],
     schema |-> IF headers THEN schema[s] ELSE "none"]

(* filterPortableWorkspaceRows                                             *)
Portable(snapshot) == [snapshot EXCEPT !.rows.layout = None]

Observe ==
    /\ event = None /\ scan.at = "idle" /\ scan.attempt < 2
    /\ scan' = [at |-> "observed", attempt |-> scan.attempt + 1, content |-> None,
                changed |-> FALSE]
    /\ UNCHANGED <<db, schema, writes, event, applyVars>>

Capture ==
    /\ scan.at = "observed"
    /\ scan' = [scan EXCEPT !.at = "captured", !.content = capture("source", "canonical", TRUE)]
    /\ UNCHANGED <<db, schema, writes, event, applyVars>>

(* The file is as it was before the capture; an event of an earlier build  *)
(* carries the layout too.                                                 *)
Publish ==
    /\ scan.at = "captured"
    /\ scan' = [Idle EXCEPT !.attempt = scan.attempt]
    /\ IF scan.changed THEN UNCHANGED event
       ELSE event' \in {Portable(scan.content), scan.content}
    /\ UNCHANGED <<db, schema, writes, applyVars>>

-----------------------------------------------------------------------------
(* The helper's write.                                                     *)

Incoming == Portable(event)
WithHeaders == event.schema # "none"
Target == capture("target", "target", WithHeaders)

(* planDatabaseMerge, as the helper uses it, with no base: every row of the*)
(* snapshot is inserted or updated.  What the target cannot hold refuses   *)
(* the whole write; a column it has and the snapshot has not is left.      *)
Unsupported ==
    LET header == Incoming.rows.header IN
    header # None /\ \/ schema["target"] = "none"
                     \/ schema["target"] = "plain" /\ header.column # None

Merged(spot) ==
    LET row == Incoming.rows[spot]
        mine == db["target"][spot]
    IN  CASE row = None -> mine
          [] row # None /\ spot # "header" -> row
          [] OTHER -> LET to == Named(row, "canonical", "target")
                          kept == IF mine = None THEN None ELSE mine.column
                      IN  IF event.schema = "full" THEN to ELSE [to EXCEPT !.column = kept]

Start ==
    /\ step = "idle" /\ event # None /\ ~Unsupported
    /\ step' = "preflight" /\ preflight' = Target /\ backup' = None /\ sealed' = None
    /\ UNCHANGED <<db, schema, writes, scanVars>>

(* backupDatabase, sealBackupFile: the whole file, whatever is in it now.  *)
Backup ==
    /\ step = "preflight" /\ step' = "backup" /\ backup' = db["target"]
    /\ UNCHANGED <<db, schema, writes, scanVars, preflight, sealed>>

(* What the backup holds of the tables that are read.                      *)
Seen(file) ==
    [rows |-> [file EXCEPT !.header = IF WithHeaders THEN @ ELSE None],
     schema |-> Target.schema]

Verify ==
    /\ step = "backup" /\ Seen(backup) = preflight
    /\ step' = "verified" /\ sealed' = Seen(backup)
    /\ UNCHANGED <<db, schema, writes, scanVars, preflight, backup>>

(* afterBackupValidated, enforceBackupRetention: it spares the backup; a   *)
(* user may clear the folder while it works.                               *)
Retain ==
    /\ step = "verified" /\ step' = "retained" /\ backup' \in {backup, None}
    /\ UNCHANGED <<db, schema, writes, scanVars, preflight, sealed>>

(* The backup once more, then that Cursor is closed.                       *)
Recheck ==
    /\ step = "retained" /\ backup # None /\ Seen(backup) = sealed
    /\ step' = "checked"
    /\ UNCHANGED <<db, schema, writes, scanVars, preflight, backup, sealed>>

(* BEGIN IMMEDIATE to COMMIT.                                              *)
FaultyUnchanged == TRUE      \* the preflight's answer is believed
Unchanged == Target = sealed
Commit ==
    /\ step = "checked" /\ Unchanged
    /\ db' = [db EXCEPT !["target"] = [spot \in Spot |-> Merged(spot)]]
    /\ step' = "idle"
    /\ UNCHANGED <<schema, writes, scanVars, preflight, backup, sealed>>

(* A check that does not hold, a budget, a failure: nothing was written.   *)
GiveUp ==
    /\ step # "idle" /\ step' = "idle"
    /\ UNCHANGED <<db, schema, writes, scanVars, preflight, backup, sealed>>

Next ==
    \/ \E s \in Side, spot \in Spot : Write(s, spot)
    \/ Observe \/ Capture \/ Publish
    \/ Start \/ Backup \/ Verify \/ Retain \/ Recheck \/ Commit \/ GiveUp

Spec == Init /\ [][Next]_vars

-----------------------------------------------------------------------------
Pointed(row, s) == row # None /\ row.workspace = s

(* A write of the helper takes nothing that the backup does not give back: *)
(* not what Cursor wrote while the backup was made or checked, nor the     *)
(* machine's own layout; and what arrives is all of what was published, a  *)
(* header of its own workspace included (applyWorkspaceDatabaseSnapshot).  *)
WriteIsUndoable ==
    [][db'["target"] # db["target"] /\ writes' = writes =>
          /\ \A spot \in Spot :
                db'["target"][spot] # db["target"][spot] =>
                    spot # "layout" /\ backup # None /\ backup[spot] = db["target"][spot]
          /\ LET sent == event.rows.header
                 got == db'["target"].header
             IN  sent # None => /\ got.value = sent.value
                                /\ sent.column # None => got.column = sent.column
                                /\ Pointed(got, "target") <=> Pointed(sent, "canonical")]_vars
=============================================================================
