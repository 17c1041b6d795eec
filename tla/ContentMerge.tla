----------------------------- MODULE ContentMerge -----------------------------
(***************************************************************************)
(* Forks of one resource and their automatic merges (autoMergeConflicts in *)
(* src/src/sync/manager.ts and the merges it calls), between two devices   *)
(* that edit, scan, publish, merge and write back what they received.      *)
(*                                                                         *)
(* A resource holds entries under keys: the rows of a workspace database,  *)
(* notepads, the parts of a value of the user interface, the properties of *)
(* a JSON file, the lines of another one, the folders of an SSH host.      *)
(* Every edit is known by its number; what an entry holds is the set of    *)
(* edits it contains (a note that was appended to holds all of them, any   *)
(* other entry holds one).  gone is what somebody who saw it replaced,     *)
(* deleted, or was documented to lose.                                     *)
(*                                                                         *)
(* A merge that is put off - its payload missing or beyond a budget - is   *)
(* one that is not taken.  Both devices run the same Cursor.               *)
(***************************************************************************)
EXTENDS Versions

CONSTANTS
    Key,
    None,
    Kind,          \* of rows, notes, state, json, text, targets
    MaxEdits,
    OverOwnMerge   \* may a scan supersede a merge of this device that is not written yet?

VARIABLES
    kind,      \* what the resource is
    local,     \* local[d]: what d's Cursor has
    at,        \* at[d]: d's projection: a version, and the content it stands for
    edits,     \* how many there were
    gone

vars == <<kind, log, seen, local, at, edits, gone>>

Empty == [k \in Key |-> {}]
Put(rows) == [op |-> "put", rows |-> rows]
Deleted == [op |-> "delete", rows |-> Empty]
Ids(c) == UNION {c.rows[k] : k \in Key}

(* What only the helper scans, and what it alone writes.                   *)
ScannedOffline == kind \in {"rows", "notes"}
AppliedOffline == kind \notin {"json", "text"}

(* The devices meet for the first time, or have a version in common.       *)
Init ==
    /\ kind \in Kind /\ gone = {}
    /\ \/ /\ log = <<>> /\ seen = [d \in Device |-> {}]
          /\ local = [d \in Device |-> Deleted]
          /\ at = [d \in Device |-> [v |-> 0, content |-> None]]
          /\ edits = 0
       \/ LET first == Put([k \in Key |-> {1}]) IN
          /\ log = <<[by |-> 1, content |-> first, how |-> "scan", parents |-> {},
                      past |-> {}, lamport |-> 1]>>
          /\ seen = [d \in Device |-> {1}] /\ local = [d \in Device |-> first]
          /\ at = [d \in Device |-> [v |-> 1, content |-> first]]
          /\ edits = 1

-----------------------------------------------------------------------------
(* One entry, merged.  None: it cannot be decided.                         *)

(* electEntry: the text that contains the other one.                       *)
Elected(new, old) ==
    IF old \subseteq new THEN new ELSE IF new \subseteq old THEN old ELSE None

FaultyMergedNote(b, new, old) ==              \* the newer one wins
    IF new = b THEN old ELSE new

(* resolveEntry                                                            *)
MergedNote(b, new, old) ==
    CASE new = b -> old
      [] old = b -> new
      [] new = {} -> old
      [] old = {} -> new
      [] OTHER -> Elected(new, old)

(* A row that one side has changed or deleted, or both alike.              *)
MergedRow(b, new, old) ==
    CASE new = old \/ old = b -> new
      [] new = b -> old
      [] OTHER -> None

(* mergeJsonValues, mergeUiStateValues and the regions of mergeTextBuffers *)
(* go by the same rule.                                                    *)
MergedProperty(b, new, old) == MergedRow(b, new, old)
MergedValue(b, new, old) == MergedRow(b, new, old)
MergedRegion(b, new, old) == MergedRow(b, new, old)

(* mergeRemoteTargetsBuffers                                               *)
Folders(new, old) == new \cup old

(* Without a common ancestor: unionWorkspaceDatabaseSnapshots,             *)
(* unionNotepadBuffers.                                                    *)
UnitedRow(new, old) == IF new = {} THEN old ELSE new
UnitedNote(new, old) ==
    CASE new = {} -> old
      [] old = {} -> new
      [] OTHER -> Elected(new, old)

United(new, old) ==
    CASE kind = "rows" -> UnitedRow(new, old)
      [] kind = "notes" -> UnitedNote(new, old)
      [] kind = "targets" -> Folders(new, old)

ThreeWay(b, new, old) ==
    CASE kind = "rows" -> MergedRow(b, new, old)
      [] kind = "notes" -> MergedNote(b, new, old)
      [] kind = "targets" -> Folders(new, old)
      [] kind = "state" -> MergedValue(b, new, old)
      [] kind = "json" -> MergedProperty(b, new, old)
      [] kind = "text" -> MergedRegion(b, new, old)

Whole(rows) == IF \E k \in Key : rows[k] = None THEN None ELSE Put(rows)

(* resolveBaseFreeConflict's last writer: a put before any delete.         *)
LastWriter(T) ==
    LET puts == {v \in T : content(v).op = "put"}
    IN  content(Newest(IF puts = {} THEN T ELSE puts))

BaseFree(T) ==
    LET new == Newest(T)
        old == CHOOSE v \in T : v # new
    IN  IF kind = "state" THEN LastWriter(T)
        ELSE IF kind \in {"json", "text"} \/ \E v \in T : content(v).op = "delete" THEN None
        ELSE Whole([k \in Key |-> United(content(new).rows[k], content(old).rows[k])])

Based(T, b) ==
    LET new == Newest(T)
        old == CHOOSE v \in T : v # new
        base == content(b)
        merged == Whole([k \in Key |->
            ThreeWay(base.rows[k], content(new).rows[k], content(old).rows[k])])
    IN  CASE content(old) = base -> content(new)           \* resolveTrivialConflict
          [] content(new) = base -> content(old)
          [] \E v \in T \cup {b} : content(v).op = "delete" -> None
          [] OTHER -> IF merged = None /\ kind = "state" THEN content(new) ELSE merged

Resolution(T) ==
    IF kind = "state" /\ Cardinality(T) > 2 THEN LastWriter(T)
    ELSE IF Cardinality(T) # 2 THEN None
    ELSE IF Common(T) = {} THEN BaseFree(T) ELSE Based(T, Newest(Common(T)))

(* Only a value of the user interface, and a row both computers had before *)
(* they met, may lose to a newer one.                                      *)
MayLose(T) == kind = "state" \/ (kind = "rows" /\ Common(T) = {})
Missing(a, c) == UNION {a.rows[k] \ c.rows[k] : k \in Key}
Dropped(T, c) == UNION {Missing(content(v), c) : v \in T}

(* autoMergeConflicts, publishAutoMerge: every tip is a parent.            *)
AutoMerge(d) ==
    LET T == Tips(seen[d])
        c == Resolution(T)
    IN  /\ Conflict(T) /\ c # None
        /\ publish(d, c, T, "merge")
        /\ gone' = gone \cup (IF MayLose(T) THEN Dropped(T, c) ELSE {})
        /\ UNCHANGED <<kind, local, at, edits>>

(* Resolve Conflicts: one of the versions, as a whole.                     *)
Choose(d, v) ==
    LET T == Tips(seen[d])
    IN  /\ Conflict(T) /\ v \in T /\ Resolution(T) = None
        /\ edits < MaxEdits /\ edits' = edits + 1
        /\ publish(d, content(v), T, "merge")
        /\ gone' = gone \cup Dropped(T, content(v))
        /\ UNCHANGED <<kind, local, at>>

-----------------------------------------------------------------------------
(* One device.                                                             *)

Receive(d) == Accept(d) /\ UNCHANGED <<kind, local, at, edits, gone>>

Edited(d, k, how) ==
    LET new == edits + 1
        old == local[d].rows[k]
    IN  CASE how = "write" -> {new}
          [] how = "append" -> old \cup {new}
          [] how = "clear" -> {}

Edit(d, k, how) ==
    LET old == local[d].rows[k] IN
    /\ edits < MaxEdits /\ edits' = edits + 1
    /\ how = "append" => kind \in {"notes", "targets"} /\ old # {}
    /\ how = "write" => kind # "targets" \/ old = {}
    /\ how = "clear" => old # {}
    /\ local' = [local EXCEPT ![d] = Put([@.rows EXCEPT ![k] = Edited(d, k, how)])]
    /\ gone' = gone \cup (old \ Edited(d, k, how))
    /\ UNCHANGED <<kind, log, seen, at>>

Delete(d) ==
    /\ edits < MaxEdits /\ edits' = edits + 1
    /\ kind \in {"state", "json", "text"} /\ local[d].op = "put"
    /\ local' = [local EXCEPT ![d] = Deleted] /\ gone' = gone \cup Ids(local[d])
    /\ UNCHANGED <<kind, log, seen, at>>

(* parentsForLocalChange, parentsWithOwnConflictTips                       *)
Parents(d, T, c) ==
    (IF Cardinality(T) > 1 /\ \A t \in T : content(t) = at[d].content THEN T
     ELSE {at[d].v} \ {0})
      \cup {t \in T : ~ScannedOffline /\ Conflict(T) /\ log[t].by = d /\ content(t) # c}

(* protectedSyntheticResources: a merge that is still to be written is not *)
(* published over; a drift from both lifts that where Cursor runs.         *)
Protected(d, a) ==
    /\ a # 0 /\ log[a].how = "merge" /\ at[d] # [v |-> a, content |-> content(a)]
    /\ AppliedOffline \/ local[d] \in {at[d].content, content(a)}

ShouldPublish(d, T, c) == c # at[d].content /\ \A t \in T : content(t) # c

(* The scan of a cycle, or of the final export; a deletion is published of *)
(* what was known, and not into a conflict.  Where the new version is the  *)
(* only tip, the end of the cycle or of the export projects it.            *)
Scan(d) ==
    LET T == Tips(seen[d])
        c == local[d]
    IN  /\ ShouldPublish(d, T, c)
        /\ ScannedOffline => ~Conflict(T)
        /\ ~ScannedOffline => ~Protected(d, Active(d))
        /\ OverOwnMerge \/ ~\E t \in T : Conflict(T) /\ log[t].by = d /\ log[t].how = "merge"
        /\ c = Deleted => at[d].content # None /\ ~Conflict(T)
        /\ publish(d, c, Parents(d, T, c), "scan")
        /\ at' = IF T \subseteq Parents(d, T, c)
                 THEN [at EXCEPT ![d] = [v |-> Len(log) + 1, content |-> c]] ELSE at
        /\ UNCHANGED <<kind, local, edits, gone>>

(* markSuppressedSnapshotProjection: in a conflict, the tip that is here.  *)
Recognize(d) ==
    LET same == {t \in Tips(seen[d]) : content(t) = local[d]}
    IN  /\ ~ScannedOffline /\ local[d].op = "put" /\ same # {}
        /\ at[d].content # local[d]
        /\ at' = [at EXCEPT ![d] = [v |-> Newest(same), content |-> local[d]]]
        /\ UNCHANGED <<kind, log, seen, local, edits, gone>>

(* A workspace database is only ever added to (applyWorkspaceDatabaseSnapshot without a base). *)
Written(d, c) ==
    IF kind # "rows" THEN c
    ELSE Put([k \in Key |-> IF c.rows[k] = {} THEN local[d].rows[k] ELSE c.rows[k]])

(* The active tip is written unless something unpublished is there.        *)
Apply(d) ==
    LET a == Active(d) IN
    /\ a # 0 /\ at[d] # [v |-> a, content |-> content(a)]
    /\ at' = [at EXCEPT ![d] = [v |-> a, content |-> content(a)]]
    /\ IF local[d] = content(a) THEN UNCHANGED local
       ELSE /\ \/ local[d] = at[d].content
               \/ at[d].content = None /\ local[d] = Deleted
            /\ local' = [local EXCEPT ![d] = Written(d, content(a))]
    /\ UNCHANGED <<kind, log, seen, edits, gone>>

Next ==
    \E d \in Device :
        \/ \E k \in Key, how \in {"write", "append", "clear"} : Edit(d, k, how)
        \/ Delete(d)
        \/ Receive(d) \/ Scan(d) \/ Recognize(d) \/ AutoMerge(d) \/ Apply(d)
        \/ \E v \in DOMAIN log : Choose(d, v)

Spec == Init /\ [][Next]_vars

-----------------------------------------------------------------------------
(* What a user wrote, and nobody who saw it replaced, is in a version that *)
(* no other one supersedes, or still where it was written: neither a merge *)
(* nor a scan over a stale projection drops it (autoMergeConflicts,        *)
(* parentsForLocalChange).                                                 *)
EntriesSurvive ==
    \A id \in ((UNION {Ids(content(v)) : v \in DOMAIN log})
                 \cup (UNION {Ids(local[d]) : d \in Device})) \ gone :
        \/ \E t \in Tips(DOMAIN log) : id \in Ids(content(t))
        \/ \E d \in Device : id \in Ids(local[d])
=============================================================================
