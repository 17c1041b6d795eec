------------------------------ MODULE FileScan ------------------------------
(***************************************************************************)
(* The bounded scan of a tree of the user's files, and what a cycle does   *)
(* with it: CursorUserFilesAdapter, which ProfileFilesAdapter repeats, on  *)
(* the walker of boundedFileTree.ts, called by scanAdapters.               *)
(*                                                                         *)
(* A scan walks a few entries of the tree, and an enumeration takes as     *)
(* many scans as it needs.  What the walker meets and the projections do   *)
(* not know goes to a page, what cannot be read to a queue of its own, and *)
(* what is too large to a registry; each is bounded.  Nothing remembers    *)
(* the files that were found unchanged: the adapter only says whether a    *)
(* scan is complete, and a complete scan is what lets a cycle write a      *)
(* version of a peer over a file that the scan did not return.             *)
(*                                                                         *)
(* Contents are numbered, and so are identities (size, time of writing,    *)
(* time of change): no two writes have the same.  A page of the walker is  *)
(* one entry of one tree.                                                  *)
(***************************************************************************)
EXTENDS Naturals, Sequences, FiniteSets

CONSTANTS
    Files,       \* files 1..Files, in the order the walker meets them
    None,
    Kinds,       \* what a user's file may be: good, bad (never readable), large
    MaxPending,  \* entries of the page, and of the queue of failures
    MaxLarge,    \* entries of the registry of what is too large
    Work,        \* entries a scan may walk
    MaxChanges, MaxFaults   \* bounds: changes and faults in all; faults

File == 1..Files

VARIABLES
    disk,       \* a file: its content, its identity, its kind
    known,      \* the projections: content, and the identity it was read at
    incoming,   \* a version of a peer, newer than the projection
    active, cursor, unreadable, due,  \* the enumeration; a root of it failed
    pending, failed, lost,  \* the page; the failures; some were dropped
    large, untracked,       \* too large; and some there was no room for
    memo,       \* by file: the identity and content last read
    at, looking, processed, work, again, snapshots,   \* the scan
    complete, deferred,     \* what the cycle makes of its status
    fresh,      \* history: written by the user since the enumeration began
    changes, faults

world == <<disk, incoming, changes, fresh>>
enumeration == <<active, cursor, unreadable, due>>
queues == <<pending, failed, lost>>
registry == <<large, untracked>>
scan == <<at, looking, processed, work, again, snapshots>>
status == <<complete, deferred>>
vars == <<world, known, enumeration, queues, registry, memo, scan, status, faults>>

Nothing == [f \in File |-> None]
NotLooking == [file |-> 0, id |-> 0]
Elements(s) == {s[i] : i \in DOMAIN s}
Without(s, f) ==
    LET i == CHOOSE j \in DOMAIN s : s[j] = f
    IN  IF f \in Elements(s) THEN SubSeq(s, 1, i - 1) \o SubSeq(s, i + 1, Len(s)) ELSE s
Fault == faults < MaxFaults /\ changes + faults < MaxChanges /\ faults' = faults + 1

Init ==
    /\ disk \in [File -> {[content |-> 0, id |-> 0, kind |-> k] : k \in Kinds}]
    /\ known \in [File -> {None, [content |-> 0, id |-> 0]}]
    /\ incoming = Nothing
    /\ active = FALSE /\ cursor = 0 /\ unreadable = FALSE /\ due = TRUE
    /\ pending = {} /\ failed = <<>> /\ lost = FALSE
    /\ large = {} /\ untracked = FALSE /\ memo = Nothing
    /\ at = "idle" /\ looking = NotLooking /\ processed = {} /\ work = 0
    /\ again = FALSE /\ snapshots = Nothing
    /\ complete = FALSE /\ deferred = {} /\ fresh = {}
    /\ changes = 0 /\ faults = 0

-----------------------------------------------------------------------------
(* The user writes or removes a file, a peer's version arrives, time goes  *)
(* by.                                                                     *)

Change == changes + faults < MaxChanges /\ changes' = changes + 1

Write(f) ==
    /\ Change
    /\ \E k \in Kinds : disk' = [disk EXCEPT ![f] = [content |-> changes', id |-> changes', kind |-> k]]
    /\ fresh' = fresh \cup {f}
    /\ UNCHANGED <<incoming, known, enumeration, queues, registry, memo, scan, status, faults>>

Remove(f) ==
    /\ Change /\ disk[f] # None /\ disk' = [disk EXCEPT ![f] = None]
    /\ fresh' = fresh \cup {f}
    /\ UNCHANGED <<incoming, known, enumeration, queues, registry, memo, scan, status, faults>>

Receive(f) ==   \* reconciled before the scan
    /\ at = "idle" /\ incoming[f] = None /\ Change
    /\ incoming' = [incoming EXCEPT ![f] = changes']
    /\ UNCHANGED <<disk, fresh, known, enumeration, queues, registry, memo, scan, status, faults>>

Tick ==
    /\ ~active /\ ~due /\ due' = TRUE
    /\ UNCHANGED <<world, known, active, cursor, unreadable, queues, registry, memo, scan, status, faults>>

-----------------------------------------------------------------------------
(* The scan.                                                               *)

(* A new enumeration forgets what was dropped: it will meet it again.      *)
beginEnumeration ==
    IF ~active /\ due
    THEN /\ active' = TRUE /\ cursor' = 0 /\ unreadable' = FALSE /\ due' = FALSE
         /\ lost' = FALSE /\ large' = {} /\ untracked' = FALSE /\ fresh' = {}
    ELSE UNCHANGED <<enumeration, lost, registry, fresh>>

(* One failure a scan is tried again, if the page has room.                *)
promoteFailedDescriptor ==
    IF Cardinality(pending) < MaxPending /\ failed # <<>>
    THEN pending' = pending \cup {Head(failed)} /\ failed' = Tail(failed)
    ELSE UNCHANGED <<pending, failed>>

Begin ==
    /\ at = "idle" /\ beginEnumeration /\ promoteFailedDescriptor
    /\ at' = "walk" /\ processed' = {} /\ work' = Work /\ again' = FALSE
    /\ snapshots' = Nothing
    /\ UNCHANGED <<disk, incoming, changes, known, memo, looking, status, faults>>

CanWalk == active /\ Cardinality(pending) < MaxPending /\ work > 0

projectionMatchesFileIdentity(f) == known[f] # None /\ known[f].id = disk[f].id

(* The walker's next entry: nothing there, known as it is, or for the page.*)
Advance ==
    /\ at = "walk" /\ CanWalk /\ cursor < Files
    /\ LET f == cursor + 1
           skipped == disk[f] # None /\ projectionMatchesFileIdentity(f)
           matched == disk[f] # None /\ ~skipped
       IN  /\ pending' = IF matched THEN pending \cup {f} ELSE pending
           /\ large' = IF skipped THEN large \ {f} ELSE large
           /\ again' = (again \/ matched)
    /\ cursor' = cursor + 1 /\ work' = work - 1
    /\ UNCHANGED <<world, known, active, unreadable, due, failed, lost, untracked, memo,
                   at, looking, processed, snapshots, status, faults>>

(* The last root is done: the root is still the same directory.            *)
finishEnumeration ==
    /\ at = "walk" /\ CanWalk /\ cursor = Files
    /\ active' = FALSE /\ work' = work - 1
    /\ UNCHANGED <<world, known, cursor, unreadable, due, queues, registry, memo,
                   at, looking, processed, again, snapshots, status, faults>>

(* The walker throws: its cursor is discarded, the root is passed over.    *)
AdvanceFails ==
    /\ at = "walk" /\ CanWalk /\ cursor < Files /\ Fault
    /\ unreadable' = TRUE /\ cursor' = Files
    /\ UNCHANGED <<world, known, active, due, queues, registry, memo, scan, status>>

(* A file leaves the page, or moves to the failures, of which the oldest   *)
(* makes room.                                                             *)
Done(f) ==
    /\ pending' = pending \ {f} /\ failed' = Without(failed, f)
    /\ again' = TRUE /\ UNCHANGED lost
FaultyRememberFailed(f) ==   \* what is dropped is not counted
    /\ pending' = pending \ {f} /\ again' = TRUE
    /\ LET rest == Without(failed, f)
           full == Len(rest) >= MaxPending
       IN  failed' = Append(IF full THEN Tail(rest) ELSE rest, f) /\ UNCHANGED lost
FaultyPinned(f) ==   \* it keeps its place in the page
    UNCHANGED <<pending, failed, lost, again>>
rememberFailedDescriptor(f) ==
    /\ pending' = pending \ {f} /\ again' = TRUE
    /\ LET rest == Without(failed, f)
           full == Len(rest) >= MaxPending
       IN  /\ failed' = Append(IF full THEN Tail(rest) ELSE rest, f)
           /\ lost' = (lost \/ full)

ToCheck == at \in {"walk", "check"} /\ (at = "walk" => ~CanWalk) /\ pending \ processed # {}

memoMatches(f) ==
    /\ memo[f] # None /\ memo[f].id = disk[f].id
    /\ known[f] # None /\ known[f].content = memo[f].content

(* The file's identity: unchanged since it was read, too large, or to read.*)
Stat(f) ==
    /\ ToCheck /\ f \in pending \ processed /\ processed' = processed \cup {f}
    /\ IF disk[f] = None
       THEN rememberFailedDescriptor(f) /\ at' = "check" /\ UNCHANGED <<looking, memo, registry>>
       ELSE IF memoMatches(f)
       THEN Done(f) /\ at' = "check" /\ large' = large \ {f} /\ UNCHANGED <<looking, memo, untracked>>
       ELSE IF disk[f].kind = "large"
       THEN /\ Done(f) /\ at' = "check"
            /\ IF f \in large \/ Cardinality(large) < MaxLarge
               THEN large' = large \cup {f} /\ UNCHANGED untracked
               ELSE untracked' = TRUE /\ UNCHANGED large
            /\ UNCHANGED <<looking, memo>>
       ELSE /\ looking' = [file |-> f, id |-> disk[f].id] /\ at' = "read"
            /\ UNCHANGED <<queues, again, memo, registry>>
    /\ UNCHANGED <<world, known, enumeration, work, snapshots, status, faults>>

(* The content, which may be newer than the identity.                      *)
Read ==
    /\ at = "read" /\ at' = "check" /\ looking' = NotLooking
    /\ LET f == looking.file IN
         IF disk[f] = None \/ disk[f].kind # "good"
         THEN /\ rememberFailedDescriptor(f) /\ memo' = [memo EXCEPT ![f] = None]
              /\ UNCHANGED <<registry, snapshots>>
         ELSE /\ memo' = [memo EXCEPT ![f] = [id |-> looking.id, content |-> disk[f].content]]
              /\ large' = large \ {f} /\ UNCHANGED untracked
              /\ IF known[f] # None /\ known[f].content = disk[f].content
                 THEN Done(f) /\ UNCHANGED snapshots
                 ELSE /\ snapshots' = [snapshots EXCEPT ![f] = memo'[f]]
                      /\ failed' = Without(failed, f)
                      /\ UNCHANGED <<pending, again, lost>>  \* until known acknowledges it
    /\ UNCHANGED <<world, known, enumeration, processed, work, status, faults>>

ReadFails ==
    /\ at = "read" /\ Fault /\ at' = "check" /\ looking' = NotLooking
    /\ rememberFailedDescriptor(looking.file)
    /\ memo' = [memo EXCEPT ![looking.file] = None]
    /\ UNCHANGED <<world, known, enumeration, registry, processed, work, snapshots, status>>

(* A round is over; there may be room for more.                            *)
RoundEnds == at \in {"walk", "check"} /\ (at = "walk" => ~CanWalk) /\ pending \ processed = {}
Again ==
    /\ RoundEnds /\ again /\ CanWalk /\ at' = "walk" /\ again' = FALSE
    /\ UNCHANGED <<world, known, enumeration, queues, registry, memo, looking, processed,
                   work, snapshots, status, faults>>

scanStatusComplete ==
    pending = {} /\ failed = <<>> /\ ~lost /\ ~untracked /\ ~unreadable /\ ~active

(* What scanAdapters makes of the status: snapshots that do not fit into   *)
(* the cycle's budget are dropped.                                         *)
End(dropped) ==
    /\ RoundEnds /\ ~(again /\ CanWalk)
    /\ complete' = (scanStatusComplete /\ dropped = {})
    /\ deferred' = pending \cup Elements(failed) \cup dropped
    /\ snapshots' = [f \in File |-> IF f \in dropped THEN None ELSE snapshots[f]]
    /\ at' = "publish" /\ processed' = {} /\ work' = 0 /\ again' = FALSE
    /\ UNCHANGED <<world, known, enumeration, queues, registry, memo, looking>>

-----------------------------------------------------------------------------
(* The rest of the cycle.  What is published beside a version of a peer is *)
(* a conflict, and nothing to apply.                                       *)
Publish ==
    /\ at = "publish" /\ at' = "apply"
    /\ known' = [f \in File |-> IF snapshots[f] = None THEN known[f] ELSE snapshots[f]]
    /\ incoming' = [f \in File |-> IF snapshots[f] = None THEN incoming[f] ELSE None]
    /\ UNCHANGED <<disk, changes, fresh, enumeration, queues, registry, memo,
                   looking, processed, work, again, snapshots, status, faults>>

PublishFails ==
    /\ at = "publish" /\ Fault /\ at' = "apply"
    /\ UNCHANGED <<world, known, enumeration, queues, registry, memo,
                   looking, processed, work, again, snapshots, status>>

(* The scan returned nothing for the file, and looked at everything.       *)
ordinaryApplyDecision(f) == snapshots[f] = None /\ complete /\ f \notin deferred

Apply(f) ==
    /\ at = "apply" /\ incoming[f] # None /\ ordinaryApplyDecision(f)
    /\ disk' = [disk EXCEPT ![f] = [content |-> incoming[f], id |-> incoming[f], kind |-> "good"]]
    /\ known' = [known EXCEPT ![f] = [content |-> incoming[f], id |-> None]]
    /\ incoming' = [incoming EXCEPT ![f] = None]
    /\ UNCHANGED <<changes, fresh, enumeration, queues, registry, memo, scan, status, faults>>

CycleEnds ==
    /\ at = "apply" /\ \A f \in File : incoming[f] # None => ~ordinaryApplyDecision(f)
    /\ at' = "idle" /\ snapshots' = Nothing /\ complete' = FALSE /\ deferred' = {}
    /\ UNCHANGED <<world, known, enumeration, queues, registry, memo, looking, processed,
                   work, again, faults>>

ScanStep ==
    \/ Begin \/ Advance \/ finishEnumeration \/ (\E f \in File : Stat(f)) \/ Read \/ Again
    \/ (End({}) /\ UNCHANGED faults) \/ Publish \/ (\E f \in File : Apply(f)) \/ CycleEnds
Next ==
    \/ \E f \in File : Write(f) \/ Remove(f) \/ Receive(f)
    \/ ScanStep \/ Tick \/ AdvanceFails \/ ReadFails \/ PublishFails
    \/ \E f \in File : snapshots[f] # None /\ Fault /\ End({f})

Fairness == WF_vars(ScanStep) /\ WF_vars(Tick)
Spec == Init /\ [][Next]_vars /\ Fairness

-----------------------------------------------------------------------------
(* A version of a peer replaces what is published, what the user wrote     *)
(* since the enumeration began, or what is too large, and nothing else: a  *)
(* complete scan has seen all that is older, although it remembers none of *)
(* it.                                                                     *)
NothingUnseenIsReplaced ==
    [][\A f \in File : Apply(f) =>
           \/ disk[f] = None \/ (known[f] # None /\ disk[f].content = known[f].content)
           \/ f \in fresh \/ disk[f].kind = "large"]_vars

(* "It remains local and protected from incoming replacement"              *)
(* (boundedScan.ts:68) of what is registered as too large.                 *)
OversizedIsProtected == [][\A f \in large : ~Apply(f)]_vars

(* What can be read is published in the end, whatever cannot.              *)
AllPublished ==
    \A f \in File : disk[f] # None /\ disk[f].kind = "good"
                    => known[f] # None /\ known[f].content = disk[f].content
ReadableIsPublished == <>[]AllPublished
=============================================================================
