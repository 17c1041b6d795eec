-------------------------- MODULE SharedRepository --------------------------
(***************************************************************************)
(* Devices that synchronize one resource through a shared folder           *)
(* (src/src/protocol/repository.ts, src/src/protocol/reconciler.ts and the *)
(* cycle and maintenance of src/src/sync/manager.ts).                      *)
(*                                                                         *)
(* Each device appends immutable events to its own stream and writes       *)
(* checkpoint files and one acks.json.  The folder provider copies files,  *)
(* and the deletions of files, from replica to replica in any order.       *)
(* A device accepts from its replica, per stream, the contiguous run above *)
(* its checkpoint; the versions of the resource that no accepted version   *)
(* names as a parent are the tips, and unequal tips are a conflict.        *)
(*                                                                         *)
(* A cycle holds the device's lock from refreshState to the ack and reads  *)
(* the folder once, when it refreshes: a file that arrives later in the    *)
(* cycle might as well have arrived after it.  So a cycle is one action,   *)
(* with its own action for each way it may write to the folder or stop.    *)
(***************************************************************************)
EXTENDS Integers, Sequences, FiniteSets

CONSTANTS
    N,              \* number of devices
    MaxEvents,      \* bound: event files written in all
    MaxCheckpoints  \* bound: checkpoint files written in all

ASSUME NAssumption == N \in Nat \ {0}
ASSUME BoundsAssumption == MaxEvents \in Nat /\ MaxCheckpoints \in Nat

(* Device identifiers are compared (compareTips), so devices are numbers.  *)
Devices == 1 .. N

(* An event file is named by its device and sequence; it carries one       *)
(* version of the resource, named the same way.                            *)
File == Devices \X (Nat \ {0})
NoVersion == <<0, 0>>
NoCheckpoint == 0

VARIABLES
    log,        \* log[d]: the events d has written, in sequence
    cps,        \* every checkpoint file written, in the order of writing
    present,    \* present[r]: the event files in the replica of r
    gone,       \* event files a prune has deleted
    cpPresent,  \* cpPresent[r]: the checkpoint files in the replica of r
    cpGone,     \* checkpoint files a prune has deleted
    localCp,    \* localCp[d]: verbatim local copies of checkpoints
    acked,      \* acked[d]: the checkpoints d's acks.json has ever named
    st          \* st[d]: the local state of d

vars == <<log, cps, present, gone, cpPresent, cpGone, localCp, acked, st>>

Max2(a, b) == IF a >= b THEN a ELSE b
MaxOf(S) == CHOOSE m \in S : \A n \in S : m >= n
Event(v) == log[v[1]][v[2]]
Written == UNION {{<<d, i>> : i \in DOMAIN log[d]} : d \in Devices}
EventCount == Cardinality(Written)

-----------------------------------------------------------------------------
(* Checkpoints.                                                            *)

CpStreams(k) == IF k = NoCheckpoint THEN [e \in Devices |-> 0] ELSE cps[k].streams

(* compareCheckpointIdentity: Lamport value, then hash.  Two checkpoints   *)
(* of one Lamport value have different authors; the author stands for the  *)
(* arbitrary order of the hashes.                                          *)
CpNewer(j, k) ==
    \/ k = NoCheckpoint /\ j # NoCheckpoint
    \/ /\ j # NoCheckpoint /\ k # NoCheckpoint
       /\ \/ cps[j].lamport > cps[k].lamport
          \/ cps[j].lamport = cps[k].lamport /\ cps[j].author > cps[k].author

Newest(S) ==
    CHOOSE k \in S \cup {NoCheckpoint} : \A j \in S : ~CpNewer(j, k)

(* The checkpoints reached from a along predecessorHash: those in every set*)
(* that has a and, with a checkpoint, its predecessor.                     *)
Ancestry(a) ==
    LET closed(S) == a \in S /\ \A k \in S : cps[k].pred \in S \cup {NoCheckpoint}
    IN  {k \in DOMAIN cps : \A S \in SUBSET DOMAIN cps : closed(S) => k \in S}

(* Definitions named Faulty... are the bugs the properties are tested on.  *)
FaultyAckByAge(d, a, target) ==     \* newer, but perhaps no descendant
    a = target \/ CpNewer(a, target)

(* Does the ack a cover the checkpoint target for device d, which must be  *)
(* able to read every manifest it walks through?                           *)
ackCoversCheckpoint(d, a, target) ==
    /\ target \in Ancestry(a)
    /\ \A k \in Ancestry(a) :
           k > target => k \in cpPresent[d] \cup localCp[d]

(* absorbNewestCheckpoint: adopt the cursors of the other devices; the own *)
(* cursor belongs to recoverOwnStream.                                     *)
absorb(d, s, k) ==
    IF k = s.cp THEN s
    ELSE [s EXCEPT
            !.cp = k,
            !.lamport = Max2(s.lamport, cps[k].lamport),
            !.streams = [e \in Devices |->
                IF e = d THEN s.streams[e]
                ELSE Max2(s.streams[e], cps[k].streams[e])]]

-----------------------------------------------------------------------------
(* Reconciliation.                                                         *)

(* The end of the contiguous run of d's stream above position n in r.      *)
RunEnd(r, d, n) ==
    CHOOSE m \in n .. Max2(n, Len(log[d])) :
        /\ \A i \in n + 1 .. m : <<d, i>> \in present[r]
        /\ <<d, m + 1>> \notin present[r]

AcceptedEnd(d, s, e) == RunEnd(d, e, CpStreams(s.cp)[e])

(* "Waiting for device e event n": something visible above the run.        *)
Warned(d, s) ==
    \E e \in Devices : \E v \in present[d] :
        v[1] = e /\ v[2] > AcceptedEnd(d, s, e)

(* The versions above the checkpoint k up to the cursors.                  *)
Accepted(k, streams) ==
    UNION {{<<e, i>> : i \in CpStreams(k)[e] + 1 .. streams[e]} : e \in Devices}

(* buildResourceGraphs, calculateTips: the folded version (a node without  *)
(* parents) and the accepted ones, less those a node names as parent.      *)
TipsOf(k, streams) ==
    LET accepted == Accepted(k, streams)
        folded == IF k = NoCheckpoint THEN {} ELSE {cps[k].tip} \ {NoVersion}
    IN  (folded \cup accepted) \ UNION {Event(v).parents : v \in accepted}

Conflicting(tips) == \E v, w \in tips : Event(v).edits # Event(w).edits

(* compareTips: Lamport value, then device.                                *)
TipNewer(v, w) ==
    \/ Event(v).lamport > Event(w).lamport
    \/ Event(v).lamport = Event(w).lamport /\ v[1] > w[1]

chooseActiveTip(tips) == CHOOSE v \in tips : \A w \in tips : ~TipNewer(w, v)

(* The own stream after a refresh: the run above the higher of the pinned  *)
(* and the folded cursor.                                                  *)
OwnEnd(d, s) == RunEnd(d, d, Max2(s.streams[d], CpStreams(s.cp)[d]))

(* recoverOwnStream goes through: the last own event that no checkpoint    *)
(* covers is visible, or a checkpoint ahead of the state is corroborated   *)
(* by a file (adoptCheckpointOwnCursor); and the own files have no gap.    *)
OwnStreamSound(d, s) ==
    LET cover == CpStreams(s.cp)[d]
    IN  /\ s.streams[d] > cover => <<d, s.streams[d]>> \in present[d]
        /\ s.streams[d] < cover =>
               \E v \in present[d] : v[1] = d /\ v[2] >= cover
        /\ \A v \in present[d] : v[1] = d => v[2] <= OwnEnd(d, s)

recoverOwnStream(d, s) ==
    [s EXCEPT
       !.streams[d] = OwnEnd(d, s),
       !.lamport = MaxOf({s.lamport} \cup
           {log[d][i].lamport : i \in s.streams[d] + 1 .. OwnEnd(d, s)})]

(* acceptContiguousStreams throws when an accepted event is not visible.   *)
PinnedVisible(d, s) ==
    \A e \in Devices : s.streams[e] <= AcceptedEnd(d, s, e)

FaultyReconcileKeepsLamport(d, s) ==
    [s EXCEPT !.streams = [e \in Devices |-> AcceptedEnd(d, s, e)]]

reconcile(d, s) ==
    LET streams == [e \in Devices |-> AcceptedEnd(d, s, e)]
        accepted == Accepted(s.cp, streams)
    IN  [s EXCEPT !.streams = streams,
                  !.lamport = MaxOf({s.lamport} \cup
                                    {Event(v).lamport : v \in accepted})]

Winner(d) == Newest(cpPresent[d] \cup localCp[d])

-----------------------------------------------------------------------------
(* Publishing.                                                             *)

ContentOf(v) == IF v = NoVersion THEN {} ELSE Event(v).edits
PastOf(v) == IF v = NoVersion THEN {} ELSE {v} \cup Event(v).past

(* parentsForLocalChange: the version on the local disk as last projected, *)
(* or all tips when they are all equal to it.                              *)
parentsForLocalChange(s, tips) ==
    IF /\ s.projection # NoVersion
       /\ Cardinality(tips) > 1
       /\ \A v \in tips : Event(v).edits = Event(s.projection).edits
    THEN tips
    ELSE {s.projection} \ {NoVersion}

(* In a conflict the edits of one device stay a chain: its own tips of     *)
(* other content become parents too.                                       *)
parentsWithOwnConflictTips(d, s, tips, edits) ==
    parentsForLocalChange(s, tips) \cup
    IF Conflicting(tips)
    THEN {v \in tips : v[1] = d /\ Event(v).edits # edits}
    ELSE {}

NewEvent(s, parents, edits, synthetic) ==
    [lamport |-> s.lamport + 1,
     parents |-> parents,
     past |-> UNION {PastOf(v) : v \in parents},
     edits |-> edits,
     synthetic |-> synthetic]

(* publish: the event file at the next sequence, which no file of the own  *)
(* stream may occupy.                                                      *)
NewVersion(d, s) == <<d, s.streams[d] + 1>>

writeEvent(d, s, event) ==
    /\ Cardinality(Written) < MaxEvents
    /\ NewVersion(d, s) \notin present[d]
    /\ log' = [log EXCEPT ![d] = Append(@, event)]

(* The local state that counts it, saved after the file.                   *)
counted(d, s, event) ==
    [s EXCEPT !.streams[d] = @ + 1, !.lamport = event.lamport]

Init ==
    /\ log = [d \in Devices |-> <<>>] /\ cps = <<>>
    /\ present = [r \in Devices |-> {}] /\ gone = {}
    /\ cpPresent = [r \in Devices |-> {}] /\ cpGone = {}
    /\ localCp = [d \in Devices |-> {}]
    /\ acked = [d \in Devices |-> {}]
    /\ st = [d \in Devices |->
               [lamport |-> 0, streams |-> [e \in Devices |-> 0],
                cp |-> NoCheckpoint, projection |-> NoVersion, disk |-> {}]]

-----------------------------------------------------------------------------
(* The folder provider.  What a prune deleted is not delivered any more.   *)
(* An acks.json is read by others at any time after it was written, in any *)
(* of its versions, so it needs no delivery.                               *)

Deliver(r, v) ==
    /\ v \notin present[r] /\ v \notin gone
    /\ present' = [present EXCEPT ![r] = @ \cup {v}]
    /\ UNCHANGED <<log, cps, gone, cpPresent, cpGone, localCp, acked, st>>

DeliverDeletion(r, v) ==
    /\ v \in present[r] \cap gone
    /\ present' = [present EXCEPT ![r] = @ \ {v}]
    /\ UNCHANGED <<log, cps, gone, cpPresent, cpGone, localCp, acked, st>>

DeliverCheckpoint(r, k) ==
    /\ k \notin cpPresent[r] /\ k \notin cpGone
    /\ cpPresent' = [cpPresent EXCEPT ![r] = @ \cup {k}]
    /\ UNCHANGED <<log, cps, present, gone, cpGone, localCp, acked, st>>

DeliverCheckpointDeletion(r, k) ==
    /\ k \in cpPresent[r] \cap cpGone
    /\ cpPresent' = [cpPresent EXCEPT ![r] = @ \ {k}]
    /\ UNCHANGED <<log, cps, present, gone, cpGone, localCp, acked, st>>

Provider(r) ==
    \/ \E v \in Written : Deliver(r, v) \/ DeliverDeletion(r, v)
    \/ \E k \in DOMAIN cps :
           DeliverCheckpoint(r, k) \/ DeliverCheckpointDeletion(r, k)

-----------------------------------------------------------------------------
(* The cycle of one device (performSync).                                  *)

(* persistLocalCheckpointCopy, cleanupLocalCheckpointCopies.               *)
keepCopies(d, k) ==
    localCp' = [localCp EXCEPT ![d] =
        IF k = st[d].cp THEN @ ELSE (@ \cup {k}) \cap {k, cps[k].pred}]

writeAck(d, k) == acked' = [acked EXCEPT ![d] = @ \cup ({k} \ {NoCheckpoint})]

(* The refresh throws.  What its first stages changed is saved; the next   *)
(* cycle starts over.                                                      *)
CycleThrows(d, saved) ==
    /\ st' = [st EXCEPT ![d] = saved]
    /\ keepCopies(d, saved.cp)
    /\ UNCHANGED <<log, cps, present, gone, cpPresent, cpGone, acked>>

(* A cycle that publishes nothing.  The content of a tip may be found on   *)
(* disk and recorded (markSuppressedSnapshotProjection); the active tip    *)
(* may be recorded, if it is an own scan or on disk already, or written to *)
(* disk, now or by the helper later, unless the disk has drifted.          *)
Cycle(d, s, tips) ==
    LET same == {v \in tips : Event(v).edits = s.disk}
        active == chooseActiveTip(tips)
    IN  /\ \/ st' = [st EXCEPT ![d] = s]
           \/ /\ same # {} /\ ContentOf(s.projection) # s.disk
              /\ st' = [st EXCEPT ![d] =
                    [s EXCEPT !.projection = chooseActiveTip(same)]]
           \/ /\ tips # {} /\ ~Conflicting(tips) /\ s.projection # active
              /\ \/ /\ active[1] = d /\ ~Event(active).synthetic
                    /\ st' = [st EXCEPT ![d] =
                          [s EXCEPT !.projection = active]]
                 \/ /\ active[1] # d \/ Event(active).synthetic
                    /\ s.disk \in {ContentOf(s.projection), Event(active).edits}
                    /\ st' = [st EXCEPT ![d] =
                          [s EXCEPT !.projection = active,
                                    !.disk = Event(active).edits]]
        /\ keepCopies(d, s.cp) /\ writeAck(d, s.cp)
        /\ UNCHANGED <<log, cps, present, gone, cpPresent, cpGone>>

(* The user has edited the resource on disk; the cycle finds the edit and  *)
(* publishes it.  Unless that leaves a conflict, the own tip is marked as  *)
(* projected.                                                              *)
LocalEdit(d, s, tips) ==
    LET edits == s.disk \cup {NewVersion(d, s)}
    IN  NewEvent(s, parentsWithOwnConflictTips(d, s, tips, edits), edits, FALSE)

PublishEdit(d, s, tips) ==
    LET v == NewVersion(d, s)
        event == LocalEdit(d, s, tips)
    IN  /\ writeEvent(d, s, event)
        /\ present' = [present EXCEPT ![d] = @ \cup {v}]
        /\ st' = [st EXCEPT ![d] =
              [counted(d, s, event) EXCEPT
                 !.disk = event.edits,
                 !.projection = IF tips \subseteq event.parents THEN v ELSE @]]
        /\ keepCopies(d, s.cp) /\ writeAck(d, s.cp)
        /\ UNCHANGED <<cps, gone, cpPresent, cpGone>>

(* The same, but the process dies between the event file and the state     *)
(* file; what the reconcile had found out is lost with it.                 *)
PublishCrash(d, s, tips, saved) ==
    LET event == LocalEdit(d, s, tips)
    IN  /\ writeEvent(d, s, event)
        /\ present' = [present EXCEPT ![d] = @ \cup {NewVersion(d, s)}]
        /\ st' = [st EXCEPT ![d] = [saved EXCEPT !.disk = event.edits]]
        /\ keepCopies(d, s.cp)
        /\ UNCHANGED <<cps, gone, cpPresent, cpGone, acked>>

(* A merge of the conflicting tips, or one of them, republished with every *)
(* tip as parent (autoMergeConflicts, the conflict command).  Its content  *)
(* comes from the repository: the local disk does not hold it.             *)
ResolveConflict(d, s, tips) ==
    /\ Conflicting(tips)
    /\ \E edits \in {UNION {Event(w).edits : w \in tips}}
                   \cup {Event(w).edits : w \in tips} :
          LET event == NewEvent(s, tips, edits, TRUE)
          IN  /\ writeEvent(d, s, event)
              /\ st' = [st EXCEPT ![d] = counted(d, s, event)]
    /\ present' = [present EXCEPT ![d] = @ \cup {NewVersion(d, s)}]
    /\ keepCopies(d, s.cp) /\ writeAck(d, s.cp)
    /\ UNCHANGED <<cps, gone, cpPresent, cpGone>>

-----------------------------------------------------------------------------
(* Checkpoint maintenance (checkpointPhases), after its own refresh and    *)
(* reconcile without warnings or conflicts.                                *)

FaultyMaintenanceInConflict(d, s, tips) == tips # {} /\ ~Warned(d, s)

MaintenanceMayRun(d, s, tips) ==
    tips # {} /\ ~Warned(d, s) /\ ~Conflicting(tips)

(* createCheckpoint of state s with the tips the caller reconciled.  The   *)
(* new checkpoint is newer than any in sight and is absorbed at once.      *)
createCheckpoint(d, s, tips, files, copies) ==
    LET k == Len(cps) + 1
    IN  /\ Len(cps) < MaxCheckpoints
        /\ cps' = Append(cps,
              [author |-> d, lamport |-> s.lamport + 1, pred |-> s.cp,
               streams |-> s.streams, tip |-> chooseActiveTip(tips)])
        /\ cpPresent' = [cpPresent EXCEPT ![d] = files \cup {k}]
        /\ localCp' = [localCp EXCEPT ![d] = (copies \cap {s.cp}) \cup {k}]
        /\ st' = [st EXCEPT ![d] =
              [s EXCEPT !.cp = k, !.lamport = s.lamport + 1]]
        /\ writeAck(d, k)

(* The prune that follows finds no ack of the new checkpoint.              *)
FirstCheckpoint(d, s, tips) ==
    /\ MaintenanceMayRun(d, s, tips)
    /\ s.cp = NoCheckpoint
    /\ createCheckpoint(d, s, tips, cpPresent[d], localCp[d])
    /\ UNCHANGED <<log, present, gone, cpGone>>

(* pruneWithGates: every device has acknowledged the checkpoint (G1).  The *)
(* age gate (G2) is taken for what it is there for: every device of the    *)
(* repository has appeared in the folder before anything is deleted.       *)
GatesOpen(d, k) ==
    /\ k # NoCheckpoint
    /\ \A e \in Devices \ {d} : \E a \in acked[e] :
           ackCoversCheckpoint(d, a, k)

Folded(d, k) == {v \in present[d] : v[2] <= CpStreams(k)[v[1]]}
Superseded(d, k) == {j \in cpPresent[d] : CpNewer(k, j)}

deleteFolded(d, k) ==
    /\ gone' = gone \cup Folded(d, k)
    /\ cpGone' = cpGone \cup Superseded(d, k)

(* The marker republishes the current tip after the deletions.             *)
Marker(s, tips) ==
    LET tip == chooseActiveTip(tips)
    IN  NewEvent(s, {tip}, Event(tip).edits, TRUE)

(* The marker fails to be published, or is written.                        *)
Prune(d, s, tips) ==
    /\ MaintenanceMayRun(d, s, tips) /\ GatesOpen(d, s.cp)
    /\ deleteFolded(d, s.cp)
    /\ \/ /\ present' = [present EXCEPT ![d] = @ \ Folded(d, s.cp)]
          /\ st' = [st EXCEPT ![d] = s]
          /\ UNCHANGED log
       \/ /\ writeEvent(d, s, Marker(s, tips))
          /\ present' = [present EXCEPT ![d] =
                            (@ \ Folded(d, s.cp)) \cup {NewVersion(d, s)}]
          /\ st' = [st EXCEPT ![d] = counted(d, s, Marker(s, tips))]
    /\ cpPresent' = [cpPresent EXCEPT ![d] = @ \ Superseded(d, s.cp)]
    /\ keepCopies(d, s.cp) /\ writeAck(d, s.cp)
    /\ UNCHANGED cps

(* When the pruned checkpoint was behind the streams a fresher one is      *)
(* folded, of the tips reconciled before the prune.  (Prune is also the    *)
(* process dying before that.)                                             *)
PruneAndFold(d, s, tips) ==
    LET files == cpPresent[d] \ Superseded(d, s.cp)
        copies == localCp[d] \cup {s.cp}
    IN  /\ MaintenanceMayRun(d, s, tips) /\ GatesOpen(d, s.cp)
        /\ CpStreams(s.cp) # s.streams
        /\ deleteFolded(d, s.cp)
        /\ \/ /\ present' = [present EXCEPT ![d] = @ \ Folded(d, s.cp)]
              /\ createCheckpoint(d, s, tips, files, copies)
              /\ UNCHANGED log
           \/ /\ writeEvent(d, s, Marker(s, tips))
              /\ present' = [present EXCEPT ![d] =
                                (@ \ Folded(d, s.cp)) \cup {NewVersion(d, s)}]
              /\ createCheckpoint(d, counted(d, s, Marker(s, tips)), tips,
                                  files, copies)

(* Whatever a device does, it refreshes first.  (Each \E binds one value,  *)
(* which TLC then computes once.)                                          *)
Device(d) ==
    \E absorbed \in {absorb(d, st[d], Winner(d))} :
        \/ /\ ~OwnStreamSound(d, absorbed)
           /\ CycleThrows(d, absorbed)
        \/ /\ OwnStreamSound(d, absorbed)
           /\ \E recovered \in {recoverOwnStream(d, absorbed)} :
                 \/ /\ ~PinnedVisible(d, recovered)
                    /\ CycleThrows(d, recovered)
                 \/ /\ PinnedVisible(d, recovered)
                    /\ \E s \in {reconcile(d, recovered)} :
                       \E tips \in {TipsOf(s.cp, s.streams)} :
                          \/ Cycle(d, s, tips)
                          \/ PublishEdit(d, s, tips)
                          \/ PublishCrash(d, s, tips, recovered)
                          \/ ResolveConflict(d, s, tips)
                          \/ FirstCheckpoint(d, s, tips)
                          \/ Prune(d, s, tips)
                          \/ PruneAndFold(d, s, tips)

Next == \E d \in Devices : Provider(d) \/ Device(d)

Spec == Init /\ [][Next]_vars

(* The provider copies every file in the end, and every device goes on     *)
(* polling.                                                                *)
Fairness == \A d \in Devices : WF_vars(Provider(d)) /\ WF_vars(Device(d))
LiveSpec == Spec /\ Fairness

-----------------------------------------------------------------------------
EventRecord ==
    [lamport : Nat, parents : SUBSET File, past : SUBSET File,
     edits : SUBSET File, synthetic : BOOLEAN]
CheckpointRecord ==
    [author : Devices, lamport : Nat, pred : Nat,
     streams : [Devices -> Nat], tip : File]
LocalState ==
    [lamport : Nat, streams : [Devices -> Nat], cp : Nat,
     projection : File \cup {NoVersion},
     disk : SUBSET File]

TypeOK ==
    /\ log \in [Devices -> Seq(EventRecord)]
    /\ cps \in Seq(CheckpointRecord)
    /\ present \in [Devices -> SUBSET File] /\ gone \subseteq File
    /\ cpPresent \in [Devices -> SUBSET (Nat \ {0})]
    /\ cpGone \subseteq Nat \ {0}
    /\ localCp \in [Devices -> SUBSET (Nat \ {0})]
    /\ acked \in [Devices -> SUBSET (Nat \ {0})]
    /\ st \in [Devices -> LocalState]

(* A Lamport value is above those of everything its event knew and a       *)
(* checkpoint orders after every event it folds, so that no newest-first   *)
(* election (compareTips, compareCheckpointIdentity) prefers an ancestor.  *)
LamportRespectsCausality ==
    /\ \A v \in Written : \A w \in Event(v).past :
           Event(w).lamport < Event(v).lamport
    /\ \A k \in DOMAIN cps : \A v \in Written :
           v[2] <= cps[k].streams[v[1]] => Event(v).lamport < cps[k].lamport

(* A prune strands nobody: every checkpoint that can still win, wherever   *)
(* it was written and whoever holds it, covers the deleted events.         *)
(* Otherwise a device absorbing it would wait for ever for files that no   *)
(* replica has (pruneWithGates, absorbNewestCheckpoint).                   *)
PruneStrandsNobody ==
    \A d \in Devices : \A v \in gone :
        /\ v[2] <= CpStreams(st[d].cp)[v[1]]
        /\ \A k \in DOMAIN cps :
               CpNewer(k, st[d].cp) => v[2] <= cps[k].streams[v[1]]

(* The versions the versions T stand for: their ancestors, what has the    *)
(* content of one of them, and so on.                                      *)
Closed(S) ==
    \A v \in S : /\ PastOf(v) \subseteq S
                 /\ \A w \in Written : Event(w).edits = Event(v).edits => w \in S
Covered(T) == {v \in Written : \A S \in SUBSET Written : T \subseteq S /\ Closed(S) => v \in S}

(* No edit is dropped: the tips of a device stand for every event it has   *)
(* accepted or a checkpoint has folded for it.  Concurrent edits are never *)
(* resolved by silence (reconcile, createCheckpoint, chooseActiveTip).     *)
NoEditDropped ==
    \A d \in Devices :
        {v \in Written : v[2] <= st[d].streams[v[1]]}
        \subseteq Covered(TipsOf(st[d].cp, st[d].streams))

(* When the edits stop every device ends up with the same versions, in     *)
(* whatever order files, checkpoints and deletions reached it and whoever  *)
(* folded and pruned meanwhile (absorbNewestCheckpoint, recoverOwnStream,  *)
(* acceptContiguousStreams: none of their stops is for ever).              *)
Convergence ==
    <>[](\A d, e \in Devices :
            TipsOf(st[d].cp, st[d].streams) = TipsOf(st[e].cp, st[e].streams))

(* Only versions that are not ancestors of one another conflict            *)
(* (docs/protocol.md, Event streams and resource DAGs).  Asked only of a   *)
(* tip whose whole past the device has accepted or absorbed.               *)
AncestorsDoNotConflict ==
    \A d \in Devices :
        LET tips == TipsOf(st[d].cp, st[d].streams)
        IN  \A v, w \in tips :
                /\ v \in Event(w).past
                /\ \A u \in Event(w).past : u[2] <= st[d].streams[u[1]]
                => Event(v).edits = Event(w).edits

(* A merge the device published but has not applied to its disk is not     *)
(* overwritten by its next scan of that disk                               *)
(* (src/src/sync/versionPolicy.ts, isSyntheticProducer).                   *)
UnappliedMergeIsKept ==
    \A v \in Written : \A p \in Event(v).parents :
        /\ ~Event(v).synthetic
        /\ p[1] = v[1] /\ Event(p).synthetic
        => Event(p).edits \subseteq Event(v).edits
=============================================================================
