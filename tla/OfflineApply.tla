---------------------------- MODULE OfflineApply ----------------------------
(***************************************************************************)
(* One computer's resources between the shared repository and Cursor's own *)
(* files (performSync and restartToApply in src/src/sync/manager.ts, the   *)
(* helper in src/src/helper/main.ts, src/src/sync/versionPolicy.ts and     *)
(* src/src/protocol/reconciler.ts).                                        *)
(*                                                                         *)
(* While Cursor is open the extension host runs cycles: it scans, publishes*)
(* local edits, writes incoming settings at once and queues incoming chats.*)
(* While Cursor is closed a helper scans once more, publishes what is new, *)
(* freezes the versions to apply and drains the queue in pages.  Both work *)
(* on a copy in memory and save it at few places; both may die in between. *)
(*                                                                         *)
(* versions is the part of the shared log this computer has received, a    *)
(* version's name is its position.  A resource's content is its hash.  The *)
(* check that Cursor is closed and the write that follows it are one step, *)
(* and a session of Cursor that begins while a helper runs lasts until the *)
(* helper's next check.                                                    *)
(***************************************************************************)
EXTENDS Naturals, FiniteSets, Sequences, SequencesExt

CONSTANTS
    Chat,          \* resources in the database: written offline only
    Setting,       \* resources in files: written while Cursor runs, too
    Content, Initial,
    Absent,        \* the content of a deleted resource, and of a tombstone
    None,
    PageSize,      \* changes of one page (256 in the code)
    MaxActs,       \* bound: edits here and versions from other devices
    MaxMerges,     \* bound: conflicts merged, old tips migrated
    MaxFaults,     \* bound: crashes, failed scans and writes, reopenings
    EditsDuringCycle   \* may a setting be edited in the middle of a cycle?

Resource == Chat \cup Setting

ASSUME OfflineAssumption ==
    /\ Chat \cap Setting = {} /\ IsFiniteSet(Resource) /\ Initial \in Content
    /\ Absent \notin Content /\ None \notin Content \cup {Absent}
    /\ PageSize \in Nat \ {0} /\ {MaxActs, MaxMerges, MaxFaults} \subseteq Nat
    /\ EditsDuringCycle \in BOOLEAN

VARIABLES
    versions,  \* the log: resource, hash, own, synth(etic), parents
    local,     \* local[r]: what Cursor has for r
    cursor,    \* "open" or "closed"
    disk,      \* the saved state: projections and the queue
    mem,       \* the copy of the process that holds the synchronization lock
    pc,        \* where that process is
    mode,      \* what the helper is for

    frozen,    \* frozen[r]: the tip to apply, 0 if none
    todo,      \* resources the scan or the apply loop still has to visit
    scan,      \* scan[r]: what the cycle's scan returned for r, or None
    deferred,  \* resources the scan could not finish
    verified,  \* versions the final scan authorizes
    round,     \* settleOfflineChatChanges: rounds done
    page, asked, done, stalled, seenPages,      \* the drain
    dirty,     \* history: resources edited since they were read or written
    acts, merges, faults

host == <<local, cursor, dirty>>
drain == <<verified, round, page, asked, done, stalled, seenPages>>
cycle == <<frozen, todo, scan, deferred>>
vars == <<versions, acts, merges, host, disk, mem, pc, mode, cycle, drain, faults>>

-----------------------------------------------------------------------------
(* Reconciliation of a log.                                                *)

Of(L, r) == {v \in DOMAIN L : L[v].res = r}
Tips(L, r) == {v \in Of(L, r) : \A u \in Of(L, r) : v \notin L[u].parents}
Conflict(L, r) == \E u, v \in Tips(L, r) : L[u].hash # L[v].hash
Active(L, r) ==
    IF Conflict(L, r) \/ Tips(L, r) = {} THEN 0
    ELSE CHOOSE v \in Tips(L, r) : \A u \in Tips(L, r) : u <= v
Read(m) == SubSeq(versions, 1, m.seen)     \* what m's tips were computed from

(* A projection (LocalProjection): the version a resource is known to stand at, the hash the *)
(* scan compares with, and the hash of a copy kept in spite of a tombstone.*)
At(L, v) == [v |-> v, hash |-> L[v].hash, kept |-> None]
Changed(p, v) == v # 0 /\ (p.v # v \/ p.hash # versions[v].hash)
Entry(v, why) == [v |-> v, block |-> why]
Dequeue(m, vs) == [m EXCEPT !.pending = {q \in @ : q.v \notin vs}]
Mark(m, r, p) == [Dequeue(m, {p.v}) EXCEPT !.proj[r] = p]

(* queuePending: the entry of a version keeps the block a failure has left.*)
Queue(m, v) ==
    [m EXCEPT !.pending =
        {q \in @ : q.v # v \/ q.block # "no"}
          \cup (IF \E q \in @ : q.v = v /\ q.block # "no" THEN {}
                ELSE {Entry(v, "no")})]

(* parentsForLocalChange *)
Parents(L, r, p) ==
    LET tips == Tips(L, r)
    IN  IF Cardinality(tips) > 1 /\ \A t \in tips : L[t].hash = p.hash
        THEN tips ELSE {p.v}

(* parentsWithOwnConflictTips, finalExportSnapshotParents *)
OwnParents(L, r, p, c) ==
    Parents(L, r, p)
      \cup {t \in Tips(L, r) : Conflict(L, r) /\ L[t].own /\ L[t].hash # c}

ShouldPublish(L, r, p, c) ==
    /\ c \notin {p.hash, p.kept}
    /\ \A t \in Tips(L, r) : L[t].hash # c

Matching(L, r, c) == {t \in Tips(L, r) : L[t].hash = c}
Version(r, c, synth, parents) ==
    [res |-> r, hash |-> c, own |-> TRUE, synth |-> synth, parents |-> parents]

(* Merges of conflicts: a conflict may have one, and it becomes a tip.  Its *)
(* content is any but the one both sides have left.                        *)
Unites(L, M, g) ==
    \A r \in M : g[r] # Initial \/ \E t \in Tips(L, r) : L[t].hash = Initial
Merged(L, M, g) ==
    L \o SetToSeq({Version(r, g[r], TRUE, Tips(L, r)) : r \in M})

(* Files are scanned and written before the databases.                     *)
Next1(r) == r \in todo /\ (r \in Chat => todo \cap Setting = {})

Merge(M) == merges + Cardinality(M) <= MaxMerges /\ merges' = merges + Cardinality(M)

Nobody == [r \in Resource |-> None]
Nothing == [r \in Resource |-> 0]
Acts == acts < MaxActs /\ acts' = acts + 1
Fault == faults < MaxFaults /\ faults' = faults + 1
Faults(f) == IF f THEN Fault ELSE UNCHANGED faults

Init ==
    /\ versions = SetToSeq({Version(r, Initial, FALSE, {}) : r \in Resource})
    /\ local = [r \in Resource |-> Initial] /\ cursor = "open"
    /\ disk = [proj |-> [r \in Resource |-> At(versions, Active(versions, r))],
               pending |-> {}, seen |-> Len(versions)]
    /\ mem = disk /\ pc = "idle" /\ mode = "none"
    /\ frozen = Nothing /\ todo = {} /\ scan = Nobody /\ deferred = {}
    /\ verified = {} /\ round = 0 /\ page = {} /\ asked = {}
    /\ done = [v \in {} |-> None] /\ stalled = {} /\ seenPages = {}
    /\ dirty = {} /\ acts = 0 /\ merges = 0 /\ faults = 0

(* The process lets go of the lock; what it had in memory is gone.         *)
Rest(d) ==
    /\ disk' = d /\ mem' = d /\ pc' = "idle"
    /\ frozen' = Nothing /\ todo' = {} /\ scan' = Nobody /\ deferred' = {}
    /\ verified' = {} /\ round' = 0 /\ page' = {} /\ asked' = {}
    /\ done' = [v \in {} |-> None] /\ stalled' = {} /\ seenPages' = {}

(* R now stands at m's projections, if it has what they say.               *)
Settles(R, m, now) ==
    dirty' = dirty \ {r \in R : now[r] \in {m.proj[r].hash, m.proj[r].kept}}

-----------------------------------------------------------------------------
(* The user, the other devices, and ends of processes.                     *)

Edit(r, c) ==
    /\ cursor = "open" /\ Acts /\ c # local[r]
    /\ c # Absent \/ r \in Setting
    /\ pc = "apply" /\ r \in Setting => EditsDuringCycle
    /\ local' = [local EXCEPT ![r] = c] /\ dirty' = dirty \cup {r}
    /\ UNCHANGED <<versions, merges, cursor, disk, mem, pc, mode, cycle, drain, faults>>

PeerPublish(r, c, parents) ==
    /\ Acts /\ \E v \in parents : versions[v].hash # c
    /\ versions' = Append(versions,
          [Version(r, c, FALSE, parents) EXCEPT !.own = FALSE])
    /\ UNCHANGED <<merges, host, disk, mem, pc, mode, cycle, drain, faults>>

(* A finalizer starts when the user closes Cursor.                         *)
CloseCursor(m) ==
    /\ cursor = "open" /\ pc = "idle"
    /\ cursor' = "closed" /\ mode' = m
    /\ UNCHANGED <<versions, acts, merges, local, dirty, disk, mem, pc, cycle, drain, faults>>

OpenCursor ==
    /\ cursor = "closed" /\ cursor' = "open"
    /\ IF pc = "idle"
       THEN mode' = "none" /\ UNCHANGED faults
       ELSE Fault /\ UNCHANGED mode
    /\ UNCHANGED <<versions, acts, merges, local, dirty, disk, mem, pc, cycle, drain>>

Crash ==
    /\ pc # "idle" /\ Fault /\ Rest(disk) /\ mode' = "none"
    /\ cursor' \in (IF pc = "apply" THEN {"open", "closed"} ELSE {cursor})
    /\ UNCHANGED <<versions, acts, merges, local, dirty>>

-----------------------------------------------------------------------------
(* The extension host's cycle (performSync).                               *)

(* protectedSyntheticResources: a merge not yet written is not published   *)
(* over, unless its resource was edited (applySyntheticProjectionsBeforeScan).*)
Drifted(p, v, c) ==
    (Changed(p, v) /\ versions[v].synth) => c \notin {p.hash, versions[v].hash}

(* Scan, acknowledge, publish, merge what has fallen apart, reconcile and  *)
(* prune the queue.  late is what the scan did not finish, failed that the *)
(* batch could not be published.                                           *)
HostScan(late, failed, M, g) ==
    LET m == disk
        L == versions
        found(r) == r \notin late /\ local[r] \notin {m.proj[r].hash, m.proj[r].kept}
        acked == {r \in Resource \ late :
                    /\ Matching(L, r, local[r]) # {} /\ local[r] # m.proj[r].kept
                    /\ IF r \in Chat THEN m.proj[r].v \notin Matching(L, r, local[r])
                       ELSE found(r) /\ local[r] # Absent}
        fresh == IF failed THEN {}
                 ELSE {r \in Resource :
                         /\ found(r) /\ ShouldPublish(L, r, m.proj[r], local[r])
                         /\ local[r] = Absent => ~Conflict(L, r)
                         /\ Drifted(m.proj[r], Active(L, r), local[r])}
        L1 == L \o SetToSeq({Version(r, local[r], FALSE,
                                OwnParents(L, r, m.proj[r], local[r])) : r \in fresh})
        L2 == Merged(L1, M, g)
        at(r) == IF r \in fresh THEN CHOOSE v \in Of(L1, r) : v > Len(L)
                 ELSE CHOOSE v \in Matching(L, r, local[r]) : TRUE
        known == acked \cup (fresh \cap Chat)
        m1 == [Dequeue(m, {at(r) : r \in known}) EXCEPT !.proj =
                  [r \in Resource |-> IF r \in known THEN At(L1, at(r)) ELSE m.proj[r]]]
        tips == {Active(L2, r) : r \in Resource}
    IN  /\ pc = "idle" /\ cursor = "open"
        /\ M \subseteq {r \in Setting : Conflict(L1, r)} /\ Merge(M) /\ Unites(L1, M, g)
        /\ Faults(late # {} \/ failed)
        /\ versions' = L2
        /\ disk' = IF known # {} THEN m1 ELSE disk
        /\ mem' = [m1 EXCEPT !.pending = {q \in @ : q.v \in tips}, !.seen = Len(L2)]
        /\ frozen' = [r \in Resource |-> Active(L2, r)]
        /\ scan' = [r \in Resource |-> IF found(r) THEN local[r] ELSE None]
        /\ deferred' = late /\ todo' = Resource /\ pc' = "apply"
        /\ Settles(known, m1, local)
        /\ UNCHANGED <<acts, local, cursor, mode, drain>>

FaultyMayWrite(r) == scan[r] = None

(* ordinaryApplyDecision, syntheticApplyDecision: write, or leave a drift. *)
MayWrite(r) ==
    /\ r \notin deferred
    /\ IF versions[frozen[r]].synth THEN local[r] = mem.proj[r].hash
       ELSE scan[r] = None

FaultyKept(r) == mem.proj[r].kept       \* not noted when a tombstone comes first

(* The hash that stands for a local copy kept in spite of a tombstone.     *)
Kept(r) ==
    IF scan[r] # None THEN scan[r]
    ELSE IF mem.proj[r].kept # None THEN mem.proj[r].kept ELSE mem.proj[r].hash

(* applyProjections, for one resource; ok: the write succeeds.             *)
HostApply(r, ok) ==
    LET v == frozen[r]
        tip == versions[v]
        mark(p, now) == /\ mem' = Mark(mem, r, p) /\ Settles({r}, Mark(mem, r, p), now)
        stay == UNCHANGED <<dirty>>
    IN  /\ pc = "apply" /\ Next1(r) /\ todo' = todo \ {r}
        /\ UNCHANGED <<versions, acts, merges, cursor, disk, pc, mode, frozen, scan, deferred, drain>>
        /\ CASE ~Changed(mem.proj[r], v) ->
                  ok /\ UNCHANGED <<mem, local, faults>> /\ stay
             [] Changed(mem.proj[r], v)
                /\ ((tip.own /\ ~tip.synth) \/ scan[r] = tip.hash) ->
                  ok /\ mark(At(versions, v), local) /\ UNCHANGED <<local, faults>>
             [] OTHER ->
                IF r \in Chat /\ tip.hash = Absent
                THEN /\ ok /\ mark([At(versions, v) EXCEPT !.kept = Kept(r)], local)
                     /\ UNCHANGED <<local, faults>>
                ELSE IF r \in Chat \/ ~MayWrite(r)
                THEN ok /\ mem' = Queue(mem, v) /\ stay /\ UNCHANGED <<local, faults>>
                ELSE IF ok
                THEN /\ local' = [local EXCEPT ![r] = tip.hash]
                     /\ mark(At(versions, v), [local EXCEPT ![r] = tip.hash])
                     /\ UNCHANGED faults
                ELSE Fault /\ stay /\ UNCHANGED <<mem, local>>

HostSave ==
    /\ pc = "apply" /\ todo = {}
    /\ Rest(mem)
    /\ UNCHANGED <<versions, acts, merges, host, mode, faults>>

(* "Sync & Apply Now": running kinds first; what failed before may be tried*)
(* again; every queued chat is read once more, and an edit found there is  *)
(* published and bars the write.  Then Cursor quits for the helper.        *)
SyncAndApply(unfinished) ==
    LET m == disk
        L == Read(m)
        tip(q) == versions[q.v]
        live == {q \in m.pending : q.v \in Tips(L, tip(q).res)}
        clean(q) == local[tip(q).res] = m.proj[tip(q).res].hash
        same(q) == local[tip(q).res] = tip(q).hash
        written == {q \in live : tip(q).res \in Setting /\ (clean(q) \/ same(q))}
        queued == {q \in live : tip(q).res \in Chat}
        matched == {q \in queued : tip(q).res \notin unfinished /\ same(q)}
        edited == {q \in queued : /\ tip(q).res \notin unfinished
                                  /\ local[tip(q).res] \notin
                                       {tip(q).hash, m.proj[tip(q).res].hash,
                                        m.proj[tip(q).res].kept}}
        R == {tip(q).res : q \in edited}
        L1 == versions \o SetToSeq({Version(r, local[r], FALSE,
                                     Parents(L, r, m.proj[r])) : r \in R})
        marked == {tip(q).res : q \in written \cup matched}
        by(r) == CHOOSE q \in written \cup matched : tip(q).res = r
        block(q) == IF q \in edited THEN "failed"
                    ELSE IF tip(q).res \in unfinished THEN "transient" ELSE "no"
        m1 == [m EXCEPT
                 !.proj = [r \in Resource |->
                     IF r \in R THEN At(L1, CHOOSE v \in Of(L1, r) : v > Len(versions))
                     ELSE IF r \in marked THEN At(versions, by(r).v) ELSE @[r]],
                 !.pending = {Entry(q.v, block(q)) : q \in @ \ (written \cup matched)}]
    IN  /\ pc = "idle" /\ cursor = "open"
        /\ Faults(unfinished # {})
        /\ versions' = L1 /\ Rest(m1)
        /\ local' = [r \in Resource |->
              IF r \in Setting /\ r \in marked THEN versions[by(r).v].hash ELSE local[r]]
        /\ Settles(marked \cup R, m1, local')
        /\ IF \E q \in m1.pending : q.block = "no" /\ q \in {Entry(p.v, "no") : p \in live}
           THEN cursor' = "closed" /\ mode' = "apply"
           ELSE UNCHANGED <<cursor, mode>>
        /\ UNCHANGED <<acts, merges>>

-----------------------------------------------------------------------------
(* The helper (executeRequest): Cursor is closed, or was a moment ago.     *)

Drains == mode \in {"apply", "final"}

(* refreshShutdownChatPending: a queued chat follows the current tip.      *)
Rebound(L, m) ==
    LET to(q) == LET r == L[q.v].res
                 IN  IF r \in Chat /\ Active(L, r) # 0 THEN Active(L, r) ELSE q.v
    IN  [m EXCEPT !.pending = {Entry(to(q), q.block) : q \in @}]

FaultyTargets(L, m, R) ==           \* own versions, merges among them, are left out
    {v \in {q.v : q \in {p \in m.pending : p.block \in {"no", "transient"}}} :
        Drains /\ L[v].res \in R /\ v = Active(L, L[v].res) /\ ~L[v].own}

(* finalExportTargetPage, shutdownApplyCandidates                          *)
Targets(L, m, R) ==
    {v \in {q.v : q \in {p \in m.pending : p.block \in {"no", "transient"}}} :
        Drains /\ L[v].res \in R /\ v = Active(L, L[v].res)}

(* repairUnpublishedConflictObservations                                   *)
Repaired(L, m, targets) ==
    [m EXCEPT !.proj = [r \in Resource |->
        IF /\ r \in Chat
           /\ \/ Conflict(L, r) \/ \E v \in targets : L[v].res = r
              \/ Active(L, r) # 0 /\ L[Active(L, r)].hash = @[r].hash
        THEN [m.proj[r] EXCEPT !.hash = L[m.proj[r].v].hash] ELSE @[r]]]

(* exportFinalChanges up to its scans, for the resources R.                *)
BeginExport(L, m, R) ==
    LET bound == Rebound(L, m)
        targets == Targets(L, bound, R)
    IN  /\ mem' = [Repaired(L, bound, targets) EXCEPT !.seen = Len(L)]
        /\ verified' = verified \cup targets
        /\ todo' = R /\ pc' = "scan"

HelperStart ==
    /\ pc = "idle" /\ cursor = "closed" /\ mode # "none"
    /\ BeginExport(versions, disk, Resource)
    /\ UNCHANGED <<versions, acts, merges, host, disk, mode, frozen, scan, deferred, round,
                   page, asked, done, stalled, seenPages, faults>>

(* One resource of the final scan; ok: it could be read.                   *)
HelperScan(r, ok) ==
    LET L == Read(mem)
        p == mem.proj[r]
        c == local[r]
        same == Matching(L, r, c)
        L1 == Append(versions, Version(r, c, FALSE,
                 IF r \in Chat THEN OwnParents(L, r, p, c) ELSE Parents(L, r, p)))
        read(m) == /\ mem' = m /\ disk' = m /\ Settles({r}, m, local)
    IN  /\ pc = "scan" /\ Next1(r) /\ todo' = todo \ {r}
        /\ IF ~ok
           THEN /\ Fault /\ deferred' = deferred \cup {r}
                /\ UNCHANGED <<versions, disk, mem, dirty>>
           ELSE /\ UNCHANGED <<deferred, faults>>
                /\ IF r \in Chat /\ same # {} /\ c # p.kept
                   THEN /\ read(Mark(mem, r, At(L, CHOOSE v \in same : TRUE)))
                        /\ UNCHANGED versions
                   ELSE IF ShouldPublish(L, r, p, c) /\ (r \in Setting => ~Conflict(L, r))
                   THEN /\ versions' = L1
                        /\ IF r \in Chat
                           THEN read(Mark(mem, r, At(L1, Len(L1))))
                           ELSE UNCHANGED <<disk, mem, dirty>>
                   ELSE UNCHANGED <<versions, disk, mem, dirty>>
        /\ UNCHANGED <<acts, merges, local, cursor, pc, mode, frozen, scan, drain>>

(* The end of exportFinalChanges: what was just published and stands alone *)
(* is where its resource is, a passing block is lifted, and all is saved.  *)
HelperExported ==
    LET L == versions
        mine == {r \in Setting : LET v == Active(L, r)
                                 IN  v > mem.seen /\ L[v].own /\ ~L[v].synth}
        lifted(q) == /\ q.block = "transient" /\ q.v \in verified
                     /\ L[q.v].res \notin deferred /\ q.v = Active(L, L[q.v].res)
        m == [mem EXCEPT
                !.proj = [r \in Resource |->
                            IF r \in mine THEN At(L, Active(L, r)) ELSE @[r]],
                !.pending = {IF lifted(q) THEN Entry(q.v, "no") ELSE q : q \in @},
                !.seen = Len(L)]
    IN  /\ pc = "scan" /\ todo = {} /\ pc' = "settle"
        /\ mem' = m /\ disk' = m /\ Settles(mine, m, local)
        /\ UNCHANGED <<versions, acts, merges, local, cursor, mode, frozen, todo, scan,
                       deferred, drain, faults>>

(* The helper ends: done, or because Cursor is back.                       *)
Ends ==
    /\ Rest(disk) /\ mode' = "none"
    /\ cursor' = IF mode = "apply" THEN "open" ELSE cursor
    /\ UNCHANGED <<versions, acts, merges, local, dirty, faults>>

Interrupted ==
    /\ pc \in {"settle", "page", "database", "files"} /\ cursor = "open"
    /\ pc = "files" => todo # {}
    /\ Ends

(* settleOfflineChatChanges: conflicts of chats are merged and old tips of *)
(* peers migrated, and the chats then scanned again; twice at most.        *)
Settle(M, g) ==
    LET L == Merged(versions, M, g)
        R == {r \in M : ~Conflict(L, r)}
        queued == [mem EXCEPT
            !.pending = {q \in @ : L[q.v].res \notin R}
                          \cup {Entry(Active(L, r), "no") : r \in R},
            !.seen = Len(L)]
    IN  /\ pc = "settle" /\ cursor = "closed" /\ round < 2
        /\ Merge(M) /\ Unites(versions, M, g) /\ M # {} /\ M \subseteq {r \in Chat :
              \/ Conflict(versions, r)
              \/ LET tip == versions[Active(versions, r)]
                 IN  ~tip.own /\ ~tip.synth /\ tip.hash # Absent}
        /\ versions' = L /\ disk' = queued
        /\ BeginExport(L, queued, Chat) /\ round' = round + 1
        /\ UNCHANGED <<acts, host, mode, frozen, scan, deferred,
                       page, asked, done, stalled, seenPages, faults>>

(* Nothing to settle, or no more: the tips to apply are frozen.            *)
Freeze ==
    /\ pc = "settle" /\ cursor = "closed"
    /\ IF ~Drains THEN Ends
       ELSE /\ pc' = "page"
            /\ frozen' = [r \in Resource |-> Active(versions, r)]
            /\ mem' = [mem EXCEPT !.seen = Len(versions)]
            /\ UNCHANGED <<versions, acts, merges, host, disk, mode, todo, scan, deferred, drain, faults>>

-----------------------------------------------------------------------------
(* The drain (drainBoundedApplyPages, applyVerifiedPage).                  *)

Res(v) == versions[v].res

(* shutdownApplyCandidates, for the tips the helper has frozen.            *)
Ready(m) == {v \in {q.v : q \in {p \in m.pending : p.block = "no"}} :
                v = frozen[Res(v)]}
Candidates == Ready(mem) \ stalled

(* isEligible: what the final scan authorized, could read and left alone.  *)
Eligible(v) ==
    /\ v \in verified /\ Res(v) \notin deferred
    /\ ~Conflict(Read(mem), Res(v))

TakePage(pg) ==
    /\ pc = "page" /\ cursor = "closed" /\ Candidates # {}
    /\ pg \subseteq Candidates
    /\ Cardinality(pg) = PageSize \/ (pg = Candidates /\ Cardinality(pg) < PageSize)
    /\ IF pg \in seenPages
       THEN stalled' = stalled \cup pg /\ UNCHANGED <<pc, seenPages, asked, page>>
       ELSE /\ seenPages' = seenPages \cup {pg} /\ UNCHANGED stalled
            /\ asked' = pg /\ page' = {v \in pg : Eligible(v)} /\ pc' = "database"
    /\ UNCHANGED <<versions, acts, merges, host, disk, mem, mode, frozen, todo, scan, deferred,
                   verified, round, done, faults>>

Drained ==
    /\ pc = "page" /\ Candidates = {} /\ Ends

Outcomes == {"applied", "failed", "skipped"}
Written(r, v) == IF versions[v].hash = Absent /\ r \in Chat
                 THEN local[r] ELSE versions[v].hash

Outcome(out) == [v \in page |-> IF v \in DOMAIN out THEN out[v] ELSE "skipped"]

(* The page's chats, in one transaction.                                   *)
WriteDatabase(out) ==
    LET chats == {v \in page : Res(v) \in Chat}
        in(r) == {v \in chats : Res(v) = r /\ out[v] = "applied"}
    IN  /\ pc = "database" /\ (chats = {} \/ cursor = "closed")
        /\ DOMAIN out = chats
        /\ Faults(\E v \in chats : out[v] # "applied")
        /\ local' = [r \in Resource |->
              IF in(r) = {} THEN local[r] ELSE Written(r, CHOOSE v \in in(r) : TRUE)]
        /\ dirty' = dirty \ {Res(v) : v \in {u \in chats : out[u] = "applied"}}
        /\ done' = Outcome(out)
        /\ todo' = page \ chats /\ pc' = "files"
        /\ UNCHANGED <<versions, acts, merges, cursor, disk, mem, mode, frozen, scan, deferred,
                       verified, round, page, asked, stalled, seenPages>>

WriteFile(v, out) ==
    /\ pc = "files" /\ v \in todo /\ cursor = "closed"
    /\ todo' = todo \ {v} /\ done' = [done EXCEPT ![v] = out]
    /\ Faults(out # "applied")
    /\ IF out = "applied"
       THEN /\ local' = [local EXCEPT ![Res(v)] = versions[v].hash]
            /\ dirty' = dirty \ {Res(v)}
       ELSE UNCHANGED <<local, dirty>>
    /\ UNCHANGED <<versions, acts, merges, cursor, disk, mem, pc, mode, frozen, scan, deferred,
                   verified, round, page, asked, stalled, seenPages>>

(* markAppliedProjections, for one change that was applied.                *)
Marked(p, v) ==
    [At(versions, v) EXCEPT !.kept =
        IF Res(v) \in Chat /\ versions[v].hash = Absent
        THEN IF p.kept # None THEN p.kept ELSE p.hash
        ELSE None]

Applied == {v \in page : done[v] = "applied"}

(* The page is marked and saved; what it leaves ready is stalled.          *)
MarkPage ==
    LET applied == Applied
        R == {Res(v) : v \in applied}
        of(r) == CHOOSE v \in applied : Res(v) = r
        fails == {Res(v) : v \in {u \in page : done[u] = "failed"}}
        m == [mem EXCEPT
                !.proj = [r \in Resource |->
                            IF r \in R THEN Marked(@[r], of(r)) ELSE @[r]],
                !.pending = {IF Res(q.v) \in fails THEN Entry(q.v, "failed") ELSE q :
                                q \in {p \in @ : Res(p.v) \notin R}}]
    IN  /\ pc = "files" /\ todo = {} /\ pc' = "page"
        /\ mem' = m /\ disk' = m
        /\ stalled' = stalled \cup {v \in asked : v \in Ready(m)}
        /\ page' = {} /\ asked' = {} /\ done' = [v \in {} |-> None]
        /\ UNCHANGED <<versions, acts, merges, host, mode, frozen, todo, scan, deferred,
                       verified, round, seenPages, faults>>

-----------------------------------------------------------------------------
HostStep ==
    \/ \E late \in SUBSET Resource, failed \in BOOLEAN, M \in SUBSET Setting :
          \E g \in [M -> Content] : HostScan(late, failed, M, g)
    \/ \E r \in Resource, ok \in BOOLEAN : HostApply(r, ok)
    \/ HostSave

HelperStep ==
    \/ HelperStart
    \/ \E r \in Resource, ok \in BOOLEAN : HelperScan(r, ok)
    \/ HelperExported
    \/ Interrupted
    \/ \E M \in SUBSET Chat : \E g \in [M -> Content] : Settle(M, g)
    \/ Freeze
    \/ \E pg \in SUBSET Candidates : TakePage(pg)
    \/ Drained
    \/ \E out \in [{v \in page : Res(v) \in Chat} -> Outcomes] : WriteDatabase(out)
    \/ \E v \in todo \cap page, out \in Outcomes : WriteFile(v, out)
    \/ MarkPage

UserEdits == \E r \in Resource, c \in Content \cup {Absent} : Edit(r, c)

Next ==
    \/ HostStep
    \/ HelperStep
    \/ UserEdits
    \/ \E r \in Resource, c \in Content \cup {Absent} :
          \E parents \in {{v} : v \in Of(versions, r)} \cup {Tips(versions, r)} :
             PeerPublish(r, c, parents)
    \/ \E m \in {"final", "export"} : CloseCursor(m)
    \/ OpenCursor
    \/ Crash
    \/ \E unfinished \in SUBSET Chat : SyncAndApply(unfinished)

Spec == Init /\ [][Next]_vars

-----------------------------------------------------------------------------
Projections == [v : Nat, hash : Content \cup {Absent, None},
                kept : Content \cup {Absent, None}]
Saved == [proj : [Resource -> Projections],
          pending : SUBSET [v : Nat, block : {"no", "failed", "transient"}],
          seen : Nat]

(* Types, and that every change of a page has an outcome before it is      *)
(* marked.                                                                 *)
TypeOK ==
    /\ \A v \in DOMAIN versions :
          /\ versions[v].res \in Resource /\ versions[v].parents \subseteq 1..(v - 1)
          /\ versions[v].hash \in Content \cup {Absent}
    /\ local \in [Resource -> Content \cup {Absent}]
    /\ cursor \in {"open", "closed"} /\ mode \in {"none", "apply", "final", "export"}
    /\ disk \in Saved /\ mem \in Saved
    /\ mem.seen \in 1..Len(versions) /\ disk.seen <= Len(versions)
    /\ pc \in {"idle", "apply", "scan", "settle", "page", "database", "files"}
    /\ frozen \in [Resource -> 0..Len(versions)]
    /\ scan \in [Resource -> Content \cup {Absent, None}]
    /\ deferred \subseteq Resource /\ page \subseteq asked
    /\ pc = "files" => DOMAIN done = page
    /\ verified \cup asked \cup stalled \subseteq DOMAIN versions
    /\ dirty \subseteq Resource
    /\ round \in 0..2

(* Nothing the user has written is overwritten before the repository has   *)
(* it, whatever was scanned late, failed, or died; the copy kept in spite  *)
(* of a tombstone apart, which is not published on purpose.                *)
NoEditLost ==
    [][~UserEdits => \A r \in Resource : local'[r] # local[r] =>
          \/ \E v \in Of(versions, r) : versions[v].hash = local[r]
          \/ local[r] = mem.proj[r].kept]_vars

(* A projection at rest says what the computer has: a resource not edited  *)
(* since, recorded at the current version, does have its content.          *)
ProjectionTrue ==
    pc = "idle" => \A r \in Resource :
        LET v == disk.proj[r].v
        IN  r \notin dirty /\ v = Active(versions, r)
              => local[r] = versions[v].hash \/ (r \in Chat /\ versions[v].hash = Absent)

(* Another device's deletion of a conversation, which keeps the local copy,*)
(* is not undone by publishing that copy again (CHANGELOG.md:780): only    *)
(* words written since may supersede a tombstone that stands.              *)
DeleteStays ==
    [][\A v \in DOMAIN versions' \ DOMAIN versions :
          LET new == versions'[v]
          IN  new.own /\ ~new.synth /\ new.res \in Chat
              /\ (\E t \in new.parents \cap Tips(versions, new.res) :
                     versions[t].hash = Absent)
              => new.res \in dirty]_vars

(* A device publishes an edit once: no version of its own scan repeats an  *)
(* earlier one, content and parents (CHANGELOG.md:489, 794).               *)
OnePublicationPerEdit ==
    [][\A v \in DOMAIN versions' \ DOMAIN versions :
          LET new == versions'[v]
          IN  new.own /\ ~new.synth => ~\E u \in DOMAIN versions : versions[u] = new]_vars

(* Everything received is, in the end, on this computer, in conflict, or   *)
(* blocked with a reason.                                                  *)
Settled(r) ==
    LET v == Active(versions, r)
    IN  \/ v = 0 \/ local[r] = versions[v].hash
        \/ r \in Chat /\ versions[v].hash = Absent
        \/ \E q \in disk.pending : q.v = v /\ q.block # "no"

Converges == <>[](\A r \in Resource : Settled(r))

(* Cycles are polled, the user sometimes closes Cursor for long enough that*)
(* the finalizer gets to work, and opens it again.                         *)
LiveSpec ==
    /\ Spec
    /\ SF_vars(HelperStart /\ mode = "final") /\ WF_vars(HelperStep)
    /\ WF_vars(HostSave) /\ WF_vars(\E r \in Resource : HostApply(r, TRUE))
    /\ SF_vars(HostScan({}, FALSE, {}, <<>>))
    /\ SF_vars(CloseCursor("final")) /\ WF_vars(OpenCursor /\ pc = "idle")
=============================================================================
