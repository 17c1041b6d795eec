----------------------------- MODULE ChatRepair -----------------------------
(***************************************************************************)
(* A chat whose messages Cursor has lost, and how it is made whole again:  *)
(* the repair command of manager.ts plans over the history of the chat     *)
(* while the user decides, publishes a version of its own, and helper/     *)
(* database.ts applies that version, and the enrichments of enrichment.ts, *)
(* to what each device has by then.                                        *)
(*                                                                         *)
(* A chat is its rows, by key, and its references: what composerData says  *)
(* the conversation shows.  A row that nothing refers to is inert.  A row  *)
(* is absent, unreadable, or has a value; a value is a number, and no two  *)
(* changes write the same.  Continuation blobs are content addressed.      *)
(*                                                                         *)
(* The versions of the chat form a line: a device publishes an edit only   *)
(* over what it has applied.  Forks are ContentMerge's and ChatFork's.     *)
(***************************************************************************)
EXTENDS Naturals, Sequences, FiniteSets

CONSTANTS Devices, None, Keys, Blobs,
          MaxChanges, MaxFaults, MaxVersions   \* bounds

VARIABLES
    rows, refs, blobs,   \* by device: the chat in Cursor's database
    proj, core,          \* the version applied; the core remembered as settled
    versions,            \* published, oldest first
    plan,                \* by device: a repair waiting for the user
    changes, faults

vars == <<rows, refs, blobs, proj, core, versions, plan, changes, faults>>
chat == <<rows, refs, blobs>>

Absent == 0
Unreadable == 1
Nothing == [k \in Keys |-> Absent]
Usable(v) == v > Unreadable
Present(r) == {k \in Keys : r[k] # Absent}
Tip == Len(versions)
Said == 1 + Cardinality(Keys)   \* the values of the first version are below

Core(v) == [rows |-> v.rows, refs |-> v.refs]
Local(d) == [rows |-> rows[d], refs |-> refs[d]]
Gone(d) == Local(d) = [rows |-> Nothing, refs |-> {}]
\* auditChatReferences: what is shown and cannot be, and what was looked at.
Unavailable(v) == {k \in v.refs : ~Usable(v.rows[k])}
fingerprint(d) == [refs |-> refs[d], rows |-> [k \in refs[d] |-> rows[d][k]]]

Version(v, b, kind, origin, fp) ==
    [rows |-> v.rows, refs |-> v.refs, blobs |-> b, kind |-> kind,
     origin |-> origin, fingerprint |-> fp]

\* A few messages, known to every device or to one; each device has a blob of its own.
Init ==
    \E n \in Keys :
    LET first == [rows |-> [k \in Keys |-> IF k <= n THEN 1 + k ELSE Absent], refs |-> 1..n]
    IN  /\ proj \in [Devices -> {0, 1}]
        /\ rows = [d \in Devices |-> IF proj[d] = 1 THEN first.rows ELSE Nothing]
        /\ refs = [d \in Devices |-> IF proj[d] = 1 THEN first.refs ELSE {}]
        /\ blobs \in [Devices -> {{b} : b \in Blobs}]
        /\ core = [d \in Devices |-> IF proj[d] = 1 THEN first ELSE None]
        /\ \E d \in Devices :
              proj[d] = 1 /\ versions = <<Version(first, blobs[d], "put", d, None)>>
        /\ plan = [d \in Devices |-> None]
        /\ changes = Said /\ faults = 0

-----------------------------------------------------------------------------
(* What Cursor does to the chat.                                           *)

Change == changes < Said + MaxChanges /\ changes' = changes + 1
Fault == faults < MaxFaults /\ faults' = faults + 1
Put(d, k, v) == rows' = [rows EXCEPT ![d][k] = v]

Say(d) ==
    /\ Change /\ ~Gone(d)
    /\ \E k \in Keys : rows[d][k] = Absent /\ k \notin refs[d] /\ Put(d, k, changes')
                       /\ refs' = [refs EXCEPT ![d] = @ \cup {k}]
    /\ UNCHANGED <<blobs, proj, core, versions, plan, faults>>

Rewrite(d) ==   \* an answer that goes on
    /\ Change /\ \E k \in refs[d] : Put(d, k, changes')
    /\ UNCHANGED <<refs, blobs, proj, core, versions, plan, faults>>

Lose(d) ==
    /\ Fault /\ \E k \in Present(rows[d]), v \in {Absent, Unreadable} :
                   rows[d][k] # v /\ Put(d, k, v)
    /\ UNCHANGED <<refs, blobs, proj, core, versions, plan, changes>>

-----------------------------------------------------------------------------
(* The scan of a cycle: what is settled, what a device keeps to itself     *)
(* because it has lost messages, and what it publishes.                    *)

Settled(d) == core[d] = Local(d)
Pruned(d) == proj[d] # 0
             /\ Cardinality(Present(rows[d])) < Cardinality(Present(versions[proj[d]].rows))
WouldCapture(d) == ~Gone(d) /\ ~Settled(d) /\ ~Pruned(d)

Publish(v) == Tip < MaxVersions /\ versions' = Append(versions, v)

Capture(d) ==
    /\ WouldCapture(d) /\ proj[d] = Tip
    /\ core' = [core EXCEPT ![d] = Local(d)]
    /\ IF Local(d) = Core(versions[Tip])
       THEN UNCHANGED <<versions, proj>>
       ELSE /\ Publish(Version(Local(d), blobs[d], "put", d, None))
            /\ proj' = [proj EXCEPT ![d] = Tip + 1]
    /\ UNCHANGED <<chat, plan, changes, faults>>

(* A device with blobs that the tip lacks adds them, whatever of the chat  *)
(* it has itself; with all of them it is an ordinary version again.        *)
tipNeedsAgentKvEnrichment(tip) == tip.kind # "repair" /\ tip.blobs # Blobs
collectLiveAgentKv(d, tip) == tip.blobs \cup blobs[d]
plannedEnrichment(d, tip, all) ==
    Version(tip, all, IF all = Blobs THEN "put" ELSE "enrich", d, None)

Enrich(d) ==
    LET tip == versions[Tip]
        all == collectLiveAgentKv(d, tip)
    IN  /\ tipNeedsAgentKvEnrichment(tip) /\ all # tip.blobs /\ Unavailable(tip) = {}
        /\ Publish(plannedEnrichment(d, tip, all))
        /\ UNCHANGED <<chat, proj, core, plan, changes, faults>>

-----------------------------------------------------------------------------
(* The repair command.  It plans over the tip under the lock, and walks    *)
(* the history and asks outside of it.                                     *)

Carries(i, keys) == \A k \in keys : Usable(versions[i].rows[k])

\* The newest version that carries every lost message, unless a newer one
\* carries another value of one.
Sources(keys) == {i \in 1..Tip : Carries(i, keys) /\ \A j \in i+1..Tip : ~Carries(j, keys)}
Agree(i, keys) ==
    \A j \in i+1..Tip, k \in keys :
        Usable(versions[j].rows[k]) => versions[j].rows[k] = versions[i].rows[k]

Lost(d) == Unavailable(Local(d))
alreadyQueued(d) == versions[Tip].kind = "repair" /\ versions[Tip].fingerprint = fingerprint(d)

Plan(d) ==
    LET lost == Lost(d) IN
    /\ plan[d] = None /\ lost # {} /\ ~alreadyQueued(d)
    /\ \E i \in Sources(lost) :
          /\ Agree(i, lost)
          /\ plan' = [plan EXCEPT ![d] = [tip |-> Tip, source |-> i, fingerprint |-> fingerprint(d),
                                          fresh |-> None]]
    /\ UNCHANGED <<chat, proj, core, versions, changes, faults>>

Discard(d) ==   \* the user declines, or the chat or the tip is another by now
    /\ plan[d] # None /\ plan' = [plan EXCEPT ![d] = None]
    /\ UNCHANGED <<chat, proj, core, versions, changes, faults>>

\* The user agreed: the chat is inspected again, before the lock is taken.
Reinspect(d) ==
    /\ plan[d] # None /\ plan[d].fresh = None /\ fingerprint(d) = plan[d].fingerprint
    /\ plan' = [plan EXCEPT ![d].fresh = Local(d)]
    /\ UNCHANGED <<chat, proj, core, versions, changes, faults>>

(* The rows of the local chat that can be read; else the newest that can   *)
(* be read, of the source and what is newer; else one that cannot.         *)
FaultyRepairSnapshot(local, source) ==   \* nothing newer than the source
    [rows |-> [k \in Keys |-> IF Usable(local.rows[k]) THEN local.rows[k]
                              ELSE versions[source].rows[k]],
     refs |-> local.refs]
NewestUsable(stored, k) == versions[CHOOSE i \in stored : \A j \in stored : j <= i].rows[k]
buildChatRepairSnapshot(local, source) ==
    LET stored(k) == {i \in source..Tip : Usable(versions[i].rows[k])}
        value(k) ==
            IF Usable(local.rows[k]) THEN local.rows[k]
            ELSE IF stored(k) # {} THEN NewestUsable(stored(k), k)
            ELSE IF local.rows[k] # Absent \/ \E i \in source..Tip : versions[i].rows[k] # Absent
            THEN Unreadable ELSE Absent
    IN  [rows |-> [k \in Keys |-> value(k)], refs |-> local.refs]

PublishRepair(d) ==
    LET p == plan[d] IN
    /\ p # None /\ p.fresh # None /\ p.tip = Tip
    /\ Publish(Version(buildChatRepairSnapshot(p.fresh, p.source),
                       UNION {versions[i].blobs : i \in p.source..Tip}, "repair", d, p.fingerprint))
    /\ plan' = [plan EXCEPT ![d] = None]
    /\ UNCHANGED <<chat, proj, core, changes, faults>>

-----------------------------------------------------------------------------
(* The helper applies the tip, in a savepoint: a change that is refused    *)
(* changes nothing and stays queued.                                       *)

\* Only a core that equals the source's is safe to remember.
FaultyLocalCoreHash(local, source) == local
localChatCoreHash(local, source) == IF local = source THEN source ELSE None

Applied(d, v, newRows, newRefs, hash) ==
    /\ rows' = [rows EXCEPT ![d] = newRows] /\ refs' = [refs EXCEPT ![d] = newRefs]
    /\ blobs' = [blobs EXCEPT ![d] = @ \cup v.blobs]
    /\ proj' = [proj EXCEPT ![d] = Tip] /\ core' = [core EXCEPT ![d] = hash]
    /\ UNCHANGED <<versions, plan, changes, faults>>

\* Rows of the first, and of the second where the first has none.
Over(r, s) == [k \in Keys |-> IF r[k] # Absent THEN r[k] ELSE s[k]]

Queued(d, kind) == proj[d] < Tip /\ versions[Tip].kind = kind

upsertChat(d) ==
    LET v == versions[Tip] IN
    /\ Queued(d, "put") /\ Unavailable(v) = {}
    /\ WouldCapture(d) => Local(d) = Core(v)
    /\ Applied(d, v, Over(v.rows, rows[d]), v.refs, Core(v))

applyAgentKvEnrichment(d) ==
    LET v == versions[Tip] IN
    /\ Queued(d, "enrich")
    /\ Applied(d, v, rows[d], refs[d], localChatCoreHash(Local(d), Core(v)))

(* A repair where there is no chat at all: not where it was planned.       *)
Materialize(d) ==
    LET v == versions[Tip] IN
    /\ Queued(d, "repair") /\ Gone(d) /\ v.origin # d
    /\ Applied(d, v, v.rows, v.refs, Core(v))

(* Where the chat is whole, the rows it does not have, if it shows the     *)
(* same.                                                                   *)
RetainComplete(d) ==
    LET v == versions[Tip]
        added == IF refs[d] = v.refs THEN Over(rows[d], v.rows) ELSE rows[d]
    IN  /\ Queued(d, "repair") /\ ~Gone(d) /\ Unavailable(Local(d)) = {}
        /\ Applied(d, v, added, refs[d],
                   localChatCoreHash([rows |-> added, refs |-> refs[d]], Core(v)))

(* Where it is not: the rows that a fresh audit finds unavailable are      *)
(* replaced, and no other.                                                 *)
FaultyRepaired(local, v) == Over(v.rows, local.rows)
repairedRows(local, v) ==
    [k \in Keys |-> IF k \in Unavailable(local) \/ local.rows[k] = Absent
                    THEN v.rows[k] ELSE local.rows[k]]

repairUnavailableChatBubbles(d) ==
    LET v == versions[Tip]
        repaired == [rows |-> repairedRows(Local(d), v), refs |-> refs[d]]
    IN  /\ Queued(d, "repair") /\ Unavailable(Local(d)) # {}
        /\ v.origin = d => fingerprint(d) = v.fingerprint
        /\ refs[d] = v.refs
        /\ Unavailable(repaired) = {}
        /\ Applied(d, v, repaired.rows, repaired.refs, localChatCoreHash(repaired, Core(v)))

Next ==
    \E d \in Devices :
        \/ Say(d) \/ Rewrite(d) \/ Lose(d) \/ Capture(d) \/ Enrich(d)
        \/ Plan(d) \/ Discard(d) \/ Reinspect(d) \/ PublishRepair(d)
        \/ upsertChat(d) \/ applyAgentKvEnrichment(d)
        \/ Materialize(d) \/ RetainComplete(d) \/ repairUnavailableChatBubbles(d)

Spec == Init /\ [][Next]_vars

-----------------------------------------------------------------------------
(* A repair or an enrichment hides nothing and changes nothing that the    *)
(* device can show (database.ts:1854, "A valid row is never overwritten by *)
(* this path"), however much was said since it was planned.                *)
RepairHidesNothing ==
    [][\A d \in Devices :
          proj'[d] # proj[d] /\ versions'[proj'[d]].kind \in {"repair", "enrich"}
          => \A k \in refs[d] : Usable(rows[d][k])
                                => k \in refs'[d] /\ rows'[d][k] = rows[d][k]]_vars

(* What a device takes for settled, and will not look at again, is what    *)
(* was published: a divergence that a repair or an enrichment left is not. *)
SettledIsPublished ==
    \A d \in Devices : Settled(d) => \E i \in 1..Tip : Core(versions[i]) = Local(d)

(* A repair is a whole conversation, and still carries every message that  *)
(* can be read in the version it replaces, shown or not: a new peer may    *)
(* refer to it (repair.ts:2369).                                           *)
RepairIsWhole ==
    \A i \in 2..Tip : versions[i].kind = "repair"
        => /\ Unavailable(versions[i]) = {}
           /\ \A k \in Keys : Usable(versions[i-1].rows[k]) => Usable(versions[i].rows[k])

(* What the version shows that a repair replaces, the repair shows.  It    *)
(* does not hold: a device repairs the chat as it has it, which need not   *)
(* be the tip it publishes over.                                           *)
RepairIsAdditive ==
    \A i \in 2..Tip : versions[i].kind = "repair" => versions[i-1].refs \subseteq versions[i].refs
=============================================================================
