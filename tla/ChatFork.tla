------------------------------- MODULE ChatFork -------------------------------
(***************************************************************************)
(* Forks of one conversation between two devices: how they are resolved    *)
(* (src/src/chat/conflictResolution.ts, chatMerge.ts), completed           *)
(* (enrichment.ts), and kept resolvable when history is folded into a      *)
(* checkpoint and pruned (checkpointSafety.ts, repository.ts).             *)
(*                                                                         *)
(* A conversation is the messages it shows in order (shape), its state     *)
(* (body), and what of the continuation came with it: the bodies that can  *)
(* go on (blobs).  An older format carries none.  Every edit is known by   *)
(* its number.  A version made of others stands for what a user wrote at   *)
(* another time: its ordering is that original one.                        *)
(***************************************************************************)
EXTENDS Versions, SequencesExt

CONSTANTS
    None,
    MaxEdits

VARIABLES
    local,       \* local[d]: the conversation in d's Cursor
    at,          \* at[d]: d's projection: a version and the conversation it is for
    edits,
    plan,        \* plan[d]: the tip an enrichment is being made from, or 0
    checkpoint,  \* the version in the newest checkpoint, with its ordering
    pruned       \* versions whose record is gone

vars == <<log, seen, local, at, edits, plan, checkpoint, pruned>>
history == <<checkpoint, pruned>>

Core(c) == [shape |-> c.shape, body |-> c.body]
Full(core, blobs) == [shape |-> core.shape, body |-> core.body, blobs |-> blobs]
Complete(c) == c.body \in c.blobs        \* verifyPortableChatContinuationClosure

Scanned == [type |-> "scan", from |-> 0, origin |-> None]
Resolved(o) == [type |-> "merge", from |-> 0, origin |-> o]
Enriched(v) == [type |-> "enrich", from |-> v, origin |-> log[v].how.origin]

(* Both have the conversation, from a version they share.                  *)
Init ==
    LET first == [shape |-> <<1>>, body |-> 1] IN
    /\ \E blobs \in {{}, {1}} :
          log = <<[by |-> 1, content |-> Full(first, blobs), how |-> Scanned, parents |-> {},
                   past |-> {}, lamport |-> 1]>>
    /\ seen = [d \in Device |-> {1}]
    /\ local = [d \in Device |-> first]
    /\ at = [d \in Device |-> [v |-> 1, core |-> first]]
    /\ edits = 1 /\ plan = [d \in Device |-> 0]
    /\ checkpoint = None /\ pruned = {}

-----------------------------------------------------------------------------
(* Which of two conversations is the later one.                            *)

Own(v) == [lamport |-> log[v].lamport, by |-> log[v].by]
Later(o, p) == o.lamport > p.lamport \/ (o.lamport = p.lamport /\ o.by > p.by)
Recorded(v) == v \notin pruned \/ (checkpoint # None /\ checkpoint.v = v)

(* originalOrdering: what is stored, or that of the version it was made    *)
(* from; None where that one's record is gone.                             *)
FaultyOrigin(v) == Own(v)
Origin(v) ==
    CASE log[v].how.origin # None -> log[v].how.origin
      [] checkpoint # None /\ checkpoint.v = v /\ v \in pruned -> checkpoint.origin
      [] log[v].how.type = "enrich" ->
            IF Recorded(log[v].how.from) THEN Own(log[v].how.from) ELSE None
      [] OTHER -> Own(v)

-----------------------------------------------------------------------------
(* Two conversations, merged (mergeChatBuffers).                           *)

(* electCompatibleCore: whose state and order are kept.                    *)
Elected(base, a, b) ==
    LET extended(short, long) == IsStrictPrefix(short.shape, long.shape)
        changed == IF a.body = base.body THEN b ELSE a
    IN  CASE a.body = b.body -> IF Core(a) = Core(b) /\ a.blobs = {} THEN b ELSE a
          [] a.body # b.body /\ base # None /\ base.body \in {a.body, b.body} ->
                IF IsPrefix(base.shape, changed.shape) THEN changed ELSE None
          [] OTHER ->
                IF extended(a, b) THEN b
                ELSE IF extended(b, a) THEN a ELSE None

Merged(base, a, b) ==
    LET all == IF base = None THEN {a, b} ELSE {base, a, b}
        winner == Elected(base, a, b)
    IN  IF winner = None THEN None
        ELSE [shape |-> winner.shape, body |-> winner.body,
              blobs |-> IF winner.blobs = {} THEN {} ELSE UNION {c.blobs : c \in all}]

-----------------------------------------------------------------------------
(* prepareChatConflictResolution.                                          *)

(* One tip of each content, the newest first by its original ordering.     *)
Candidates(T) ==
    LET distinct == {v \in T : \A u \in T \ {v} : content(u) = content(v) => Before(v, u)}
    IN  SetToSortSeq(distinct, LAMBDA u, v :
            IF Origin(u) = Origin(v) THEN Before(u, v) ELSE Later(Origin(u), Origin(v)))

MergedAll(base, cands) ==
    FoldLeft(LAMBDA c, v : IF c = None THEN None ELSE Merged(base, c, content(v)),
             content(Head(cands)), Tail(cands))

(* attempt: the payloads are all here, fit the work limits, and no message *)
(* differs on both sides.  Else the latest one stands as it is.            *)
Resolution(T, attempt) ==
    LET cands == Candidates(T)
        latest == Head(cands)
        base == IF Common(T) = {} THEN None ELSE content(Newest(Common(T)))
        merged == IF attempt THEN MergedAll(base, cands) ELSE None
        exact == {v \in Range(cands) : merged = content(v)}
        accepted == /\ merged # None
                    /\ \/ Complete(merged)
                       \/ /\ exact # {} /\ merged.blobs # {}
                          /\ Core(merged) = Core(content(latest))
        completed == Full(content(latest), UNION {content(v).blobs : v \in T})
    IN  IF accepted
        THEN [content |-> merged,
              origin |-> Origin(IF exact = {} THEN latest ELSE CHOOSE v \in exact : TRUE)]
        ELSE [content |-> IF attempt /\ Complete(completed) THEN completed ELSE content(latest),
              origin |-> Origin(latest)]

(* autoMergeConflicts while Cursor runs, mergeOfflineChatConflicts after.  *)
Resolve(d, attempt) ==
    LET T == Tips(seen[d])
        r == Resolution(T, attempt)
    IN  /\ Conflict(T) /\ \A v \in T : Origin(v) # None
        /\ attempt => \A v \in Common(T) : v = Newest(Common(T)) => v \notin pruned
        /\ publish(d, r.content, T, Resolved(r.origin))
        /\ UNCHANGED <<local, at, edits, plan, history>>

-----------------------------------------------------------------------------
(* A tip without its continuation is completed by a device that has it     *)
(* (planChatTipEnrichment, then the tips are looked at again).             *)

StartEnrichment(d) ==
    LET v == Active(d) IN
    /\ plan[d] = 0 /\ Tips(seen[d]) = {v} /\ ~Complete(content(v))
    /\ local[d].body = content(v).body
    /\ plan' = [plan EXCEPT ![d] = v]
    /\ UNCHANGED <<log, seen, local, at, edits, history>>

Enrich(d) ==
    LET v == plan[d] IN
    /\ v # 0 /\ plan' = [plan EXCEPT ![d] = 0]
    /\ IF Tips(seen[d]) = {v}
       THEN publish(d, Full(content(v), content(v).blobs \cup {content(v).body}), {v}, Enriched(v))
       ELSE UNCHANGED <<log, seen>>
    /\ UNCHANGED <<local, at, edits, history>>

-----------------------------------------------------------------------------
(* History.                                                                *)

(* createCheckpoint: no conflict is open; the original ordering is put in. *)
Checkpoint(d) ==
    LET v == Active(d) IN
    /\ v # 0 /\ checkpoint = None
    /\ checkpoint' = [v |-> v, origin |-> Origin(v)]
    /\ UNCHANGED <<log, seen, local, at, edits, plan, pruned>>

(* hasIndependentChatOrdering: what is asked of every tip before anything  *)
(* is deleted.                                                             *)
Independent(v) ==
    \/ log[v].how.origin # None \/ log[v].how.type = "scan"
    \/ checkpoint.v = v /\ checkpoint.origin # None

(* pruneHistory, for this chat, when every device has read the checkpoint  *)
(* and (its age gate) what was published has arrived.  A chat is spared    *)
(* that is in conflict, or depends on what would go.                       *)
Prune(d) ==
    /\ checkpoint # None /\ pruned = {}
    /\ seen[d] = DOMAIN log /\ \A e \in Device : log[checkpoint.v].past \cup {checkpoint.v} \subseteq seen[e]
    /\ ~Conflict(Tips(seen[d]))
    /\ \A v \in Tips(seen[d]) \cup {checkpoint.v} : Independent(v) /\ Complete(content(v))
    /\ pruned' = log[checkpoint.v].past \cup {checkpoint.v}
    /\ UNCHANGED <<log, seen, local, at, edits, plan, checkpoint>>

-----------------------------------------------------------------------------
(* One device.                                                             *)

Receive(d) == Accept(d) /\ UNCHANGED <<local, at, edits, plan, history>>

(* A message is sent; one is rewritten, with all after it; or the state    *)
(* alone moves on.                                                         *)
Edited(c, e) ==
    {[shape |-> Append(c.shape, e), body |-> e],
     [shape |-> Append(Front(c.shape), e), body |-> e],
     [c EXCEPT !.body = e]}

(* parentsForLocalChange, parentsWithOwnConflictTips                       *)
Parents(d, T) ==
    {at[d].v} \cup {t \in T : Conflict(T) /\ log[t].by = d}

(* What was written since the last scan is published, with the continuation*)
(* or without.  The projection follows when nothing is left aside.         *)
Scan(d) ==
    LET T == Tips(seen[d]) IN
    /\ edits < MaxEdits /\ edits' = edits + 1
    /\ \E core \in Edited(local[d], edits + 1) :
          /\ \E blobs \in {{}, {core.body}} :
                publish(d, Full(core, blobs), Parents(d, T), Scanned)
          /\ local' = [local EXCEPT ![d] = core]
          /\ at' = IF T \subseteq Parents(d, T)
                   THEN [at EXCEPT ![d] = [v |-> Len(log) + 1, core |-> core]] ELSE at
    /\ UNCHANGED <<plan, history>>

(* The helper writes a conversation that can go on, over an unchanged one. *)
Apply(d) ==
    LET a == Active(d) IN
    /\ a # 0 /\ at[d].v # a /\ Complete(content(a))
    /\ local[d] \in {at[d].core, Core(content(a))}
    /\ local' = [local EXCEPT ![d] = Core(content(a))]
    /\ at' = [at EXCEPT ![d] = [v |-> a, core |-> Core(content(a))]]
    /\ UNCHANGED <<log, seen, edits, plan, history>>

Next ==
    \E d \in Device :
        \/ Receive(d) \/ Scan(d) \/ Apply(d)
        \/ \E attempt \in BOOLEAN : Resolve(d, attempt)
        \/ StartEnrichment(d) \/ Enrich(d)
        \/ Checkpoint(d) \/ Prune(d)

Spec == Init /\ [][Next]_vars

-----------------------------------------------------------------------------
Written == {v \in DOMAIN log : log[v].how.type = "scan"}

(* Where no fork is left, the conversation shows all that its latest       *)
(* writer saw: neither a later merge of earlier messages nor a version     *)
(* completed in the meantime takes its place (prepareChatConflictResolution). *)
LatestIsShown ==
    \A v \in Tips(DOMAIN log) :
        ~Conflict(Tips(DOMAIN log)) =>
            LET past == (log[v].past \cup {v}) \cap Written
                latest == CHOOSE u \in past : \A w \in past \ {u} : Later(Own(u), Own(w))
            IN  IsPrefix(content(latest).shape, content(v).shape)

(* The ordering a fork is resolved by is known for ever: pruning leaves    *)
(* none that waits for a version that is gone (inspectChatCheckpointSafety). *)
OriginsAreKnown == \A v \in Tips(DOMAIN log) : Origin(v) # None
=============================================================================
