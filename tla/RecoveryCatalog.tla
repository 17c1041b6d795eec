-------------------------- MODULE RecoveryCatalog --------------------------
(***************************************************************************)
(* Chats whose messages can be read and whose continuation data is lost:   *)
(* the catalog in which their text is preserved, built page by page while  *)
(* Cursor goes on writing (manager.ts, repair.ts, recoveryCatalog.ts), and *)
(* the opening of one of its entries in a new Agent.                       *)
(*                                                                         *)
(* A chat has a core, what it shows, and a damage, what its continuation   *)
(* lacks; both are numbers, and 0 is no damage.  Some chats cannot be      *)
(* read within the limits, of some the visible messages are lost too, and  *)
(* each costs a number of probes.  Nothing here writes to Cursor.          *)
(***************************************************************************)
EXTENDS Naturals, Sequences, FiniteSets

CONSTANTS
    None,
    N,             \* chats 1..N, in the order of their keys
    MaxRetained, MaxChats, MaxProbes,   \* a page: observations, chats, probes
    MaxEntries, MaxFiles,               \* the catalog
    MaxCost, MaxChanges, MaxFaults      \* bounds

Chat == 1..N

VARIABLES
    db, kind, cost, \* Cursor's chats; what they are to the reader
    catalog, files, \* the manifest; the artifacts on disk, by chat and core
    at, changed,    \* the build; the database is another since it began
    snap, pos, last, examined, probed, broken, full,   \* a page: its transaction
    told,           \* chats the build has counted
    input,          \* the entry being made
    opening,        \* an entry chosen to be opened
    changes, faults

page == <<snap, pos, last, examined, probed, broken, full>>
build == <<at, changed, page, told, input>>
vars == <<db, kind, cost, catalog, files, build, opening, changes, faults>>

EmptyPage == /\ pos' = last' /\ examined' = 0 /\ probed' = 0 /\ broken' = <<>> /\ full' = FALSE
Content(core, damage) == [core |-> core, damage |-> damage]
Ready == {c \in Chat : catalog[c] # None /\ catalog[c].status = "ready"}
Intact(c) == <<c, catalog[c].core>> \in files
Of(c) == Content(catalog[c].core, catalog[c].damage)

AllBut(c, usual, v) == [e \in Chat |-> IF e = c THEN v ELSE usual]

Init ==
    /\ db \in [Chat -> {Content(0, 0), Content(0, 1)}]
    /\ \E c \in Chat, k \in {"readable", "unknown", "bodyless"}, n \in 1..MaxCost :
          /\ k = "readable" \/ n = 1
          /\ kind = AllBut(c, "readable", k) /\ cost = AllBut(c, 1, n)
    /\ catalog = [c \in Chat |-> None] /\ files = {}
    /\ at = "idle" /\ changed = FALSE /\ snap = None
    /\ pos = 0 /\ last = 0 /\ examined = 0 /\ probed = 0 /\ broken = <<>> /\ full = FALSE
    /\ told = {} /\ input = None /\ opening = None
    /\ changes = 1 /\ faults = 0

-----------------------------------------------------------------------------
(* Cursor, and the user.                                                   *)

Change(c, v, k) ==
    /\ changes <= MaxChanges /\ changes' = changes + 1
    /\ v # db[c] /\ db' = [db EXCEPT ![c] = v] /\ kind' = [kind EXCEPT ![c] = k]
    /\ changed' = (at # "idle")
    /\ UNCHANGED <<cost, catalog, files, at, page, told, input, opening, faults>>

CursorWrites ==   \* the chat is deleted or goes on, or loses more, or its text too
    \E c \in Chat :
        \/ \E v \in {None, Content(changes, 0)} : Change(c, v, kind[c])
        \/ db[c] # None /\ \E m \in {0, changes + 1} :
                              Change(c, Content(db[c].core, m), kind[c])
        \/ db[c] # None /\ Change(c, Content(changes, changes + 1), "bodyless")

LosesFile ==
    /\ faults < MaxFaults /\ faults' = faults + 1
    /\ \E f \in files : files' = files \ {f}
    /\ UNCHANGED <<db, kind, cost, catalog, build, opening, changes>>

-----------------------------------------------------------------------------
(* The audit of a page, in one read transaction.                           *)

BeginBuild ==   \* under the build lock: one at a time
    /\ at = "idle" /\ at' = "page" /\ changed' = FALSE /\ told' = {}
    /\ last' = 0 /\ EmptyPage /\ snap' = db
    /\ UNCHANGED <<db, kind, cost, catalog, files, input, opening, changes, faults>>

Following == {c \in Chat : c > pos /\ snap[c] # None}
Row == CHOOSE c \in Following : \A e \in Following : c <= e

\* The page stops before this chat: it is the first of the next page.
FaultyLeaveForNextPage == last' = Row
LeaveForNextPage == UNCHANGED last
Consume(c) == last' = c
\* Probing its roots takes more than is left of the page's budget.
TooMany(c) == cost[c] > MaxProbes - probed

Examine ==
    /\ at = "page" /\ Following # {}
    /\ LET c == Row
           damaged == snap[c].damage # 0
           stop == at' = "observe" /\ full' = TRUE /\ UNCHANGED <<pos, examined, probed, broken, told>>
       IN  IF examined >= MaxChats THEN stop /\ LeaveForNextPage
           ELSE IF kind[c] = "unknown"
           THEN /\ Consume(c) /\ pos' = c /\ examined' = examined + 1 /\ told' = told \cup {c}
                /\ UNCHANGED <<at, full, probed, broken>>
           ELSE IF TooMany(c)
           THEN IF probed > 0 THEN stop /\ LeaveForNextPage
                ELSE \* too much even for a page of its own
                     /\ Consume(c) /\ pos' = c /\ examined' = examined + 1 /\ told' = told \cup {c}
                     /\ at' = "observe" /\ full' = TRUE /\ UNCHANGED <<probed, broken>>
           ELSE IF damaged /\ Len(broken) >= MaxRetained THEN stop /\ LeaveForNextPage
           ELSE /\ Consume(c) /\ pos' = c /\ examined' = examined + 1 /\ probed' = probed + cost[c]
                /\ broken' = IF damaged
                             THEN Append(broken, [chat |-> c, content |-> snap[c]]) ELSE broken
                /\ UNCHANGED <<at, full, told>>
    /\ UNCHANGED <<db, kind, cost, catalog, files, changed, snap, input, opening, changes, faults>>

WalkEnds ==
    /\ at = "page" /\ Following = {} /\ at' = "observe"
    /\ UNCHANGED <<db, kind, cost, catalog, files, changed, page, told, input, opening, changes, faults>>

NextPage ==   \* resumeAfter
    /\ at = "observe" /\ broken = <<>> /\ full
    /\ at' = "page" /\ UNCHANGED last /\ EmptyPage /\ snap' = db
    /\ UNCHANGED <<db, kind, cost, catalog, files, changed, told, input, opening, changes, faults>>

Ends(how) ==
    /\ at' = how /\ input' = None
    /\ UNCHANGED <<db, kind, cost, catalog, files, changed, page, told, opening, changes, faults>>

Finish ==
    /\ at = "observe" /\ broken = <<>> /\ ~full
    /\ Ends(IF changed THEN "incomplete" ELSE "complete")

Cancel == at \in {"page", "observe"} /\ Ends("cancelled")
Crash == at \in {"recheck", "write", "upsert"} /\ faults < MaxFaults /\ Ends("cancelled")

Forget == at \in {"complete", "incomplete", "cancelled"} /\ Ends("idle")

-----------------------------------------------------------------------------
(* An observation of the page becomes an entry.                            *)

Observed == Head(broken)
Entry(status) == [status |-> status, core |-> Observed.content.core,
                  damage |-> Observed.content.damage]
\* extractVisibleChatRecoveryTranscript, in a transaction of its own
Extraction(c) ==
    IF db[c] = None THEN "unknown"
    ELSE IF db[c].core # Observed.content.core THEN "changed"
    ELSE IF kind[c] = "bodyless" THEN "skipped-body" ELSE "ready"
AtQuota(c) ==
    \/ catalog[c] = None /\ Cardinality({e \in Chat : catalog[e] # None}) >= MaxEntries
    \/ c \notin Ready /\ Cardinality(Ready) >= MaxEntries

Observe ==
    /\ at = "observe" /\ broken # <<>>
    /\ LET c == Observed.chat IN
         IF c \in Ready /\ Intact(c) /\ Of(c) = Observed.content
         THEN broken' = Tail(broken) /\ told' = told \cup {c} /\ UNCHANGED <<at, input>>
         ELSE IF AtQuota(c) THEN at' = "incomplete" /\ input' = None /\ UNCHANGED <<broken, told>>
         ELSE /\ input' = [entry |-> Entry(Extraction(c)), verified |-> c \in Ready /\ Intact(c)]
              /\ at' = (IF Extraction(c) = "ready" THEN "recheck" ELSE "upsert")
              /\ UNCHANGED <<broken, told>>
    /\ UNCHANGED <<db, kind, cost, catalog, files, changed, snap, pos, last, examined, probed, full,
                   opening, changes, faults>>

Recheck ==
    /\ at = "recheck"
    /\ IF db[Observed.chat] = Observed.content THEN at' = "write" /\ UNCHANGED input
       ELSE at' = "upsert" /\ input' = [input EXCEPT !.entry = Entry("changed")]
    /\ UNCHANGED <<db, kind, cost, catalog, files, changed, page, told, opening, changes, faults>>

\* Room is reserved before the first byte is written; an entry whose files
\* were found corrupt, and cannot be made again, is no longer ready.
Write ==
    /\ at = "write"
    /\ LET f == <<Observed.chat, Observed.content.core>>
           corrupt == Observed.chat \in Ready /\ ~input.verified
       IN  IF Cardinality(files) >= MaxFiles
           THEN /\ at' = "incomplete" /\ input' = None /\ UNCHANGED files
                /\ catalog' = IF corrupt THEN [catalog EXCEPT ![Observed.chat] = Entry("skipped-limit")]
                              ELSE catalog
           ELSE files' = files \cup {f} /\ at' = "upsert" /\ UNCHANGED <<input, catalog>>
    /\ UNCHANGED <<db, kind, cost, changed, page, told, opening, changes, faults>>

FaultyRetains == FALSE
Retains == input.verified /\ input.entry.status # "ready"

Materialized == input.entry.status = "ready" => <<Observed.chat, input.entry.core>> \in files
UpsertFails == at = "upsert" /\ ~Materialized /\ Ends("cancelled")

Upsert ==
    /\ at = "upsert" /\ Materialized /\ at' = "observe" /\ input' = None
    /\ broken' = Tail(broken) /\ told' = told \cup {Observed.chat}
    /\ catalog' = IF Retains THEN catalog
                  ELSE [catalog EXCEPT ![Observed.chat] = input.entry]
    /\ UNCHANGED <<db, kind, cost, files, changed, snap, pos, last, examined, probed, full,
                   opening, changes, faults>>

-----------------------------------------------------------------------------
(* A ready entry, or a damaged chat, is opened: the transcript is          *)
(* extracted again, its files are verified and staged, the chat is         *)
(* inspected once more, and only then is a new Agent prepared with it.     *)

Opening(o) == opening' = o /\ UNCHANGED <<db, kind, cost, catalog, files, build, changes, faults>>

Choose ==
    /\ opening = None
    /\ \E c \in Ready : Opening([chat |-> c, entry |-> Of(c), catalogued |-> TRUE, at |-> "verify"])

\* Or a damaged chat itself, with an artifact of its own.
ChooseDamaged ==
    /\ opening = None
    /\ \E c \in Chat :
          /\ db[c] # None /\ db[c].damage # 0 /\ kind[c] # "unknown"
          /\ Opening([chat |-> c, entry |-> db[c], catalogued |-> FALSE, at |-> "verify"])

GiveUp == opening # None /\ Opening(None)

Goes(from, to) ==
    /\ opening # None /\ opening.at = from
    /\ Opening([opening EXCEPT !.at = to])

OnDisk == opening.catalogued => <<opening.chat, opening.entry.core>> \in files

Verify ==
    /\ Goes("verify", "stage") /\ OnDisk
    /\ kind[opening.chat] = "readable"
    /\ db[opening.chat] # None /\ db[opening.chat].core = opening.entry.core

Stage == Goes("stage", "staged") /\ OnDisk

Fresh(c, entry) == db[c] = entry

Reinspect ==
    /\ opening # None /\ Fresh(opening.chat, opening.entry)
    /\ Goes("staged", "attached")

Build ==
    \/ BeginBuild \/ Examine \/ WalkEnds \/ NextPage \/ Finish \/ Cancel \/ Crash \/ Forget
    \/ Observe \/ Recheck \/ Write \/ Upsert \/ UpsertFails
Open == Choose \/ ChooseDamaged \/ GiveUp \/ Verify \/ Stage \/ Reinspect

Next == CursorWrites \/ LosesFile \/ Build \/ Open

Spec == Init /\ [][Next]_vars

-----------------------------------------------------------------------------
(* A build that reports no limit, no change and no cancellation has missed *)
(* nothing, however the pages fell: each chat that lacks something has its *)
(* present text in the catalog or was counted with a reason why not, and   *)
(* so was each chat that could not be audited.                             *)
CompleteMissesNothing ==
    [][at' = "complete" /\ at # "complete"
       => \A c \in Chat : db[c] # None =>
             /\ db[c].damage # 0 \/ kind[c] = "unknown" => c \in told
             /\ kind[c] = "readable" /\ db[c].damage # 0 /\ cost[c] <= MaxProbes
                => c \in Ready /\ Of(c) = db[c]]_vars

(* An artifact that was verified stays in the catalog until a newer one    *)
(* takes its place, whatever becomes of the chat: it may be the only copy  *)
(* of what the chat said.                                                  *)
ReadyIsKept == [][\A c \in Ready : Intact(c) => c \in Ready']_vars
=============================================================================
