------------------------------ MODULE ChatScan ------------------------------
(***************************************************************************)
(* The incremental scan of Cursor's own database for changed chats         *)
(* (StateVscdbChatAdapter.scan), while Cursor writes it.  No scan reads    *)
(* more than a page, so that three sweeps go round by themselves: over the *)
(* headers, over the number of messages, and, when a clock says so, over   *)
(* the bodies.  A scan that finds nothing new in a database that held      *)
(* still remembers the file's fingerprint, and as long as that stays the   *)
(* next scans open nothing.                                                *)
(*                                                                         *)
(* A chat is a row of the listing (head: all of its columns, the time of   *)
(* its last update among them), a run of messages (first..last: Cursor     *)
(* appends, and prunes the oldest) and the rest of its body.  A page is    *)
(* one chat, which stands for every limit on rows, captures and bytes.     *)
(* The payload limit is a number of messages.                              *)
(***************************************************************************)
EXTENDS Naturals

CONSTANTS
    Chats,        \* chats 1..Chats, in the order of their rows
    None,
    Limit,        \* more messages than this are not published
    MaxChanges    \* what Cursor writes

Chat == 1..Chats

VARIABLES
    rows, born,  \* Cursor's chats; the IDs it has used, never twice
    generation,  \* what the file's fingerprint tells apart
    recorded,  \* the projections: the content a chat is known by, and its row's head
    swapped,   \* the repository has handed out new projections since the last scan
    settled,   \* the generation the idle shortcut is good for
    pending,   \* what was returned and is not yet seen in a projection
    counted,   \* chats whose number of messages did not fit
    oversized, \* what was found too large to publish, ...
    current,   \* ... and met again in this round of the headers
    header, audit, audited, deep, due,  \* the sweeps; the audited generation; the clock
    read,      \* the scan under way
    result,    \* the chat it returned, or None
    changes,
    unreadable \* the chat a scan has failed to read once, or None

cursorVars == <<rows, born, generation, changes>>
sweepVars == <<header, audit, audited, deep, due>>
memory == <<pending, counted, oversized, current>>
adapterVars == <<swapped, settled, memory, sweepVars>>
vars == <<cursorVars, recorded, adapterVars, read, result, unreadable>>

Count(c) == c.last + 1 - c.first
Nothing == [c \in Chat |-> None]
Idle == [at |-> "idle", fp |-> 0, due |-> FALSE, chat |-> None, head |-> 0,
         verified |-> None, audited |-> FALSE, outcome |-> "none"]

(* An extension host starts: of what an earlier one did, the projections   *)
(* are left.                                                               *)
Short == [head |-> 0, first |-> 1, last |-> 1, body |-> 1]
Init ==
    /\ rows \in [Chat -> {None, Short}] /\ generation = 0
    /\ born = {c \in Chat : rows[c] # None}
    /\ recorded \in [Chat -> {None, [content |-> Short, head |-> 0]}]
    /\ \A c \in Chat : recorded[c] # None => rows[c] # None
    /\ swapped = TRUE /\ settled = None
    /\ pending = Nothing /\ counted = {} /\ oversized = Nothing /\ current = {}
    /\ header = None /\ audit = None /\ audited = None /\ deep = None /\ due = TRUE
    /\ read = Idle /\ result = None
    /\ changes = 0 /\ unreadable = None

-----------------------------------------------------------------------------
(* Cursor.  A commit changes the file's fingerprint.                       *)

Commit(c, content) ==
    /\ changes < MaxChanges /\ changes' = changes + 1
    /\ rows' = [rows EXCEPT ![c] = content] /\ generation' = generation + 1
    /\ born' = born \cup {c}
    /\ UNCHANGED <<recorded, adapterVars, read, result, unreadable>>

Create(c) == c \notin born /\ Commit(c, [Short EXCEPT !.head = generation + 1])
Append(c) ==   \* the listing is not always told
    /\ rows[c] # None /\ rows[c].body # 0
    /\ \E head \in {rows[c].head, generation + 1} :
          Commit(c, [rows[c] EXCEPT !.last = @ + 1, !.head = head])
Rename(c) == rows[c] # None /\ Commit(c, [rows[c] EXCEPT !.head = generation + 1])
Rewrite(c) == rows[c] # None /\ rows[c].body # 0 /\ Commit(c, [rows[c] EXCEPT !.body = @ + 1])
Prune(c) ==    \* a message, or all of the body but its row in the listing
    /\ rows[c] # None /\ rows[c].body # 0
    /\ \/ Count(rows[c]) > 0 /\ Commit(c, [rows[c] EXCEPT !.first = @ + 1])
       \/ Commit(c, [rows[c] EXCEPT !.first = @ + Count(rows[c]), !.body = 0])
Delete(c) == rows[c] # None /\ Commit(c, None)

-----------------------------------------------------------------------------
(* The scan.  What it can tell apart: two states of the file, two listings *)
(* of a chat, two bodies by the hash of all their rows.                    *)
Fingerprint == generation
Head(c) == rows[c].head
Core(c) == rows[c]

(* What it compares a chat with: the settlement, or the projection.        *)
Reference(c) == IF oversized[c] # None THEN oversized[c] ELSE recorded[c]

(* The repository holds what was pending, or what was too large for it.    *)
Holds(c, entry) == entry # None /\ recorded[c] # None /\ recorded[c].content = entry.content
Acknowledged == {c \in Chat : Holds(c, pending[c])}
Unacknowledged == [c \in Chat |-> IF c \in Acknowledged THEN None ELSE pending[c]]

(* Nothing moved on either side since a scan that found nothing.           *)
Shortcut ==
    /\ Unacknowledged = Nothing /\ counted = {} /\ audit = None /\ header = None
    /\ ~due /\ ~swapped /\ settled = Fingerprint
    /\ \A c \in Chat : ~Holds(c, oversized[c])

(* A sweep that meets another generation has to go round once more.        *)
Sweep == [cursor |-> 0, again |-> FALSE, fp |-> Fingerprint]
Resumed(sweep) ==
    IF sweep = None THEN Sweep
    ELSE [sweep EXCEPT !.again = @ \/ sweep.fp # Fingerprint, !.fp = Fingerprint]

Begin ==
    /\ read.at = "idle" /\ result = None /\ ~Shortcut
    /\ swapped' = FALSE /\ settled' = None /\ pending' = Unacknowledged
    /\ oversized' = [c \in Chat |-> IF Holds(c, oversized[c]) THEN None ELSE oversized[c]]
    /\ deep' = IF deep = None /\ due THEN 0 ELSE deep
    /\ audit' = IF audit = None /\ audited = Fingerprint THEN None ELSE Resumed(audit)
    /\ header' = Resumed(header) /\ current' = IF header = None THEN {} ELSE current
    /\ read' = [Idle EXCEPT !.at = "opened", !.fp = Fingerprint, !.due = due]
    /\ UNCHANGED <<cursorVars, recorded, counted, audited, due, result, unreadable>>

(* The next row of a sweep.                                                *)
FaultyNextRow(cursor) ==   \* the page begins with the last row of the one before
    LET rest == {c \in Chat : c >= cursor /\ rows[c] # None}
    IN  IF rest = {} THEN None ELSE CHOOSE c \in rest : \A d \in rest : c <= d
NextRow(cursor) ==
    LET rest == {c \in Chat : c > cursor /\ rows[c] # None}
    IN  IF rest = {} THEN None ELSE CHOOSE c \in rest : \A d \in rest : c <= d

(* The number of messages of a chat that nothing else makes it read.       *)
Miscounted(c) ==
    /\ c # None /\ pending[c] = None /\ Reference(c) # None
    /\ Reference(c).head = Head(c)
    /\ Count(Reference(c).content) # Count(rows[c])

(* The body of a listed chat is read: in full when there is reason to.     *)
Must(c, v) ==
    \/ pending[c] # None \/ c \in counted' \/ c = v
    \/ Reference(c) = None \/ Reference(c).head # Head(c)

(* The listing is read, and counts are compared, before the bodies.        *)
List ==
    /\ read.at = "opened"
    /\ LET c == NextRow(header.cursor)
           a == IF audit = None THEN None ELSE NextRow(audit.cursor)
           v == IF read.due THEN NextRow(deep) ELSE None
           must == c # None /\ Must(c, v)
       IN  /\ counted' = counted \cup {d \in {a} : Miscounted(d)}
           /\ read' = [read EXCEPT !.at = IF must THEN "listed" ELSE "read",
                                   !.chat = c, !.head = IF must THEN Head(c) ELSE 0,
                                   !.verified = v, !.audited = a # None]
           /\ audit' = IF a = None THEN audit ELSE [audit EXCEPT !.cursor = a]
           /\ current' = current \cup {d \in {c} \ {None} : ~must /\ oversized[d] # None}
    /\ UNCHANGED <<cursorVars, recorded, swapped, settled, pending, oversized, header,
                   audited, deep, due, result, unreadable>>

(* captureChat, in one transaction.  A chat that has lost messages is not  *)
(* a change to publish; one that is too large for a payload is remembered. *)
Pruned(c) == Reference(c) # None /\ Count(rows[c]) < Count(Reference(c).content)
Large(c) == Count(rows[c]) > Limit
Same(c) ==
    \/ Reference(c) # None /\ Reference(c).content = Core(c)
    \/ ~Large(c) /\ Holds(c, [content |-> Core(c)])

Outcome(c) ==
    IF rows[c] = None THEN "missing"
    ELSE IF rows[c].body = 0 \/ Pruned(c) THEN "lost"
    ELSE IF Same(c) THEN "same" ELSE IF Large(c) THEN "large" ELSE "new"

(* The head that goes with a chat is the one the listing showed.           *)
Seen(c) == [content |-> Core(c), head |-> read.head]

Capture ==
    /\ read.at = "listed"
    /\ LET c == read.chat outcome == Outcome(c) IN
         /\ pending' = CASE outcome \in {"new", "large"} -> [pending EXCEPT ![c] = Seen(c)]
                         [] outcome = "same" -> [pending EXCEPT ![c] = None]
                         [] OTHER -> pending
         /\ recorded' = IF outcome = "same" /\ Holds(c, Seen(c))
                        THEN [recorded EXCEPT ![c].head = Head(c)] ELSE recorded
         /\ oversized' = IF outcome = "same" THEN oversized
                         ELSE [oversized EXCEPT ![c] = None]
         /\ current' = current \cup {d \in {c} : outcome = "same" /\ oversized[d] # None}
         /\ counted' = counted \ {c}
         /\ result' = IF outcome = "new" THEN c ELSE None
         /\ read' = [read EXCEPT !.at = "read", !.outcome = outcome, !.head = 0]
    /\ UNCHANGED <<cursorVars, swapped, settled, sweepVars, unreadable>>

(* A row that cannot be read is skipped with a warning.                    *)
Unreadable ==
    /\ read.at = "listed" /\ unreadable = None /\ unreadable' = read.chat
    /\ read' = [read EXCEPT !.at = "read", !.outcome = "unreadable"]
    /\ UNCHANGED <<cursorVars, recorded, adapterVars, result>>

(* The database held still since the scan began.                           *)
FaultyStable == TRUE   \* what the file is after the scan is what was read
Stable == read.fp = Fingerprint

(* A sweep after its page: gone round, or once more from the start.        *)
Advanced(sweep, ended, cursor) ==
    LET after == [sweep EXCEPT !.again = @ \/ ~Stable, !.fp = Fingerprint]
    IN  IF ~ended THEN [after EXCEPT !.cursor = cursor]
        ELSE IF after.again THEN [Sweep EXCEPT !.fp = Fingerprint] ELSE None

(* The batch of bodies is done when its chat has come up in the listing.   *)
Verified ==
    IF read.due /\ read.verified \in {None, read.chat}
    THEN deep' = read.verified /\ due' = FALSE
    ELSE UNCHANGED <<deep, due>>

(* What is too large is settled for the database it was read in, and       *)
(* dropped when a whole round of the headers has not met it.               *)
Settles == Stable /\ read.outcome = "large"
Settlement(c) ==
    IF Settles /\ c = read.chat THEN pending[c]
    ELSE IF header' = None /\ c \notin current THEN None ELSE oversized[c]

(* Nothing was found and nothing is left to look at.                       *)
Quiet ==
    /\ read.outcome \notin {"new", "unreadable"}
    /\ header' = None /\ audit' = None /\ (deep' = None \/ ~due')

End ==
    /\ read.at = "read"
    /\ header' = Advanced(header, read.chat = None, read.chat)
    /\ audit' = IF audit = None THEN None ELSE Advanced(audit, ~read.audited, audit.cursor)
    /\ audited' = IF audit # None /\ audit' = None THEN Fingerprint ELSE audited
    /\ Verified
    /\ current' = current \cup {c \in {read.chat} : Settles}
    /\ oversized' = [c \in Chat |-> Settlement(c)]
    /\ pending' = IF Settles \/ (Stable /\ read.outcome = "lost")
                  THEN [pending EXCEPT ![read.chat] = None] ELSE pending
    /\ settled' = IF Stable /\ Quiet THEN read.fp ELSE None
    /\ read' = Idle
    /\ UNCHANGED <<cursorVars, recorded, swapped, counted, result, unreadable>>

-----------------------------------------------------------------------------
(* The cycle publishes what a scan returned, or fails and forgets it.      *)
Publish ==
    /\ read.at = "idle" /\ result # None
    /\ recorded' = [recorded EXCEPT ![result] = pending[result]]
    /\ swapped' = TRUE /\ result' = None
    /\ UNCHANGED <<cursorVars, settled, memory, sweepVars, read, unreadable>>

PublishFails ==
    /\ read.at = "idle" /\ result # None /\ result' = None
    /\ UNCHANGED <<cursorVars, recorded, adapterVars, read, unreadable>>

(* The time for the next batch of bodies has come.                         *)
Tick ==
    /\ read.at = "idle" /\ ~due /\ due' = TRUE   \* a scan reads the clock once
    /\ UNCHANGED <<cursorVars, recorded, swapped, settled, memory, header, audit, audited,
                   deep, read, result, unreadable>>

Scan == Begin \/ List \/ Capture \/ End
Next ==
    \/ \E c \in Chat : Create(c) \/ Append(c) \/ Rename(c) \/ Rewrite(c) \/ Prune(c) \/ Delete(c)
    \/ Scan \/ Unreadable \/ Publish \/ PublishFails \/ Tick

Fairness == WF_vars(Scan) /\ SF_vars(Publish) /\ SF_vars(Tick)
Spec == Init /\ [][Next]_vars /\ Fairness

-----------------------------------------------------------------------------
(* While the shortcut saves the scans, no chat that Cursor has not pruned  *)
(* and that could be read differs in its header or its number of messages  *)
(* from what is published or known to be too large: no commit made during  *)
(* a scan hides behind the fingerprint taken after it.                     *)
SettledIsKnown ==
    Shortcut /\ read.at = "idle" /\ result = None =>
        \A c \in Chat :
            rows[c] # None /\ rows[c].body # 0 /\ rows[c].first = 1 /\ c # unreadable
            => \E entry \in {recorded[c], oversized[c]} :
                   /\ entry # None /\ entry.content.head = rows[c].head
                   /\ Count(entry.content) = Count(rows[c])

Publishable(c) ==
    /\ rows[c] # None /\ rows[c].body # 0 /\ Count(rows[c]) <= Limit
    /\ recorded[c] # None => Count(rows[c]) >= Count(recorded[c].content)
AllPublished == \A c \in Chat : Publishable(c) => Holds(c, [content |-> rows[c]])

(* A chat as it stands is published in the end, also when only a body      *)
(* changed: unless it is too large or has fewer messages than what is      *)
(* published of it.                                                        *)
WrittenIsPublished == <>[]AllPublished
=============================================================================
