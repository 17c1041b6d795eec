------------------------------ MODULE OwnStream ------------------------------
(***************************************************************************)
(* A device's own event stream, and how the device finds its place in it   *)
(* again (recoverOwnStream in src/src/protocol/repository.ts).             *)
(*                                                                         *)
(* Nobody else appends to the stream, but the device may forget how far it *)
(* has come: it dies between the event file and its state file, the save   *)
(* fails, or the computer is restored from a backup, which takes back the  *)
(* state file and any part of the replica of the shared folder.  The       *)
(* provider delivers in any order what the replica lacks; a peer folds the *)
(* beginning of the stream into a checkpoint, and what this device has     *)
(* acknowledged is pruned.                                                 *)
(***************************************************************************)
EXTENDS Naturals, Sequences

CONSTANTS MaxEvents, MaxFaults      \* bounds: event files; faults

VARIABLES
    log,        \* the event files ever written: [seq, prev]; a hash is an index
    gone,       \* hashes of files a prune has deleted
    head, cp,   \* head.json; the newest checkpoint's cursor of this stream
    acked,      \* the sequence this device has acknowledged as folded
    here, headHere, cpHere,         \* what of this is in the device's replica
    disk, mem,  \* the state: the stream's [seq, hash], the absorbed cursor cp
    pc,         \* where the cycle is
    backup,     \* what a backup of the computer holds, once there is one
    restored,   \* history: the computer has been restored
    blind,      \* history: then, and the last refresh saw an outdated head
    faults

folder == <<log, gone, head, cp, acked>>
replica == <<here, headHere, cpHere>>
state == <<disk, mem>>
history == <<backup, restored, blind, faults>>
vars == <<folder, replica, state, pc, history>>

Nothing == [seq |-> 0, hash |-> 0]
NoBackup == [state |-> [seq |-> 0, hash |-> 0, cp |-> Nothing], here |-> {}, head |-> 0, cp |-> Nothing]

Newest == IF log = <<>> THEN 0 ELSE CHOOSE n \in {log[i].seq : i \in DOMAIN log} :
                                       \A i \in DOMAIN log : log[i].seq <= n
Forked == \E i, j \in DOMAIN log : i # j /\ log[i].seq = log[j].seq

Init ==
    /\ log = <<>> /\ gone = {} /\ head = 0 /\ cp = Nothing /\ acked = 0
    /\ here = {} /\ headHere = 0 /\ cpHere = Nothing
    /\ disk = NoBackup.state /\ mem = disk
    /\ pc = "idle" /\ backup = NoBackup
    /\ restored = FALSE /\ blind = FALSE /\ faults = 0

-----------------------------------------------------------------------------
(* A refresh: the newest checkpoint is absorbed, less its cursor of this   *)
(* stream, and the stream is walked from where the state or the checkpoint *)
(* says it was.                                                            *)

\* Sequence and hash after the contiguous, chained run of files above from.
Above(from) == {i \in here : log[i].seq > from.seq}
Chained(from) ==
    \A i \in Above(from) :
        IF log[i].seq = from.seq + 1 THEN log[i].prev = from.hash
        ELSE log[i].prev \in Above(from) /\ log[log[i].prev].seq = log[i].seq - 1
WalkEnd(from) ==
    IF Above(from) = {} THEN from
    ELSE LET last == CHOOSE i \in Above(from) : \A j \in Above(from) : log[j].seq <= log[i].seq
         IN  [seq |-> log[last].seq, hash |-> last]

FaultyHeadArrived(end) == TRUE             \* head.json is not consulted
HeadArrived(end) == end.seq >= headHere

FaultyCorroborated(cursor) == cursor.hash \in here \/ Above(cursor) # {}
Corroborated(cursor) ==
    cursor.hash \in here \/ headHere >= cursor.seq \/ Above(cursor) # {}

\* The cursor the walk begins at, if the state and the checkpoint agree.
Begins(pinned, cursor, from) ==
    \/ pinned.seq < cursor.seq /\ Corroborated(cursor) /\ from = cursor
    \/ pinned.seq = cursor.seq /\ pinned.hash = cursor.hash /\ from = pinned
    \/ pinned.seq > cursor.seq /\ pinned.hash \in here /\ from = pinned

ForkInSight == \E i, j \in here : i # j /\ log[i].seq = log[j].seq

absorb == IF cpHere.seq > mem.cp.seq THEN cpHere ELSE mem.cp

Refresh ==
    /\ pc \in {"idle", "ready"} /\ cpHere.seq >= mem.cp.seq
    /\ LET pinned == [seq |-> mem.seq, hash |-> mem.hash]
           found == {from \in {pinned, absorb} :
                        /\ ~ForkInSight /\ Begins(pinned, absorb, from)
                        /\ Chained(from) /\ HeadArrived(WalkEnd(from))}
           end == IF found = {} THEN pinned ELSE WalkEnd(CHOOSE from \in found : TRUE)
       IN  /\ mem' = [seq |-> end.seq, hash |-> end.hash, cp |-> absorb]
           /\ pc' = IF found = {} THEN "idle" ELSE "ready"
    /\ disk' = IF mem' = mem THEN disk ELSE mem'
    /\ blind' = (restored /\ headHere < Newest)
    /\ UNCHANGED <<folder, replica, backup, restored, faults>>

EndCycle ==
    /\ pc = "ready" /\ pc' = "idle"
    /\ UNCHANGED <<folder, replica, state, history>>

(* The acknowledgement of the absorbed checkpoint.                         *)
Ack ==
    /\ pc = "ready" /\ acked < mem.cp.seq /\ acked' = mem.cp.seq
    /\ UNCHANGED <<log, gone, head, cp, replica, state, pc, history>>

-----------------------------------------------------------------------------
(* publish: the event file, the state, the head.                           *)

Publish ==
    /\ pc = "ready" /\ Len(log) < MaxEvents
    /\ \A i \in here : log[i].seq # mem.seq + 1
    /\ log' = Append(log, [seq |-> mem.seq + 1, prev |-> mem.hash])
    /\ here' = here \cup {Len(log')}
    /\ mem' = [mem EXCEPT !.seq = @ + 1, !.hash = Len(log')]
    /\ pc' = "wrote"
    /\ UNCHANGED <<gone, head, cp, acked, headHere, cpHere, disk, history>>

Fails == faults < MaxFaults /\ faults' = faults + 1

Save ==
    /\ pc = "wrote"
    /\ \/ disk' = mem /\ pc' = "saved" /\ UNCHANGED faults
       \/ Fails /\ pc' = "idle" /\ UNCHANGED disk
    /\ UNCHANGED <<folder, replica, mem, backup, restored, blind>>

WriteHead ==
    /\ pc = "saved" /\ pc' = "ready"
    /\ \/ head' = mem.seq /\ headHere' = mem.seq /\ UNCHANGED faults
       \/ Fails /\ UNCHANGED <<head, headHere>>
    /\ UNCHANGED <<log, gone, cp, acked, here, cpHere, state, backup, restored, blind>>

Crash ==
    /\ Fails /\ pc # "idle"
    /\ pc' = "idle" /\ mem' = disk
    /\ UNCHANGED <<folder, replica, disk, backup, restored, blind>>

-----------------------------------------------------------------------------
(* The peers, the provider, and the backup of the computer.                *)

Fold ==
    /\ ~Forked
    /\ \E i \in DOMAIN log : log[i].seq > cp.seq /\ cp' = [seq |-> log[i].seq, hash |-> i]
    /\ UNCHANGED <<log, gone, head, acked, replica, state, pc, history>>

Prune ==
    /\ acked = cp.seq
    /\ LET folded == {i \in DOMAIN log : log[i].seq <= cp.seq}
       IN  folded \ gone # {} /\ gone' = gone \cup folded
    /\ UNCHANGED <<log, head, cp, acked, replica, state, pc, history>>

Deliver ==
    /\ \/ \E i \in (DOMAIN log \ gone) \ here : here' = here \cup {i} /\ UNCHANGED <<headHere, cpHere>>
       \/ \E i \in gone \cap here : here' = here \ {i} /\ UNCHANGED <<headHere, cpHere>>
       \/ headHere # head /\ headHere' = head /\ UNCHANGED <<here, cpHere>>
       \/ cpHere # cp /\ cpHere' = cp /\ UNCHANGED <<here, headHere>>
    /\ UNCHANGED <<folder, state, pc, history>>

Backup ==
    /\ backup = NoBackup
    /\ backup' = [state |-> disk, here |-> here, head |-> headHere, cp |-> cpHere]
    /\ UNCHANGED <<folder, replica, state, pc, restored, blind, faults>>

Restore ==
    /\ Fails /\ restored' = TRUE
    /\ disk' = backup.state /\ mem' = disk' /\ pc' = "idle"
    /\ here' \in {here, backup.here}
    /\ headHere' \in {headHere, backup.head}
    /\ cpHere' \in {cpHere, backup.cp}
    /\ UNCHANGED <<folder, backup, blind>>

Cycle == Refresh \/ EndCycle \/ Ack \/ Publish \/ Save \/ WriteHead
Next == Cycle \/ Crash \/ Fold \/ Prune \/ Deliver \/ Backup \/ Restore

Spec == Init /\ [][Next]_vars
LiveSpec == Spec /\ WF_vars(Refresh) /\ WF_vars(Save) /\ WF_vars(WriteHead) /\ WF_vars(Deliver)

-----------------------------------------------------------------------------
(* The device publishes no sequence number twice, whatever it forgot, as   *)
(* long as the head it sees is the newest (publish, recoverOwnStream).     *)
NoFork ==
    [][\A i \in DOMAIN log' \ DOMAIN log :
           (\A j \in DOMAIN log : log[j].seq # log'[i].seq) \/ blind]_vars

(* However it lost its place, the device finds it again once the provider  *)
(* has delivered everything, unless the stream has forked or the computer  *)
(* was restored when head.json had never been written for the newest event.*)
BeyondHelp == Forked \/ (restored /\ head < Newest)
RecoversInTheEnd == <>[]BeyondHelp \/ []<>(pc = "ready")
=============================================================================
