------------------------------ MODULE MCProgress -----------------------------
(***************************************************************************)
(* What one device must get on with, machine by machine: a window takes    *)
(* the background role (BackgroundRole), the device finds its place in its *)
(* own stream (OwnStream), and what the user writes into files is          *)
(* published (FileScan).  They share no state here; a behaviour is one of  *)
(* one machine, chosen at the start, so that their states add up.          *)
(***************************************************************************)
EXTENDS BackgroundRole

CONSTANTS MaxEvents, MaxLosses,
          Files, Kinds, MaxPending, MaxLarge, Work, MaxChanges, MaxFaults

(* A page holds something; None is neither a number nor an entry nor a     *)
(* file; a peer's version is written as a file that can be read.           *)
ASSUME FilesAssumption ==
    /\ Files \in Nat /\ MaxPending \in Nat \ {0} /\ "good" \in Kinds
    /\ None \notin Nat /\ None \notin [content : Nat, id : Nat \cup {None}]
    /\ None \notin [content : Nat, id : Nat, kind : Kinds]

VARIABLES
    part,
    disk, known, incoming, active, cursor, unreadable, due, pending, failed, lost,
    large, untracked, memo, scanAt, looking, processed, work, again, snapshots,
    complete, deferred, fresh, changes, faults,
    stream, removed, head, cp, ack, here, headHere, cpHere, stateFile, mem, pc, backup,
    restored, blind, losses

scanVars == <<disk, known, incoming, active, cursor, unreadable, due, pending, failed,
              lost, large, untracked, memo, scanAt, looking, processed, work, again,
              snapshots, complete, deferred, fresh, changes, faults>>

ownVars == <<stream, removed, head, cp, ack, here, headHere, cpHere, stateFile, mem, pc,
             backup, restored, blind, losses>>

O == INSTANCE OwnStream WITH log <- stream, gone <- removed, acked <- ack,
                             disk <- stateFile, faults <- losses, MaxFaults <- MaxLosses
F == INSTANCE FileScan WITH at <- scanAt

MCInit ==
    /\ part \in {"role", "own", "files"}
    /\ Init /\ O!Init /\ F!Init
    /\ part = "files" => disk[1].kind # "good" /\ disk[2].kind = "good"   \* at first
    /\ part # "files" => \A f \in F!File : disk[f].kind = "good" /\ known[f] # F!Nothing[f]

MCNext ==
    \/ part = "role" /\ Next /\ UNCHANGED <<part, ownVars, scanVars>>
    \/ part = "own" /\ O!Next /\ UNCHANGED <<part, vars, scanVars>>
    \/ part = "files" /\ F!Next /\ UNCHANGED <<part, vars, ownVars>>

(* The fairness of each machine.                                           *)
MCSpec ==
    /\ MCInit /\ [][MCNext]_<<part, vars, ownVars, scanVars>>
    /\ \A h \in Host :
          /\ WF_vars(part = "role" /\ h \in Live /\ (Step(h) \/ LosesRole(h)))
          /\ WF_vars(part = "role" /\ h \in Live /\ LosesRole(h))
    /\ WF_ownVars(part = "own" /\ O!Refresh) /\ WF_ownVars(part = "own" /\ O!Save)
    /\ WF_ownVars(part = "own" /\ O!WriteHead) /\ WF_ownVars(part = "own" /\ O!Deliver)
    /\ WF_scanVars(part = "files" /\ F!ScanStep)
    /\ WF_scanVars(part = "files" /\ F!Tick)

(* No sequence number is published twice by a device that sees its head.   *)
NoFork == O!NoFork
(* A device that lost its place in its own stream finds it again.          *)
(* (Of part "own"; the condition is inside because TLC checks that faster.) *)
RecoversInTheEnd == <>[](part # "own" \/ O!BeyondHelp) \/ []<>(pc = "ready")
(* A peer's version replaces no file that a complete scan has not seen.    *)
NothingUnseenIsReplaced == F!NothingUnseenIsReplaced
(* What can be read is published in the end, whatever cannot.              *)
ReadableIsPublished == F!ReadableIsPublished
=============================================================================
