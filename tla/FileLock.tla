------------------------------ MODULE FileLock ------------------------------
(***************************************************************************)
(* The lock file of the machine (src/src/platform/lock.ts), with which     *)
(* Cursor windows and the offline helper exclude one another.              *)
(*                                                                         *)
(* Each step is one call to the file system; other processes act between   *)
(* two of them.  A file is at the lock's path, or at the private path to   *)
(* which one contender has renamed it, and a process that has it open goes *)
(* on writing to it wherever it is.                                        *)
(***************************************************************************)
EXTENDS Naturals, FiniteSets

CONSTANTS
    Process,     \* processes that contend for the lock
    Before,      \* a process that died holding the lock before they started
    Attempts,    \* bound: tokens of one process that are around at one time
    MaxCrashes,  \* bound: processes that die
    CanAge,      \* may a file's modification time pass the TTL?
    None         \* no file, no lock that can be read, no process

ASSUME BoundsAssumption ==
    /\ MaxCrashes \in Nat /\ Attempts \in Nat \ {0} /\ CanAge \in BOOLEAN
    /\ Before \notin Process

VARIABLES
    path,      \* the file at the lock's path
    aside,     \* aside[p]: the file p has renamed away
    pc,        \* pc[p]: the next step of p
    mine,      \* mine[p]: the lock p has created or is creating
    seen,      \* seen[p]: the lock p read before it judged it
    moved,     \* moved[p]: the lock p read in the file it has moved
    dead,      \* processes that have died
    reused,    \* dead processes whose PID now belongs to somebody else
    overdue    \* history: processes that have had a lock for the TTL

vars == <<path, aside, pc, mine, seen, moved, dead, reused, overdue>>

(* What a lock file says: the PID of its owner and a token of its own.     *)
LockContent == [by : Process \cup {Before}, token : 1..Attempts]

(* The lock in a file, None while it is empty; whether its modification    *)
(* time is beyond the TTL; and who has it open to write the lock.          *)
File == [lock : LockContent \cup {None}, old : BOOLEAN,
         writer : Process \cup {None}]

ASSUME NoneAssumption ==
    None \notin File /\ None \notin LockContent /\ None \notin Process \cup {Before}

Live == Process \ dead
Lock(f) == IF f = None THEN None ELSE f.lock

Init ==
    /\ path \in {None} \cup
           [lock : {None, [by |-> Before, token |-> 1]}, old : {FALSE}, writer : {None}]
    /\ aside = [p \in Process |-> None]
    /\ pc = [p \in Process |-> "idle"] /\ mine = [p \in Process |-> None]
    /\ seen = [p \in Process |-> None] /\ moved = [p \in Process |-> None]
    /\ dead = {Before} /\ reused = {} /\ overdue = {}

-----------------------------------------------------------------------------
goto(p, step) == pc' = [pc EXCEPT ![p] = step]

Opened(p) == [lock |-> None, old |-> FALSE, writer |-> p]

(* The tokens nobody has seen (randomUUID).                                *)
unseen(p) ==
    {l \in {[by |-> p, token |-> n] : n \in 1..Attempts} :
        l \notin {Lock(path)} \cup UNION {{Lock(aside[q]), seen[q], moved[q], mine[q]} :
                                              q \in Process}}

(* tryCreateLock: open(path, "wx"); a lock is lost while the path is taken.*)
create(p, lost) ==
    \/ /\ path = None /\ unseen(p) # {}
       /\ path' = Opened(p)
       /\ mine' = [mine EXCEPT ![p] = CHOOSE l \in unseen(p) : TRUE]
       /\ goto(p, "write")
    \/ path # None /\ goto(p, lost) /\ UNCHANGED <<path, mine>>

(* Write l through the handle p has open; lost if the file is gone.        *)
written(f, p, l) ==
    IF f # None /\ f.writer = p THEN [lock |-> l, old |-> FALSE, writer |-> None] ELSE f

Acquire(p) ==
    /\ pc[p] = "idle"
    /\ create(p, "read")
    /\ UNCHANGED <<aside, seen, moved, dead, reused, overdue>>

Write(p) ==
    /\ pc[p] = "write"
    /\ path' = written(path, p, mine[p])
    /\ aside' = [q \in Process |-> written(aside[q], p, mine[p])]
    /\ goto(p, "held")
    /\ UNCHANGED <<mine, seen, moved, dead, reused, overdue>>

-----------------------------------------------------------------------------
(* Taking over a stale lock.                                               *)

FaultyIsStalePidOnly(l, f) ==          \* the process identity is not asked
    \/ f = None
    \/ f # None /\ f.old /\ l = None
    \/ l # None /\ l.by \in dead \ reused

(* isLockStale and isUnreadableFileStale, of lock l read in what is now    *)
(* the file f.  The process identity tells a reused PID, but is asked only *)
(* after the TTL.  A file that has vanished counts as stale.               *)
isStale(l, f) ==
    \/ f = None
    \/ f # None /\ f.old /\ (l = None \/ l.by \in reused)
    \/ l # None /\ l.by \in dead \ reused

ReadLock(p) ==
    /\ pc[p] = "read"
    /\ seen' = [seen EXCEPT ![p] = Lock(path)]
    /\ goto(p, "judge")
    /\ UNCHANGED <<path, aside, mine, moved, dead, reused, overdue>>

Judge(p) ==
    /\ pc[p] = "judge"
    /\ IF isStale(seen[p], path)
       THEN goto(p, "rename") /\ UNCHANGED seen
       ELSE goto(p, "idle") /\ seen' = [seen EXCEPT ![p] = None]
    /\ UNCHANGED <<path, aside, mine, moved, dead, reused, overdue>>

Rename(p) ==
    /\ pc[p] = "rename"
    /\ IF path = None
       THEN goto(p, "recreate") /\ UNCHANGED <<path, aside>>
       ELSE /\ aside' = [aside EXCEPT ![p] = path] /\ path' = None
            /\ goto(p, "reread")
    /\ UNCHANGED <<mine, seen, moved, dead, reused, overdue>>

Reread(p) ==
    /\ pc[p] = "reread"
    /\ moved' = [moved EXCEPT ![p] = Lock(aside[p])]
    /\ goto(p, "rejudge")
    /\ UNCHANGED <<path, aside, mine, seen, dead, reused, overdue>>

FaultyRejudge(p) ==                    \* the verdict of before the rename stands
    /\ pc[p] = "rejudge"
    /\ goto(p, "remove")
    /\ UNCHANGED <<path, aside, mine, seen, moved, dead, reused, overdue>>

(* Only the lock that was judged may be removed, and only if it is still   *)
(* stale: the rename may have caught a newer one.                          *)
Rejudge(p) ==
    /\ pc[p] = "rejudge"
    /\ goto(p, IF moved[p] = seen[p] /\ isStale(moved[p], aside[p])
               THEN "remove" ELSE "undo")
    /\ UNCHANGED <<path, aside, mine, seen, moved, dead, reused, overdue>>

(* What was moved is at a path of p's own: removing it takes no step.      *)
discard(p) ==
    /\ aside' = [aside EXCEPT ![p] = None]
    /\ seen' = [seen EXCEPT ![p] = None]
    /\ moved' = [moved EXCEPT ![p] = None]

Remove(p) ==
    /\ pc[p] = "remove"
    /\ discard(p)
    /\ create(p, "idle")
    /\ UNCHANGED <<dead, reused, overdue>>

Recreate(p) ==
    /\ pc[p] = "recreate"
    /\ create(p, "idle")
    /\ seen' = [seen EXCEPT ![p] = None]
    /\ UNCHANGED <<aside, moved, dead, reused, overdue>>

(* undoTakeover: read what was moved, create the path again unless it is   *)
(* occupied, write it back, remove what was moved.                         *)
UndoRead(p) ==
    /\ pc[p] = "undo"
    /\ moved' = [moved EXCEPT ![p] = Lock(aside[p])]
    /\ goto(p, "undo create")
    /\ UNCHANGED <<path, aside, mine, seen, dead, reused, overdue>>

UndoCreate(p) ==
    /\ pc[p] = "undo create"
    /\ IF path = None
       THEN path' = Opened(p) /\ goto(p, "undo write") /\ UNCHANGED <<aside, seen, moved>>
       ELSE discard(p) /\ goto(p, "idle") /\ UNCHANGED path
    /\ UNCHANGED <<mine, dead, reused, overdue>>

UndoWrite(p) ==
    /\ pc[p] = "undo write"
    /\ path' = written(path, p, moved[p])
    /\ aside' = [q \in Process |->
           IF q = p THEN None ELSE written(aside[q], p, moved[p])]
    /\ seen' = [seen EXCEPT ![p] = None] /\ moved' = [moved EXCEPT ![p] = None]
    /\ goto(p, "idle")
    /\ UNCHANGED <<mine, dead, reused, overdue>>

-----------------------------------------------------------------------------
(* Holding it.                                                             *)

(* refresh and the heartbeat read the lock file, then touch what is at its *)
(* path by then; refresh throws when it reads another's lock.              *)
Refresh(p) ==
    /\ pc[p] = "held"
    /\ \/ Lock(path) = mine[p] /\ goto(p, "touch") /\ UNCHANGED mine
       \/ /\ Lock(path) \notin {mine[p], None}
          /\ mine' = [mine EXCEPT ![p] = None] /\ goto(p, "idle")
    /\ overdue' = {q \in overdue : mine'[q] # None}
    /\ UNCHANGED <<path, aside, seen, moved, dead, reused>>

Touch(p) ==
    /\ pc[p] = "touch"
    /\ path' = IF path = None THEN None ELSE [path EXCEPT !.old = FALSE]
    /\ goto(p, "held")
    /\ UNCHANGED <<aside, mine, seen, moved, dead, reused, overdue>>

Release(p) ==
    /\ pc[p] = "held"
    /\ IF Lock(path) = mine[p]
       THEN goto(p, "release") /\ UNCHANGED mine
       ELSE mine' = [mine EXCEPT ![p] = None] /\ goto(p, "idle")
    /\ overdue' = {q \in overdue : mine'[q] # None}
    /\ UNCHANGED <<path, aside, seen, moved, dead, reused>>

(* rm(path): whatever is there by now.                                     *)
ReleaseRemove(p) ==
    /\ pc[p] = "release"
    /\ path' = None
    /\ mine' = [mine EXCEPT ![p] = None]
    /\ goto(p, "idle")
    /\ overdue' = {q \in overdue : mine'[q] # None}
    /\ UNCHANGED <<aside, seen, moved, dead, reused>>

-----------------------------------------------------------------------------
(* The world.  The steps of one process are far shorter than the TTL: no   *)
(* file ages while its lock is being written, or once it has been moved.   *)

Crash(p) ==
    /\ p \in Live /\ Cardinality(dead) < MaxCrashes + 1
    /\ dead' = dead \cup {p}
    /\ path' = IF path # None /\ path.writer = p
               THEN [path EXCEPT !.writer = None] ELSE path
    /\ aside' = [q \in Process |->
           IF q = p THEN None ELSE IF aside[q] # None /\ aside[q].writer = p
           THEN [aside[q] EXCEPT !.writer = None] ELSE aside[q]]
    /\ mine' = [mine EXCEPT ![p] = None]
    /\ seen' = [seen EXCEPT ![p] = None] /\ moved' = [moved EXCEPT ![p] = None]
    /\ goto(p, "idle")
    /\ overdue' = {q \in overdue : mine'[q] # None}
    /\ UNCHANGED reused

ReusePid(p) ==
    /\ p \in dead \ reused
    /\ reused' = reused \cup {p}
    /\ UNCHANGED <<path, aside, pc, mine, seen, moved, dead, overdue>>

Age ==
    /\ CanAge /\ path # None /\ path.writer = None /\ ~path.old
    /\ path' = [path EXCEPT !.old = TRUE]
    /\ overdue' = {q \in Process : mine[q] # None}
    /\ UNCHANGED <<aside, pc, mine, seen, moved, dead, reused>>

Contend(p) ==
    Acquire(p) \/ Write(p) \/ ReadLock(p) \/ Judge(p) \/ Rename(p) \/ Reread(p)
    \/ Rejudge(p) \/ Remove(p) \/ Recreate(p) \/ UndoRead(p) \/ UndoCreate(p)
    \/ UndoWrite(p)
Hold(p) == Refresh(p) \/ Touch(p) \/ Release(p) \/ ReleaseRemove(p)

Next ==
    \/ \E p \in Live : Contend(p) \/ Hold(p)
    \/ \E p \in Process : Crash(p)
    \/ \E p \in Process \cup {Before} : ReusePid(p)
    \/ Age

(* A process polls: it tries again after it lost, its calls return, it     *)
(* releases what it holds (in a finally block), however often the heartbeat*)
(* comes between, and what nobody touches grows old.                       *)
Spec ==
    /\ Init /\ [][Next]_vars
    /\ \A p \in Process :
           /\ WF_vars(p \in Live /\ (Contend(p) \/ Touch(p) \/ ReleaseRemove(p)))
           /\ SF_vars(p \in Live /\ Release(p))
    /\ WF_vars(Age)

-----------------------------------------------------------------------------
(* The type of the state; a process has a lock, or a file moved aside,     *)
(* exactly where the code has one to release, remove or put back (all of   *)
(* lock.ts).                                                               *)
TypeOK ==
    /\ path \in File \cup {None}
    /\ aside \in [Process -> File \cup {None}]
    /\ pc \in [Process ->
           {"idle", "write", "read", "judge", "rename", "reread", "rejudge",
            "remove", "recreate", "undo", "undo create", "undo write",
            "held", "touch", "release"}]
    /\ mine \in [Process -> LockContent \cup {None}]
    /\ seen \in [Process -> LockContent \cup {None}]
    /\ moved \in [Process -> LockContent \cup {None}]
    /\ dead \subseteq Process \cup {Before} /\ reused \subseteq dead
    /\ overdue \subseteq {p \in Process : mine[p] # None}
    /\ \A p \in Process :
           /\ mine[p] # None <=> pc[p] \in {"write", "held", "touch", "release"}
           /\ aside[p] # None <=> pc[p] \in
                  {"reread", "rejudge", "remove", "undo", "undo create", "undo write"}

Holds(p) == pc[p] \in {"held", "touch", "release"}

(* The lock excludes: two processes never hold it at one time, whatever    *)
(* stale lock they found and took over (acquireFileLock).                  *)
Exclusive == \A p, q \in Process : Holds(p) /\ Holds(q) => p = q

(* As long as they are two, a process that is done within the TTL has the  *)
(* lock to itself, whatever is moved, put back, left behind or released    *)
(* around it (acquireFileLock, undoTakeover).                              *)
ExclusiveWithinTTL ==
    \A p, q \in Process :
        Holds(p) /\ Holds(q) /\ p # q => {p, q} \cap overdue # {}

(* A takeover deletes for good only what is stale: the lock of a dead      *)
(* process, or a file nobody finished writing within the TTL.  A lock that *)
(* came to life between the verdict and the rename is put back             *)
(* (acquireFileLock, the checks after the rename).                         *)
OnlyStaleIsRemoved ==
    \A p \in Live :
        pc[p] = "remove" =>
            IF Lock(aside[p]) = None THEN aside[p].old
            ELSE Lock(aside[p]).by \in dead

(* What a dead process left behind, even a lock half written or one whose  *)
(* PID has been given to another process, does not block the path for ever *)
(* (isLockStale, isUnreadableFileStale).                                   *)
LeftBehind ==
    path # None /\ (IF path.lock = None THEN path.writer = None ELSE path.lock.by \in dead)
StaleIsRecovered == LeftBehind ~> ~LeftBehind
=============================================================================
