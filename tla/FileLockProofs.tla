--------------------------- MODULE FileLockProofs ---------------------------
(***************************************************************************)
(* What is proved of the lock file, for any number of tokens and crashes:  *)
(* of two processes that contend for it, one that is done within the TTL   *)
(* has it to itself.                                                       *)
(*                                                                         *)
(* The argument: while a process owns a lock or is creating one, something *)
(* keeps the other from creating one too (Blocked).  Either the owner's    *)
(* file is at the path; or the other process has renamed it away, and is   *)
(* on its way to put it back, because a lock of a process that lives, or a *)
(* file that is not old, is never judged stale; or the path is taken by a  *)
(* file that nobody can judge stale before the TTL.  Only a process that   *)
(* is about to release removes the file at the path unseen, so what it has *)
(* read there must still be its own lock, or be put back (Kept).           *)
(***************************************************************************)
EXTENDS FileLock, TLAPS

(* One process at most contends with another.                              *)
AtMostTwo == \A p, q, r \in Process : p = q \/ q = r \/ p = r

(* A lock is its owner's, and the dead do nothing.                         *)
OwnersInv ==
    /\ \A p \in Process : mine[p] # None => mine[p].by = p
    /\ \A p \in Process \cap dead : pc[p] = "idle"

(* A file that is being written is empty and new.                          *)
WrittenBy(f, p) ==
    f # None /\ f.writer = p =>
        f.lock = None /\ ~f.old /\ pc[p] \in {"write", "undo write"}

WritersInv ==
    \A p \in Process :
        WrittenBy(path, p) /\ \A q \in Process : WrittenBy(aside[q], p)

(* The process p has renamed a file away and has not judged it stale.      *)
Examines(p) == pc[p] \in {"reread", "rejudge", "undo", "undo create"}

(* The written lock of q is at the path, or p will put it back there.      *)
Kept(q, p) ==
    \/ path # None /\ path.lock = mine[q]
    \/ /\ path = None /\ Examines(p)
       /\ aside[p].lock = mine[q]
       /\ pc[p] \in {"rejudge", "undo create"} => moved[p] = mine[q]
    \/ /\ pc[p] = "undo write" /\ path # None /\ path.writer = p
       /\ moved[p] = mine[q]

(* The file that q has created and perhaps not yet written is at the path, *)
(* or p has renamed it away and read it empty.                             *)
Opening(q, p) ==
    \/ /\ pc[q] = "write" /\ path # None /\ path.writer = q
    \/ /\ path = None /\ Examines(p)
       /\ ~aside[p].old
       /\ \/ aside[p].lock = mine[q]
          \/ aside[p].lock = None /\ aside[p].writer = q /\ pc[q] = "write"
       /\ pc[p] \in {"rejudge", "undo create"} => moved[p] \in {None, mine[q]}
    \/ /\ pc[p] = "undo write" /\ path # None /\ path.writer = p
       /\ moved[p] = None

(* The lock of q is lost, but the path is taken by an empty file that is   *)
(* not old, and p has not judged any other.                                *)
Taken(p) ==
    /\ path # None /\ path.lock = None /\ path.writer = None /\ ~path.old
    /\ pc[p] \in {"idle", "read", "judge"}
    /\ pc[p] = "judge" => seen[p] = None

Blocked(q, p) == Kept(q, p) \/ Opening(q, p) \/ Taken(p)

PairInv(q, p) ==
    p \notin dead /\ mine[q] # None =>
        /\ q \notin overdue => Blocked(q, p)
        /\ pc[q] = "release" => Kept(q, p)

IInv ==
    /\ TypeOK /\ OwnersInv /\ WritersInv
    /\ \A p, q \in Process : p # q => PairInv(q, p)

-----------------------------------------------------------------------------
(* Types.                                                                  *)

(* A new file is empty and being written.                                  *)
LEMMA OpenedIs ==
    ASSUME NEW p \in Process
    PROVE  /\ Opened(p) \in File /\ Opened(p) # None
           /\ Opened(p).lock = None /\ ~Opened(p).old /\ Opened(p).writer = p
<1>1. Opened(p) \in File
  BY DEF Opened, File
<1>2. Opened(p) # None
  BY <1>1, NoneAssumption
<1>3. Opened(p).lock = None /\ Opened(p).writer = p
  BY DEF Opened
<1>4. ~Opened(p).old
  BY DEF Opened
<1> QED BY <1>1, <1>2, <1>3, <1>4

(* What writing l through the handle of p does to a file.                  *)
LEMMA WrittenIs ==
    ASSUME NEW f \in File \cup {None}, NEW p \in Process, NEW l \in LockContent \cup {None}
    PROVE  /\ written(f, p, l) \in File \cup {None}
           /\ written(f, p, l) = None <=> f = None
           /\ f # None /\ f.writer = p =>
                  /\ written(f, p, l).lock = l /\ ~written(f, p, l).old
                  /\ written(f, p, l).writer = None
           /\ ~(f # None /\ f.writer = p) => written(f, p, l) = f
<1>0. PICK g : g = written(f, p, l)
  OBVIOUS
<1>1. CASE f # None /\ f.writer = p
  <2>1. g = [lock |-> l, old |-> FALSE, writer |-> None]
    BY <1>0, <1>1 DEF written
  <2>2. g \in File
    BY <2>1 DEF File
  <2>3. g # None
    BY <2>2, NoneAssumption
  <2>4. g.lock = l /\ g.writer = None
    BY <2>1
  <2>5. ~g.old
    BY <2>1
  <2> QED BY <1>0, <1>1, <2>2, <2>3, <2>4, <2>5
<1>2. CASE ~(f # None /\ f.writer = p)
  BY <1>2 DEF written
<1> QED BY <1>1, <1>2

(* Touching a file makes it new, growing old makes it old.                 *)
LEMMA TouchedIs ==
    ASSUME NEW f \in File \cup {None}, NEW old \in BOOLEAN,
           NEW g, g = IF f = None THEN None ELSE [f EXCEPT !.old = old]
    PROVE  /\ g \in File \cup {None}
           /\ g = None <=> f = None
           /\ f # None => g.lock = f.lock /\ g.writer = f.writer /\ g.old = old
<1>1. CASE f # None
  <2>1. f \in File /\ g = [f EXCEPT !.old = old]
    BY <1>1
  <2>2. g \in File /\ g.lock = f.lock /\ g.writer = f.writer /\ g.old = old
    BY <2>1 DEF File
  <2>3. g # None
    BY <2>2, NoneAssumption
  <2> QED BY <1>1, <2>2, <2>3
<1>2. CASE f = None
  BY <1>2
<1> QED BY <1>1, <1>2

(* An attempt to create the lock file.                                     *)
LEMMA CreateIs ==
    ASSUME TypeOK, OwnersInv, NEW p \in Process, NEW lost, create(p, lost)
    PROVE  /\ path' \in File \cup {None} /\ path' # None
           /\ mine' \in [Process -> LockContent \cup {None}]
           /\ \A q \in Process : q # p => mine'[q] = mine[q]
           /\ pc' = [pc EXCEPT ![p] = pc'[p]]
           /\ \/ /\ path = None /\ path' = Opened(p) /\ pc'[p] = "write"
                 /\ mine'[p] \in LockContent /\ mine'[p] # None /\ mine'[p].by = p
              \/ /\ path # None /\ path' = path /\ pc'[p] = lost
                 /\ mine' = mine
<1>1. CASE path # None /\ goto(p, lost) /\ UNCHANGED <<path, mine>>
  BY <1>1 DEF goto, TypeOK
<1>2. CASE /\ path = None /\ unseen(p) # {}
           /\ path' = Opened(p)
           /\ mine' = [mine EXCEPT ![p] = CHOOSE l \in unseen(p) : TRUE]
           /\ goto(p, "write")
  <2>0. PICK l : l = CHOOSE m \in unseen(p) : TRUE
    OBVIOUS
  <2>1. l \in unseen(p)
    BY <1>2, <2>0
  <2>5. PICK n \in 1..Attempts : l = [by |-> p, token |-> n]
    BY <2>1 DEF unseen
  <2>2. l \in LockContent /\ l.by = p
    <3>1. p \in Process \cup {Before} /\ n \in 1..Attempts
      OBVIOUS
    <3>2. l.by = p
      BY <2>5
    <3>3. [by |-> p, token |-> n] \in [by : Process \cup {Before}, token : 1..Attempts]
      BY <3>1
    <3> QED BY <2>5, <3>2, <3>3 DEF LockContent
  <2>3. l # None
    BY <2>2, NoneAssumption
  <2>4. mine' = [mine EXCEPT ![p] = l]
    BY <1>2, <2>0
  <2>6. /\ mine' \in [Process -> LockContent \cup {None}] /\ mine'[p] = l
        /\ \A q \in Process : q # p => mine'[q] = mine[q]
    BY <2>2, <2>4 DEF TypeOK
  <2>7. pc' = [pc EXCEPT ![p] = pc'[p]] /\ pc'[p] = "write"
    BY <1>2 DEF goto, TypeOK
  <2>8. path' \in File /\ path' # None
    BY <1>2, OpenedIs
  <2> QED BY <1>2, <2>2, <2>3, <2>6, <2>7, <2>8
<1> QED BY <1>1, <1>2 DEF create

(* What each process may hold in its variables.                            *)
LEMMA LocksAre ==
    ASSUME TypeOK
    PROVE  /\ Lock(path) \in LockContent \cup {None}
           /\ \A p \in Process : Lock(aside[p]) \in LockContent \cup {None}
  BY DEF TypeOK, Lock, File

(* The lock of a process that lives is not stale.                          *)
LEMMA OwnIsNotStale ==
    ASSUME TypeOK, OwnersInv, NEW q \in Process, mine[q] # None, NEW f, f # None
    PROVE  ~isStale(mine[q], f)
<1>1. mine[q].by = q
  BY DEF OwnersInv
<1>2. q \notin dead
  BY DEF OwnersInv, TypeOK
<1> QED BY <1>1, <1>2 DEF isStale, TypeOK

-----------------------------------------------------------------------------
(* Types, owners and writers.                                              *)

Basics == TypeOK /\ OwnersInv /\ WritersInv

Steps == {"idle", "write", "read", "judge", "rename", "reread", "rejudge",
          "remove", "recreate", "undo", "undo create", "undo write",
          "held", "touch", "release"}

(* A step of one process keeps the types.                                  *)
LEMMA StepTypes ==
    ASSUME TypeOK, NEW p \in Process, NEW step \in Steps, pc' = [pc EXCEPT ![p] = step],
           path' \in File \cup {None},
           aside' \in [Process -> File \cup {None}],
           \A q \in Process : q # p => (aside'[q] = None <=> aside[q] = None),
           aside'[p] # None <=>
               step \in {"reread", "rejudge", "remove", "undo", "undo create", "undo write"},
           mine' \in [Process -> LockContent \cup {None}],
           \A q \in Process : q # p => mine'[q] = mine[q],
           mine'[p] # None <=> step \in {"write", "held", "touch", "release"},
           seen' \in [Process -> LockContent \cup {None}],
           moved' \in [Process -> LockContent \cup {None}],
           UNCHANGED <<dead, reused>>, overdue' = overdue, mine[p] # None => mine'[p] # None
    PROVE  TypeOK'
<1>1. pc' \in [Process -> Steps] /\ pc'[p] = step
      /\ \A q \in Process : q # p => pc'[q] = pc[q]
  BY DEF TypeOK, Steps
<1>2. overdue' \subseteq {q \in Process : mine'[q] # None}
  BY DEF TypeOK
<1>3. dead' \subseteq Process \cup {Before} /\ reused' \subseteq dead'
  BY DEF TypeOK
<1>4. ASSUME NEW q \in Process
      PROVE  /\ mine'[q] # None <=> pc'[q] \in {"write", "held", "touch", "release"}
             /\ aside'[q] # None <=> pc'[q] \in
                    {"reread", "rejudge", "remove", "undo", "undo create", "undo write"}
  BY <1>1 DEF TypeOK
<1> QED BY <1>1, <1>2, <1>3, <1>4 DEF TypeOK, Steps

(* A file at the path, or moved aside.                                     *)
Around(f) == f = path \/ \E q \in Process : f = aside[q]

(* A step of p leaves each file as it was, or written, or opens one.       *)
LEMMA StepWriters ==
    ASSUME TypeOK, WritersInv, NEW p \in Process, NEW step \in Steps,
           pc' = [pc EXCEPT ![p] = step],
           \A f : Around(f)' =>
               \/ f = None \/ f.writer = None
               \/ f.writer # p /\ Around(f)
               \/ /\ f.lock = None /\ ~f.old /\ f.writer = p
                  /\ step \in {"write", "undo write"}
    PROVE  WritersInv'
<1>1. ASSUME NEW q \in Process, NEW f, Around(f)', f # None, f.writer = q
      PROVE  f.lock = None /\ ~f.old /\ pc'[q] \in {"write", "undo write"}
  <2>1. pc'[p] = step /\ (q # p => pc'[q] = pc[q])
    BY DEF TypeOK
  <2>2. q # None
    BY NoneAssumption
  <2>3. CASE f.writer # p /\ Around(f)
    <3>1. WrittenBy(f, q)
      BY <2>3 DEF WritersInv, Around
    <3> QED BY <1>1, <2>1, <2>3, <3>1 DEF WrittenBy
  <2>4. CASE /\ f.lock = None /\ ~f.old /\ f.writer = p
             /\ step \in {"write", "undo write"}
    BY <1>1, <2>1, <2>4
  <2> QED BY <1>1, <2>2, <2>3, <2>4
<1> QED BY <1>1 DEF WritersInv, WrittenBy, Around

(* Who is not at it writes no file.                                        *)
LEMMA NotWriting ==
    ASSUME WritersInv, NEW p \in Process, pc[p] \notin {"write", "undo write"}
    PROVE  \A f : Around(f) => f = None \/ f.writer # p
<1> SUFFICES ASSUME NEW f, Around(f) PROVE f = None \/ f.writer # p
  OBVIOUS
<1>1. WrittenBy(f, p)
  BY DEF WritersInv, Around
<1> QED BY <1>1 DEF WrittenBy

(* An attempt to create the lock file keeps the basics.                    *)
LEMMA CreateBasics ==
    ASSUME Basics, NEW p \in Process, NEW lost \in {"read", "idle"}, create(p, lost),
           pc[p] \in {"idle", "remove", "recreate"},
           aside' \in [Process -> File \cup {None}], aside'[p] = None,
           \A q \in Process : q # p => aside'[q] = aside[q],
           seen' \in [Process -> LockContent \cup {None}],
           moved' \in [Process -> LockContent \cup {None}],
           UNCHANGED <<dead, reused, overdue>>, p \notin dead
    PROVE  Basics'
<1>0. TypeOK /\ OwnersInv /\ WritersInv
  BY DEF Basics
<1>5. PICK step : step = pc'[p]
  OBVIOUS
<1>6. /\ path' \in File \cup {None} /\ path' # None
      /\ mine' \in [Process -> LockContent \cup {None}]
      /\ \A q \in Process : q # p => mine'[q] = mine[q]
      /\ pc' = [pc EXCEPT ![p] = step]
      /\ \/ /\ path = None /\ path' = Opened(p) /\ step = "write"
            /\ mine'[p] # None /\ mine'[p].by = p
         \/ /\ path # None /\ path' = path /\ step = lost
            /\ mine' = mine
  BY <1>0, <1>5, CreateIs
<1>7. pc[p] \notin {"write", "undo write"} /\ mine[p] = None
  BY <1>0 DEF TypeOK
<1>9. mine'[p] # None <=> step = "write"
  BY <1>6, <1>7
<1>10. step \in {"write", "read", "idle"}
  BY <1>6
<1>2. TypeOK'
  BY <1>0, <1>6, <1>7, <1>9, <1>10, StepTypes DEF Steps
<1>11. pc'[p] = step /\ \A q \in Process : q # p => pc'[q] = pc[q]
  BY <1>0, <1>6 DEF TypeOK
<1>3. OwnersInv'
  BY <1>0, <1>6, <1>7, <1>11 DEF OwnersInv
<1>4. WritersInv'
  <2> SUFFICES ASSUME NEW q \in Process
               PROVE  WrittenBy(path, q)' /\ \A r \in Process : WrittenBy(aside[r], q)'
    BY DEF WritersInv
  <2>1. ASSUME NEW f, WrittenBy(f, q), f = None \/ f.writer # p
        PROVE  f # None /\ f.writer = q =>
                   f.lock = None /\ ~f.old /\ pc'[q] \in {"write", "undo write"}
    BY <1>11, <2>1 DEF WrittenBy
  <2>2. \A f : WrittenBy(f, p) => f = None \/ f.writer # p
    BY <1>7 DEF WrittenBy
  <2>3. WrittenBy(path, q) /\ WrittenBy(path, p)
        /\ \A r \in Process : WrittenBy(aside[r], q) /\ WrittenBy(aside[r], p)
    BY <1>0 DEF WritersInv
  <2>4. WrittenBy(path, q)'
    <3>1. CASE path' = Opened(p) /\ step = "write"
      BY <1>11, <3>1, OpenedIs DEF WrittenBy
    <3>2. CASE path' = path
      BY <2>1, <2>2, <2>3, <3>2 DEF WrittenBy
    <3> QED BY <1>6, <3>1, <3>2
  <2>5. ASSUME NEW r \in Process PROVE WrittenBy(aside[r], q)'
    <3>1. aside'[r] = None \/ aside'[r] = aside[r]
      OBVIOUS
    <3> QED BY <2>1, <2>2, <2>3, <3>1 DEF WrittenBy
  <2> QED BY <2>4, <2>5
<1> QED BY <1>2, <1>3, <1>4 DEF Basics

(* An attempt at the lock keeps the basics.                              *)
LEMMA AcquireBasics ==
    ASSUME Basics, NEW p \in Process \ dead, Acquire(p)
    PROVE  Basics'
<1>1. TypeOK
  BY DEF Basics
<1>2. create(p, "read") /\ pc[p] \in {"idle", "remove", "recreate"}
  BY DEF Acquire
<1>3. /\ aside' \in [Process -> File \cup {None}] /\ aside'[p] = None
      /\ \A q \in Process : q # p => aside'[q] = aside[q]
      /\ seen' \in [Process -> LockContent \cup {None}]
      /\ moved' \in [Process -> LockContent \cup {None}]
      /\ UNCHANGED <<dead, reused, overdue>>
  BY <1>1 DEF Acquire, TypeOK
<1> QED BY <1>2, <1>3, CreateBasics

(* Writing the lock keeps the basics.                                      *)
LEMMA WriteBasics ==
    ASSUME Basics, NEW p \in Process \ dead, Write(p)
    PROVE  Basics'
<1>0. TypeOK /\ OwnersInv /\ WritersInv
  BY DEF Basics
<1>5. mine[p] \in LockContent \cup {None} /\ mine[p] # None
  BY <1>0 DEF Write, TypeOK
<1>6. PICK l : l = mine[p]
  OBVIOUS
<1>7. /\ path' \in File \cup {None}
      /\ aside' \in [Process -> File \cup {None}]
      /\ \A q \in Process : aside'[q] = None <=> aside[q] = None
      /\ \A f : Around(f)' =>
             (f = None \/ f.writer = None \/ (f.writer # p /\ Around(f)))
  <2>1. path' = written(path, p, l)
        /\ aside' = [q \in Process |-> written(aside[q], p, l)]
    BY <1>6 DEF Write
  <2>5. \A q \in Process : aside[q] \in File \cup {None}
    BY <1>0 DEF TypeOK
  <2>2. \A q \in Process : /\ written(aside[q], p, l) \in File \cup {None}
                           /\ written(aside[q], p, l) = None <=> aside[q] = None
    BY <1>5, <1>6, <2>5, WrittenIs
  <2>3. \A g \in File \cup {None} :
            \/ written(g, p, l) = None
            \/ written(g, p, l).writer = None
            \/ written(g, p, l).writer # p /\ written(g, p, l) = g
    <3> SUFFICES ASSUME NEW g \in File \cup {None}, g # None, g.writer # p
                 PROVE  written(g, p, l) = g
      BY <1>5, <1>6, WrittenIs
    <3> QED BY <1>5, <1>6, WrittenIs
  <2>4. path' \in File \cup {None}
    BY <1>0, <1>5, <1>6, <2>1, WrittenIs DEF TypeOK
  <2>6. path \in File \cup {None}
    BY <1>0 DEF TypeOK
  <2> QED BY <2>1, <2>2, <2>3, <2>4, <2>5, <2>6 DEF Around
<1>8. pc' = [pc EXCEPT ![p] = "held"] /\ aside[p] = None
  BY <1>0 DEF Write, goto, TypeOK
<1>2. TypeOK'
  BY <1>0, <1>5, <1>7, <1>8, StepTypes DEF Write, TypeOK, Steps
<1>3. OwnersInv'
  BY <1>0 DEF Write, goto, discard, TypeOK, OwnersInv
<1>4. WritersInv'
  BY <1>0, <1>7, <1>8, StepWriters DEF Steps
<1> QED BY <1>2, <1>3, <1>4 DEF Basics

(* Reading the lock keeps the basics.                                      *)
LEMMA ReadLockBasics ==
    ASSUME Basics, NEW p \in Process \ dead, ReadLock(p)
    PROVE  Basics'
<1>0. TypeOK /\ OwnersInv /\ WritersInv
  BY DEF Basics
<1>2. TypeOK'
  BY <1>0, LocksAre DEF ReadLock, goto, discard, TypeOK
<1>3. OwnersInv'
  BY <1>0 DEF ReadLock, goto, discard, TypeOK, OwnersInv
<1>4. WritersInv'
  BY <1>0, LocksAre DEF ReadLock, goto, discard, TypeOK, WritersInv, WrittenBy
<1> QED BY <1>2, <1>3, <1>4 DEF Basics

(* The first verdict keeps the basics.                                     *)
LEMMA JudgeBasics ==
    ASSUME Basics, NEW p \in Process \ dead, Judge(p)
    PROVE  Basics'
<1>0. TypeOK /\ OwnersInv /\ WritersInv
  BY DEF Basics
<1>2. TypeOK'
  BY <1>0 DEF Judge, goto, discard, TypeOK
<1>3. OwnersInv'
  BY <1>0 DEF Judge, goto, discard, TypeOK, OwnersInv
<1>4. WritersInv'
  BY <1>0, ZenonT(40) DEF Judge, goto, discard, TypeOK, WritersInv, WrittenBy
<1> QED BY <1>2, <1>3, <1>4 DEF Basics

(* The takeover keeps the basics.                                          *)
LEMMA RenameBasics ==
    ASSUME Basics, NEW p \in Process \ dead, Rename(p)
    PROVE  Basics'
<1>0. TypeOK /\ OwnersInv /\ WritersInv
  BY DEF Basics
<1>2. TypeOK'
  BY <1>0 DEF Rename, goto, discard, TypeOK
<1>3. OwnersInv'
  BY <1>0 DEF Rename, goto, discard, TypeOK, OwnersInv
<1>4. WritersInv'
  <2>1. PICK step : step = pc'[p]
    OBVIOUS
  <2>2. step \in Steps /\ pc' = [pc EXCEPT ![p] = step]
    BY <1>0, <2>1 DEF Rename, goto, TypeOK, Steps
  <2>3. \A f : Around(f)' => f = None \/ Around(f)
    BY <1>0 DEF Rename, TypeOK, Around
  <2>4. \A f : Around(f) => f = None \/ f.writer # p
    BY <1>0, NotWriting DEF Rename
  <2> QED BY <1>0, <2>2, <2>3, <2>4, StepWriters
<1> QED BY <1>2, <1>3, <1>4 DEF Basics

(* Reading what was moved keeps the basics.                                *)
LEMMA RereadBasics ==
    ASSUME Basics, NEW p \in Process \ dead, Reread(p)
    PROVE  Basics'
<1>0. TypeOK /\ OwnersInv /\ WritersInv
  BY DEF Basics
<1>2. TypeOK'
  BY <1>0, LocksAre DEF Reread, goto, discard, TypeOK
<1>3. OwnersInv'
  BY <1>0 DEF Reread, goto, discard, TypeOK, OwnersInv
<1>4. WritersInv'
  BY <1>0, LocksAre DEF Reread, goto, discard, TypeOK, WritersInv, WrittenBy
<1> QED BY <1>2, <1>3, <1>4 DEF Basics

(* The second verdict keeps the basics.                                    *)
LEMMA RejudgeBasics ==
    ASSUME Basics, NEW p \in Process \ dead, Rejudge(p)
    PROVE  Basics'
<1>0. TypeOK /\ OwnersInv /\ WritersInv
  BY DEF Basics
<1>2. TypeOK'
  BY <1>0 DEF Rejudge, goto, discard, TypeOK
<1>3. OwnersInv'
  BY <1>0 DEF Rejudge, goto, discard, TypeOK, OwnersInv
<1>4. WritersInv'
  BY <1>0 DEF Rejudge, goto, discard, TypeOK, WritersInv, WrittenBy
<1> QED BY <1>2, <1>3, <1>4 DEF Basics

(* Removing what was stale keeps the basics.                             *)
LEMMA RemoveBasics ==
    ASSUME Basics, NEW p \in Process \ dead, Remove(p)
    PROVE  Basics'
<1>1. TypeOK
  BY DEF Basics
<1>2. create(p, "idle") /\ pc[p] \in {"idle", "remove", "recreate"}
  BY DEF Remove
<1>3. /\ aside' \in [Process -> File \cup {None}] /\ aside'[p] = None
      /\ \A q \in Process : q # p => aside'[q] = aside[q]
      /\ seen' \in [Process -> LockContent \cup {None}]
      /\ moved' \in [Process -> LockContent \cup {None}]
      /\ UNCHANGED <<dead, reused, overdue>>
  BY <1>1 DEF Remove, TypeOK, discard
<1> QED BY <1>2, <1>3, CreateBasics

(* Another attempt keeps the basics.                                     *)
LEMMA RecreateBasics ==
    ASSUME Basics, NEW p \in Process \ dead, Recreate(p)
    PROVE  Basics'
<1>1. TypeOK
  BY DEF Basics
<1>2. create(p, "idle") /\ pc[p] \in {"idle", "remove", "recreate"}
  BY DEF Recreate
<1>3. /\ aside' \in [Process -> File \cup {None}] /\ aside'[p] = None
      /\ \A q \in Process : q # p => aside'[q] = aside[q]
      /\ seen' \in [Process -> LockContent \cup {None}]
      /\ moved' \in [Process -> LockContent \cup {None}]
      /\ UNCHANGED <<dead, reused, overdue>>
  BY <1>1 DEF Recreate, TypeOK
<1> QED BY <1>2, <1>3, CreateBasics

(* Reading what is put back keeps the basics.                              *)
LEMMA UndoReadBasics ==
    ASSUME Basics, NEW p \in Process \ dead, UndoRead(p)
    PROVE  Basics'
<1>0. TypeOK /\ OwnersInv /\ WritersInv
  BY DEF Basics
<1>2. TypeOK'
  BY <1>0, LocksAre DEF UndoRead, goto, discard, TypeOK
<1>3. OwnersInv'
  BY <1>0 DEF UndoRead, goto, discard, TypeOK, OwnersInv
<1>4. WritersInv'
  BY <1>0, LocksAre DEF UndoRead, goto, discard, TypeOK, WritersInv, WrittenBy
<1> QED BY <1>2, <1>3, <1>4 DEF Basics

(* Opening the path again keeps the basics.                                *)
LEMMA UndoCreateBasics ==
    ASSUME Basics, NEW p \in Process \ dead, UndoCreate(p)
    PROVE  Basics'
<1>0. TypeOK /\ OwnersInv /\ WritersInv
  BY DEF Basics
<1>5. mine[p] = None /\ path' \in File \cup {None}
  BY <1>0, OpenedIs DEF UndoCreate, TypeOK
<1>6. PICK step : step = pc'[p]
  OBVIOUS
<1>7. /\ step \in {"undo write", "idle"} /\ pc' = [pc EXCEPT ![p] = step]
      /\ aside' \in [Process -> File \cup {None}]
      /\ \A q \in Process : q # p => aside'[q] = aside[q]
      /\ aside'[p] # None <=> step = "undo write"
      /\ seen' \in [Process -> LockContent \cup {None}]
      /\ moved' \in [Process -> LockContent \cup {None}]
  <2>1. CASE path = None
    BY <1>0, <1>6, <2>1 DEF UndoCreate, goto, TypeOK
  <2>2. CASE path # None
    BY <1>0, <1>6, <2>2 DEF UndoCreate, goto, discard, TypeOK
  <2> QED BY <2>1, <2>2
<1>2. TypeOK'
  BY <1>0, <1>5, <1>7, StepTypes DEF UndoCreate, TypeOK, Steps
<1>3. OwnersInv'
  BY <1>0 DEF UndoCreate, goto, discard, TypeOK, OwnersInv
<1>4. WritersInv'
  <2>1. \A f : Around(f) => f = None \/ f.writer # p
    BY <1>0, NotWriting DEF UndoCreate
  <2>2. CASE path = None
    <3>1. path' = Opened(p) /\ aside' = aside /\ step = "undo write"
      BY <1>0, <1>6, <2>2 DEF UndoCreate, goto, TypeOK
    <3>2. \A f : Around(f)' => f = Opened(p) \/ Around(f)
      BY <3>1 DEF Around
    <3> QED BY <1>0, <1>7, <2>1, <3>1, <3>2, OpenedIs, StepWriters DEF Steps
  <2>3. CASE path # None
    <3>1. path' = path /\ aside'[p] = None
      BY <1>0, <2>3 DEF UndoCreate, discard, TypeOK
    <3>2. \A f : Around(f)' => f = None \/ Around(f)
      BY <1>7, <3>1 DEF Around
    <3> QED BY <1>0, <1>7, <2>1, <3>2, StepWriters DEF Steps
  <2> QED BY <2>2, <2>3
<1> QED BY <1>2, <1>3, <1>4 DEF Basics

(* Putting it back keeps the basics.                                       *)
LEMMA UndoWriteBasics ==
    ASSUME Basics, NEW p \in Process \ dead, UndoWrite(p)
    PROVE  Basics'
<1>0. TypeOK /\ OwnersInv /\ WritersInv
  BY DEF Basics
<1>5. moved[p] \in LockContent \cup {None} /\ mine[p] = None
  BY <1>0 DEF UndoWrite, TypeOK
<1>6. PICK l : l = moved[p]
  OBVIOUS
<1>7. /\ path' \in File \cup {None}
      /\ aside' \in [Process -> File \cup {None}] /\ aside'[p] = None
      /\ \A q \in Process : q # p => (aside'[q] = None <=> aside[q] = None)
      /\ \A f : Around(f)' =>
             (f = None \/ f.writer = None \/ (f.writer # p /\ Around(f)))
  <2>1. /\ path' = written(path, p, l)
        /\ aside' = [q \in Process |-> IF q = p THEN None ELSE written(aside[q], p, l)]
    BY <1>6 DEF UndoWrite
  <2>5. \A q \in Process : aside[q] \in File \cup {None}
    BY <1>0 DEF TypeOK
  <2>2. \A q \in Process : /\ written(aside[q], p, l) \in File \cup {None}
                           /\ written(aside[q], p, l) = None <=> aside[q] = None
    BY <1>5, <1>6, <2>5, WrittenIs
  <2>3. \A g \in File \cup {None} :
            \/ written(g, p, l) = None
            \/ written(g, p, l).writer = None
            \/ written(g, p, l).writer # p /\ written(g, p, l) = g
    <3> SUFFICES ASSUME NEW g \in File \cup {None}, g # None, g.writer # p
                 PROVE  written(g, p, l) = g
      BY <1>5, <1>6, WrittenIs
    <3> QED BY <1>5, <1>6, WrittenIs
  <2>4. path' \in File \cup {None}
    BY <1>0, <1>5, <1>6, <2>1, WrittenIs DEF TypeOK
  <2>6. path \in File \cup {None}
    BY <1>0 DEF TypeOK
  <2> QED BY <2>1, <2>2, <2>3, <2>4, <2>5, <2>6 DEF Around
<1>8. pc' = [pc EXCEPT ![p] = "idle"]
  BY DEF UndoWrite, goto
<1>9. seen' \in [Process -> LockContent \cup {None}] /\ moved' \in [Process -> LockContent \cup {None}]
  BY <1>0 DEF UndoWrite, TypeOK
<1>2. TypeOK'
  BY <1>0, <1>5, <1>7, <1>8, <1>9, StepTypes DEF UndoWrite, TypeOK, Steps
<1>3. OwnersInv'
  BY <1>0 DEF UndoWrite, goto, discard, TypeOK, OwnersInv
<1>4. WritersInv'
  BY <1>0, <1>7, <1>8, StepWriters DEF Steps
<1> QED BY <1>2, <1>3, <1>4 DEF Basics

(* A heartbeat keeps the basics.                                           *)
LEMMA RefreshBasics ==
    ASSUME Basics, NEW p \in Process \ dead, Refresh(p)
    PROVE  Basics'
<1>0. TypeOK /\ OwnersInv /\ WritersInv
  BY DEF Basics
<1>2. TypeOK'
  BY <1>0 DEF Refresh, goto, discard, TypeOK
<1>3. OwnersInv'
  BY <1>0 DEF Refresh, goto, discard, TypeOK, OwnersInv
<1>4. WritersInv'
  BY <1>0 DEF Refresh, goto, discard, TypeOK, WritersInv, WrittenBy
<1> QED BY <1>2, <1>3, <1>4 DEF Basics

(* Touching the file keeps the basics.                                     *)
LEMMA TouchBasics ==
    ASSUME Basics, NEW p \in Process \ dead, Touch(p)
    PROVE  Basics'
<1>0. TypeOK /\ OwnersInv /\ WritersInv
  BY DEF Basics
<1>5. /\ path' \in File \cup {None} /\ (path' = None <=> path = None)
      /\ path # None => path'.lock = path.lock /\ path'.writer = path.writer /\ ~path'.old
  BY <1>0, TouchedIs DEF Touch, TypeOK
<1>6. pc' = [pc EXCEPT ![p] = "held"] /\ mine[p] # None /\ aside[p] = None
  BY <1>0 DEF Touch, goto, TypeOK
<1>2. TypeOK'
  BY <1>0, <1>5, <1>6, StepTypes DEF Touch, TypeOK, Steps
<1>3. OwnersInv'
  BY <1>0 DEF Touch, goto, discard, TypeOK, OwnersInv
<1>4. WritersInv'
  <2>1. pc'[p] = "held" /\ \A q \in Process : q # p => pc'[q] = pc[q]
    BY <1>0, <1>6 DEF TypeOK
  <2>2. pc[p] = "touch" /\ aside' = aside
    BY DEF Touch
  <2>3. ASSUME NEW q \in Process PROVE WrittenBy(path, q)'
    BY <1>0, <1>5, <2>1, <2>2 DEF WritersInv, WrittenBy
  <2>4. ASSUME NEW q \in Process, NEW r \in Process PROVE WrittenBy(aside[r], q)'
    BY <1>0, <2>1, <2>2 DEF WritersInv, WrittenBy
  <2> QED BY <2>3, <2>4 DEF WritersInv
<1> QED BY <1>2, <1>3, <1>4 DEF Basics

(* A check before the release keeps the basics.                            *)
LEMMA ReleaseBasics ==
    ASSUME Basics, NEW p \in Process \ dead, Release(p)
    PROVE  Basics'
<1>0. TypeOK /\ OwnersInv /\ WritersInv
  BY DEF Basics
<1>2. TypeOK'
  BY <1>0 DEF Release, goto, discard, TypeOK
<1>3. OwnersInv'
  BY <1>0 DEF Release, goto, discard, TypeOK, OwnersInv
<1>4. WritersInv'
  BY <1>0 DEF Release, goto, discard, TypeOK, WritersInv, WrittenBy
<1> QED BY <1>2, <1>3, <1>4 DEF Basics

(* The release keeps the basics.                                           *)
LEMMA ReleaseRemoveBasics ==
    ASSUME Basics, NEW p \in Process \ dead, ReleaseRemove(p)
    PROVE  Basics'
<1>0. TypeOK /\ OwnersInv /\ WritersInv
  BY DEF Basics
<1>2. TypeOK'
  BY <1>0 DEF ReleaseRemove, goto, discard, TypeOK
<1>3. OwnersInv'
  BY <1>0 DEF ReleaseRemove, goto, discard, TypeOK, OwnersInv
<1>4. WritersInv'
  BY <1>0 DEF ReleaseRemove, goto, discard, TypeOK, WritersInv, WrittenBy
<1> QED BY <1>2, <1>3, <1>4 DEF Basics

(* What a file is once the handle of p is gone.                            *)
abandoned(f, p) ==
    IF f # None /\ f.writer = p THEN [f EXCEPT !.writer = None] ELSE f

(* The types hold of it, and only its writer is gone.                      *)
LEMMA AbandonedIs ==
    ASSUME NEW f \in File \cup {None}, NEW p \in Process
    PROVE  /\ abandoned(f, p) \in File \cup {None}
           /\ abandoned(f, p) = None <=> f = None
           /\ f # None => abandoned(f, p).lock = f.lock
           /\ f # None /\ f.writer = p => abandoned(f, p).writer = None
           /\ ~(f # None /\ f.writer = p) => abandoned(f, p) = f
<1>0. PICK g : g = abandoned(f, p)
  OBVIOUS
<1>1. CASE f # None /\ f.writer = p
  <2>1. f \in File /\ g = [f EXCEPT !.writer = None]
    BY <1>0, <1>1 DEF abandoned
  <2>2. g \in File /\ g.lock = f.lock /\ g.writer = None
    BY <2>1 DEF File
  <2>3. g # None
    BY <2>2, NoneAssumption
  <2> QED BY <1>0, <1>1, <2>2, <2>3
<1>2. CASE ~(f # None /\ f.writer = p)
  BY <1>2 DEF abandoned
<1> QED BY <1>1, <1>2

(* The death of a process keeps the basics.                                *)
LEMMA CrashBasics ==
    ASSUME Basics, NEW p \in Process, Crash(p)
    PROVE  Basics'
<1>0. TypeOK /\ OwnersInv /\ WritersInv
  BY DEF Basics
<1>1. path \in File \cup {None} /\ \A q \in Process : aside[q] \in File \cup {None}
  BY <1>0 DEF TypeOK
<1>2. /\ path' = abandoned(path, p)
      /\ aside' = [q \in Process |-> IF q = p THEN None ELSE abandoned(aside[q], p)]
  BY DEF Crash, abandoned
<1>3. /\ path' \in File \cup {None}
      /\ aside' \in [Process -> File \cup {None}] /\ aside'[p] = None
      /\ \A q \in Process : q # p => (aside'[q] = None <=> aside[q] = None)
  <2>1. \A q \in Process : /\ abandoned(aside[q], p) \in File \cup {None}
                           /\ abandoned(aside[q], p) = None <=> aside[q] = None
    BY <1>1, AbandonedIs
  <2>2. path' \in File \cup {None}
    BY <1>1, <1>2, AbandonedIs
  <2> QED BY <1>2, <2>1, <2>2
<1>4. \A f : Around(f)' => (f = None \/ f.writer = None \/ (f.writer # p /\ Around(f)))
  <2>1. \A g \in File \cup {None} :
            \/ abandoned(g, p) = None
            \/ abandoned(g, p).writer = None
            \/ abandoned(g, p).writer # p /\ abandoned(g, p) = g
    <3> SUFFICES ASSUME NEW g \in File \cup {None}, g # None, g.writer # p
                 PROVE  abandoned(g, p) = g
      BY AbandonedIs
    <3> QED BY AbandonedIs
  <2> QED BY <1>1, <1>2, <2>1 DEF Around
<1>5. /\ pc' = [pc EXCEPT ![p] = "idle"] /\ mine' = [mine EXCEPT ![p] = None]
      /\ p \in Process \ dead /\ dead' = dead \cup {p} /\ reused' = reused
      /\ seen' \in [Process -> LockContent \cup {None}]
      /\ moved' \in [Process -> LockContent \cup {None}]
      /\ overdue' = {q \in overdue : mine'[q] # None}
  BY <1>0 DEF Crash, goto, Live, TypeOK
<1>6. TypeOK'
  <2>1. /\ pc'[p] = "idle" /\ mine'[p] = None
        /\ \A q \in Process : q # p => pc'[q] = pc[q] /\ mine'[q] = mine[q]
    BY <1>0, <1>5 DEF TypeOK
  <2>2. /\ pc' \in [Process -> Steps] /\ mine' \in [Process -> LockContent \cup {None}]
    BY <1>0, <1>5 DEF TypeOK, Steps
  <2>3. overdue' \subseteq {q \in Process : mine'[q] # None}
    BY <1>0, <1>5 DEF TypeOK
  <2>4. dead' \subseteq Process \cup {Before} /\ reused' \subseteq dead'
    BY <1>0, <1>5 DEF TypeOK
  <2>5. ASSUME NEW q \in Process
        PROVE  /\ mine'[q] # None <=> pc'[q] \in {"write", "held", "touch", "release"}
               /\ aside'[q] # None <=> pc'[q] \in
                      {"reread", "rejudge", "remove", "undo", "undo create", "undo write"}
    BY <1>0, <1>3, <2>1 DEF TypeOK
  <2> QED BY <1>3, <1>5, <2>2, <2>3, <2>4, <2>5 DEF TypeOK, Steps
<1>7. OwnersInv'
  BY <1>0, <1>5, ZenonT(40) DEF TypeOK, OwnersInv
<1>8. WritersInv'
  BY <1>0, <1>4, <1>5, StepWriters DEF Steps
<1> QED BY <1>6, <1>7, <1>8 DEF Basics

(* A PID given to another process keeps the basics.                        *)
LEMMA ReusePidBasics ==
    ASSUME Basics, NEW p, ReusePid(p)
    PROVE  Basics'
<1>0. TypeOK /\ OwnersInv /\ WritersInv
  BY DEF Basics
<1>2. TypeOK'
  BY <1>0 DEF ReusePid, TypeOK
<1>3. OwnersInv'
  BY <1>0 DEF ReusePid, OwnersInv
<1>4. WritersInv'
  BY <1>0 DEF ReusePid, WritersInv, WrittenBy
<1> QED BY <1>2, <1>3, <1>4 DEF Basics

(* The file at the path, grown old.                                        *)
LEMMA AgedIs ==
    ASSUME TypeOK, Age
    PROVE  /\ path' \in File /\ path' # None /\ path # None
           /\ path'.lock = path.lock /\ path'.writer = None /\ path.writer = None
<1>1. PICK old \in BOOLEAN : old = TRUE
  OBVIOUS
<1>2. path \in File /\ path # None /\ path.writer = None
  BY DEF Age, TypeOK
<1>3. path' = [path EXCEPT !.old = old]
  BY <1>1 DEF Age
<1>4. path' \in File /\ path'.lock = path.lock /\ path'.writer = path.writer
  BY <1>2, <1>3 DEF File
<1>5. path' # None
  BY <1>4, NoneAssumption
<1> QED BY <1>2, <1>4, <1>5

(* A file that grows old keeps the basics.                                 *)
LEMMA AgeBasics ==
    ASSUME Basics, Age
    PROVE  Basics'
<1>0. TypeOK /\ OwnersInv /\ WritersInv
  BY DEF Basics
<1>1. path' \in File /\ path' # None /\ path'.writer = None
  BY <1>0, AgedIs
<1>2. TypeOK'
  BY <1>0, <1>1 DEF Age, TypeOK
<1>3. OwnersInv'
  BY <1>0 DEF Age, OwnersInv
<1>4. WritersInv'
  <2>1. \A q \in Process : q # None
    BY NoneAssumption
  <2>2. pc' = pc /\ aside' = aside
    BY DEF Age
  <2>3. ASSUME NEW q \in Process PROVE WrittenBy(path, q)'
    BY <1>1, <2>1 DEF WrittenBy
  <2>4. ASSUME NEW q \in Process, NEW r \in Process PROVE WrittenBy(aside[r], q)'
    BY <1>0, <2>2 DEF WritersInv, WrittenBy
  <2> QED BY <2>3, <2>4 DEF WritersInv
<1> QED BY <1>2, <1>3, <1>4 DEF Basics

(* Every step keeps the basics.                                            *)
LEMMA NextBasics ==
    ASSUME Basics, Next
    PROVE  Basics'
<1>1. ASSUME NEW p \in Live, Contend(p) PROVE Basics'
  BY <1>1, AcquireBasics, WriteBasics, ReadLockBasics, JudgeBasics, RenameBasics,
     RereadBasics, RejudgeBasics, RemoveBasics, RecreateBasics, UndoReadBasics,
     UndoCreateBasics, UndoWriteBasics DEF Contend, Live
<1>2. ASSUME NEW p \in Live, Hold(p) PROVE Basics'
  BY <1>2, RefreshBasics, TouchBasics, ReleaseBasics, ReleaseRemoveBasics DEF Hold, Live
<1> QED BY <1>1, <1>2, CrashBasics, ReusePidBasics, AgeBasics DEF Next

-----------------------------------------------------------------------------
(* Two processes: q owns a lock, p is the other one.                       *)

(* What p does keeps what protects q.                                      *)
Protected(q, p) ==
    /\ Kept(q, p) => Kept(q, p)'
    /\ Blocked(q, p) => Blocked(q, p)'

(* What p does leaves the lock of q alone.                                 *)
LeftAlone(q) == mine'[q] = mine[q] /\ pc'[q] = pc[q]

(* A file with a lock in it is nobody's to write.                          *)
LEMMA NotBoth ==
    ASSUME Basics, NEW p \in Process
    PROVE  /\ path # None /\ path.lock # None => path.writer # p
           /\ \A q \in Process : aside[q] # None /\ aside[q].lock # None => aside[q].writer # p
<1>1. WrittenBy(path, p) /\ \A q \in Process : WrittenBy(aside[q], p)
  BY DEF Basics, WritersInv
<1> QED BY <1>1 DEF WrittenBy

(* The two who are not the same are all there are.                         *)
LEMMA Others ==
    ASSUME AtMostTwo, NEW p \in Process, NEW q \in Process, NEW r \in Process, p # q
    PROVE  r = p \/ r = q
  BY DEF AtMostTwo

(* An attempt to create the lock file, while another process owns a lock.  *)
LEMMA CreateProtects ==
    ASSUME Basics, NEW p \in Process, NEW q \in Process, p # q, mine[q] # None,
           NEW lost \in {"read", "idle"}, create(p, lost),
           pc[p] \in {"idle", "remove", "recreate"},
           aside'[p] = None
    PROVE  LeftAlone(q) /\ Protected(q, p)
<1>0. TypeOK /\ OwnersInv /\ WritersInv
  BY DEF Basics
<1>1. /\ mine'[q] = mine[q]
      /\ pc' = [pc EXCEPT ![p] = pc'[p]]
      /\ path # None => path' = path /\ pc'[p] = lost
  BY <1>0, CreateIs
<1>2. pc'[q] = pc[q]
  BY <1>0, <1>1 DEF TypeOK
<1>10. LeftAlone(q)
  BY <1>1, <1>2 DEF LeftAlone
<1>11. Kept(q, p) => Kept(q, p)'
  BY <1>1 DEF Kept, Examines
<1>12. Opening(q, p) => Opening(q, p)'
  BY <1>1, <1>2 DEF Opening, Examines
<1>13. Taken(p) => Taken(p)'
  BY <1>1 DEF Taken
<1> QED BY <1>10, <1>11, <1>12, <1>13 DEF Protected, Blocked

(* An attempt at the lock.                                               *)
LEMMA AcquireProtects ==
    ASSUME Basics, NEW p \in Process, NEW q \in Process, p # q, mine[q] # None, Acquire(p)
    PROVE  LeftAlone(q) /\ Protected(q, p)
<1>0. TypeOK
  BY DEF Basics
<1>1. create(p, "read") /\ pc[p] \in {"idle", "remove", "recreate"}
  BY DEF Acquire
<1>2. aside'[p] = None
  BY <1>0 DEF Acquire, TypeOK
<1> QED BY <1>1, <1>2, CreateProtects

(* What p removes is not what protects q.                                *)
LEMMA RemoveProtects ==
    ASSUME Basics, NEW p \in Process, NEW q \in Process, p # q, mine[q] # None, Remove(p)
    PROVE  LeftAlone(q) /\ Protected(q, p)
<1>0. TypeOK
  BY DEF Basics
<1>1. create(p, "idle") /\ pc[p] \in {"idle", "remove", "recreate"}
  BY DEF Remove
<1>2. aside'[p] = None
  BY <1>0 DEF Remove, TypeOK, discard
<1> QED BY <1>1, <1>2, CreateProtects

(* The attempt after a takeover.                                         *)
LEMMA RecreateProtects ==
    ASSUME Basics, NEW p \in Process, NEW q \in Process, p # q, mine[q] # None, Recreate(p)
    PROVE  LeftAlone(q) /\ Protected(q, p)
<1>0. TypeOK
  BY DEF Basics
<1>1. create(p, "idle") /\ pc[p] \in {"idle", "remove", "recreate"}
  BY DEF Recreate
<1>2. aside'[p] = None
  BY <1>0 DEF Recreate, TypeOK
<1> QED BY <1>1, <1>2, CreateProtects

(* Writing a lock of its own.                                            *)
LEMMA WriteProtects ==
    ASSUME Basics, NEW p \in Process, NEW q \in Process, p # q, mine[q] # None, Write(p)
    PROVE  LeftAlone(q) /\ Protected(q, p)
<1>0. TypeOK /\ OwnersInv /\ WritersInv
  BY DEF Basics
<1>1. pc[p] = "write" /\ pc'[p] = "held" /\ path' = written(path, p, mine[p])
  BY <1>0 DEF Write, goto, TypeOK
<1>2. path # None /\ path.writer # p => path' = path
  BY <1>1 DEF written
<1>10. LeftAlone(q)
  BY <1>0 DEF Write, goto, TypeOK, LeftAlone
<1>11. Kept(q, p) => Kept(q, p)'
  BY <1>1, <1>2, <1>10, NotBoth DEF Kept, Examines, LeftAlone
<1>12. Opening(q, p) => Opening(q, p)'
  BY <1>1, <1>2, <1>10 DEF Opening, Examines, LeftAlone
<1>13. Taken(p) => Taken(p)'
  BY <1>1 DEF Taken
<1> QED BY <1>10, <1>11, <1>12, <1>13 DEF Protected, Blocked

(* Reading the lock at the path.                                         *)
LEMMA ReadLockProtects ==
    ASSUME Basics, NEW p \in Process, NEW q \in Process, p # q, mine[q] # None, ReadLock(p)
    PROVE  LeftAlone(q) /\ Protected(q, p)
<1>0. TypeOK /\ OwnersInv /\ WritersInv
  BY DEF Basics
<1>10. LeftAlone(q)
  BY <1>0 DEF ReadLock, goto, TypeOK, LeftAlone
<1>11. Kept(q, p) => Kept(q, p)'
  BY <1>0 DEF ReadLock, goto, TypeOK, Kept, Examines, Lock
<1>12. Opening(q, p) => Opening(q, p)'
  BY <1>0 DEF ReadLock, goto, TypeOK, Opening, Examines, Lock
<1>13. Taken(p) => Taken(p)'
  BY <1>0 DEF ReadLock, goto, TypeOK, Taken, Lock
<1> QED BY <1>10, <1>11, <1>12, <1>13 DEF Protected, Blocked

(* A lock of a process that lives, or a new file, is not stale.          *)
LEMMA JudgeProtects ==
    ASSUME Basics, NEW p \in Process, NEW q \in Process, p # q, mine[q] # None, Judge(p)
    PROVE  LeftAlone(q) /\ Protected(q, p)
<1>0. TypeOK /\ OwnersInv /\ WritersInv
  BY DEF Basics
<1>10. LeftAlone(q)
  BY <1>0 DEF Judge, goto, TypeOK, LeftAlone
<1>11. Kept(q, p) => Kept(q, p)'
  BY <1>0 DEF Judge, goto, TypeOK, Kept, Examines
<1>12. Opening(q, p) => Opening(q, p)'
  BY <1>0 DEF Judge, goto, TypeOK, Opening, Examines
<1>13. Taken(p) => Taken(p)'
  <2> SUFFICES ASSUME Taken(p) PROVE Taken(p)'
    OBVIOUS
  <2>1. path' = path /\ pc[p] = "judge"
    BY DEF Judge
  <2>2. ~isStale(seen[p], path)
    BY <2>1 DEF Taken, isStale
  <2>3. pc'[p] = "idle"
    BY <1>0, <2>2 DEF Judge, goto, TypeOK
  <2> QED BY <2>1, <2>3 DEF Taken
<1> QED BY <1>10, <1>11, <1>12, <1>13 DEF Protected, Blocked

(* The file that protects q, renamed away.                               *)
LEMMA RenameProtects ==
    ASSUME Basics, NEW p \in Process, NEW q \in Process, p # q, mine[q] # None, Rename(p)
    PROVE  LeftAlone(q) /\ Protected(q, p)
<1>0. TypeOK /\ OwnersInv /\ WritersInv
  BY DEF Basics
<1>1. pc[p] = "rename" /\ seen' = seen
  BY DEF Rename
<1>2. path # None => path' = None /\ aside'[p] = path /\ pc'[p] = "reread"
  BY <1>0 DEF Rename, goto, TypeOK
<1>10. LeftAlone(q)
  BY <1>0 DEF Rename, goto, TypeOK, LeftAlone
<1>11. Kept(q, p) => Kept(q, p)'
  BY <1>1, <1>2, <1>10 DEF Kept, Examines, LeftAlone
<1>12. Opening(q, p) => Opening(q, p)'
  <2> SUFFICES ASSUME Opening(q, p) PROVE Opening(q, p)'
    OBVIOUS
  <2>1. pc[q] = "write" /\ path # None /\ path.writer = q
    BY <1>1 DEF Opening, Examines
  <2>2. path.lock = None /\ ~path.old
    BY <1>0, <2>1 DEF WritersInv, WrittenBy
  <2> QED BY <1>2, <1>10, <2>1, <2>2 DEF Opening, Examines, LeftAlone
<1>13. Taken(p) => Taken(p)'
  BY <1>1 DEF Taken
<1> QED BY <1>10, <1>11, <1>12, <1>13 DEF Protected, Blocked

(* Reading what was renamed away.                                        *)
LEMMA RereadProtects ==
    ASSUME Basics, NEW p \in Process, NEW q \in Process, p # q, mine[q] # None, Reread(p)
    PROVE  LeftAlone(q) /\ Protected(q, p)
<1>0. TypeOK /\ OwnersInv /\ WritersInv
  BY DEF Basics
<1>1. /\ pc[p] = "reread" /\ pc'[p] = "rejudge" /\ aside[p] # None
      /\ moved'[p] = aside[p].lock /\ path' = path /\ aside' = aside
  BY <1>0 DEF Reread, goto, TypeOK, Lock
<1>10. LeftAlone(q)
  BY <1>0 DEF Reread, goto, TypeOK, LeftAlone
<1>11. Kept(q, p) => Kept(q, p)'
  BY <1>1, <1>10 DEF Kept, Examines, LeftAlone
<1>12. Opening(q, p) => Opening(q, p)'
  BY <1>1, <1>10 DEF Opening, Examines, LeftAlone
<1>13. Taken(p) => Taken(p)'
  BY <1>1 DEF Taken
<1> QED BY <1>10, <1>11, <1>12, <1>13 DEF Protected, Blocked

(* Reading what is to be put back.                                       *)
LEMMA UndoReadProtects ==
    ASSUME Basics, NEW p \in Process, NEW q \in Process, p # q, mine[q] # None, UndoRead(p)
    PROVE  LeftAlone(q) /\ Protected(q, p)
<1>0. TypeOK /\ OwnersInv /\ WritersInv
  BY DEF Basics
<1>1. /\ pc[p] = "undo" /\ pc'[p] = "undo create" /\ aside[p] # None
      /\ moved'[p] = aside[p].lock /\ path' = path /\ aside' = aside
  BY <1>0 DEF UndoRead, goto, TypeOK, Lock
<1>10. LeftAlone(q)
  BY <1>0 DEF UndoRead, goto, TypeOK, LeftAlone
<1>11. Kept(q, p) => Kept(q, p)'
  BY <1>1, <1>10 DEF Kept, Examines, LeftAlone
<1>12. Opening(q, p) => Opening(q, p)'
  BY <1>1, <1>10 DEF Opening, Examines, LeftAlone
<1>13. Taken(p) => Taken(p)'
  BY <1>1 DEF Taken
<1> QED BY <1>10, <1>11, <1>12, <1>13 DEF Protected, Blocked

(* The lock of a process that lives is put back.                         *)
LEMMA RejudgeProtects ==
    ASSUME Basics, NEW p \in Process, NEW q \in Process, p # q, mine[q] # None, Rejudge(p)
    PROVE  LeftAlone(q) /\ Protected(q, p)
<1>0. TypeOK /\ OwnersInv /\ WritersInv
  BY DEF Basics
<1>1. /\ pc[p] = "rejudge" /\ aside[p] # None
      /\ moved' = moved /\ path' = path /\ aside' = aside
  BY <1>0 DEF Rejudge, TypeOK
<1>2. ~isStale(moved[p], aside[p]) => pc'[p] = "undo"
  BY <1>0 DEF Rejudge, goto, TypeOK
<1>3. moved[p] = mine[q] => pc'[p] = "undo"
  BY <1>0, <1>1, <1>2, OwnIsNotStale
<1>10. LeftAlone(q)
  BY <1>0 DEF Rejudge, goto, TypeOK, LeftAlone
<1>11. Kept(q, p) => Kept(q, p)'
  BY <1>1, <1>3, <1>10 DEF Kept, Examines, LeftAlone
<1>12. Opening(q, p) => Opening(q, p)'
  <2> SUFFICES ASSUME Opening(q, p) PROVE Opening(q, p)'
    OBVIOUS
  <2>1. moved[p] = None /\ ~aside[p].old => ~isStale(moved[p], aside[p])
    BY <1>1 DEF isStale
  <2> QED BY <1>1, <1>2, <1>3, <1>10, <2>1 DEF Opening, Examines, LeftAlone
<1>13. Taken(p) => Taken(p)'
  BY <1>1 DEF Taken
<1> QED BY <1>10, <1>11, <1>12, <1>13 DEF Protected, Blocked

(* The path, opened to put the lock back.                                *)
LEMMA UndoCreateProtects ==
    ASSUME Basics, NEW p \in Process, NEW q \in Process, p # q, mine[q] # None, UndoCreate(p)
    PROVE  LeftAlone(q) /\ Protected(q, p)
<1>0. TypeOK /\ OwnersInv /\ WritersInv
  BY DEF Basics
<1>1. pc[p] = "undo create"
  BY DEF UndoCreate
<1>2. path # None => path' = path
  BY DEF UndoCreate
<1>3. path = None => /\ path' # None /\ path'.writer = p /\ pc'[p] = "undo write"
                     /\ moved' = moved
  BY <1>0, OpenedIs DEF UndoCreate, goto, TypeOK
<1>10. LeftAlone(q)
  BY <1>0 DEF UndoCreate, goto, TypeOK, LeftAlone
<1>11. Kept(q, p) => Kept(q, p)'
  BY <1>1, <1>2, <1>3, <1>10 DEF Kept, Examines, LeftAlone
<1>12. Opening(q, p) => Blocked(q, p)'
  BY <1>1, <1>2, <1>3, <1>10 DEF Blocked, Kept, Opening, Examines, LeftAlone
<1>13. Taken(p) => Taken(p)'
  BY <1>1 DEF Taken
<1> QED BY <1>10, <1>11, <1>12, <1>13 DEF Protected, Blocked

(* The lock, put back.                                                   *)
LEMMA UndoWriteProtects ==
    ASSUME Basics, NEW p \in Process, NEW q \in Process, p # q, mine[q] # None, UndoWrite(p)
    PROVE  LeftAlone(q) /\ Protected(q, p)
<1>0. TypeOK /\ OwnersInv /\ WritersInv
  BY DEF Basics
<1>1. pc[p] = "undo write" /\ pc'[p] = "idle" /\ path' = written(path, p, moved[p])
  BY <1>0 DEF UndoWrite, goto, TypeOK
<1>2. path # None /\ path.writer # p => path' = path
  BY <1>1 DEF written
<1>3. path # None /\ path.writer = p =>
          path' # None /\ path'.lock = moved[p] /\ path'.writer = None /\ ~path'.old
  <2>1. path \in File \cup {None} /\ moved[p] \in LockContent \cup {None}
    BY <1>0 DEF TypeOK
  <2>2. PICK f, l : f = path /\ l = moved[p]
    OBVIOUS
  <2>3. f # None /\ f.writer = p =>
            /\ written(f, p, l) # None
            /\ written(f, p, l).lock = l /\ ~written(f, p, l).old
            /\ written(f, p, l).writer = None
    BY <2>1, <2>2, WrittenIs
  <2> QED BY <1>1, <2>2, <2>3
<1>10. LeftAlone(q)
  BY <1>0 DEF UndoWrite, goto, TypeOK, LeftAlone
<1>11. Kept(q, p) => Kept(q, p)'
  BY <1>1, <1>2, <1>3, <1>10, NotBoth DEF Kept, Examines, LeftAlone
<1>12. Opening(q, p) => Blocked(q, p)'
  BY <1>1, <1>2, <1>3, <1>10 DEF Blocked, Taken, Opening, Examines, LeftAlone
<1>13. Taken(p) => Taken(p)'
  BY <1>1 DEF Taken
<1> QED BY <1>10, <1>11, <1>12, <1>13 DEF Protected, Blocked

(* A heartbeat of p.                                                     *)
LEMMA RefreshProtects ==
    ASSUME Basics, NEW p \in Process, NEW q \in Process, p # q, mine[q] # None, Refresh(p)
    PROVE  LeftAlone(q) /\ Protected(q, p)
<1>0. TypeOK /\ OwnersInv /\ WritersInv
  BY DEF Basics
<1>10. LeftAlone(q)
  BY <1>0 DEF Refresh, goto, TypeOK, LeftAlone
<1>11. Kept(q, p) => Kept(q, p)'
  BY <1>0 DEF Refresh, goto, TypeOK, Kept, Examines
<1>12. Opening(q, p) => Opening(q, p)'
  BY <1>0 DEF Refresh, goto, TypeOK, Opening, Examines
<1>13. Taken(p) => Taken(p)'
  BY <1>0 DEF Refresh, goto, TypeOK, Taken
<1> QED BY <1>10, <1>11, <1>12, <1>13 DEF Protected, Blocked

(* A touch of p.                                                         *)
LEMMA TouchProtects ==
    ASSUME Basics, NEW p \in Process, NEW q \in Process, p # q, mine[q] # None, Touch(p)
    PROVE  LeftAlone(q) /\ Protected(q, p)
<1>0. TypeOK /\ OwnersInv /\ WritersInv
  BY DEF Basics
<1>1. pc[p] = "touch" /\ pc'[p] = "held"
  BY <1>0 DEF Touch, goto, TypeOK
<1>2. path # None => path' # None /\ path'.lock = path.lock /\ path'.writer = path.writer
  BY <1>0, TouchedIs DEF Touch, TypeOK
<1>10. LeftAlone(q)
  BY <1>0 DEF Touch, goto, TypeOK, LeftAlone
<1>11. Kept(q, p) => Kept(q, p)'
  BY <1>1, <1>2, <1>10 DEF Kept, Examines, LeftAlone
<1>12. Opening(q, p) => Opening(q, p)'
  BY <1>1, <1>2, <1>10 DEF Opening, Examines, LeftAlone
<1>13. Taken(p) => Taken(p)'
  BY <1>1 DEF Taken
<1> QED BY <1>10, <1>11, <1>12, <1>13 DEF Protected, Blocked

(* A check of p before its release.                                      *)
LEMMA ReleaseProtects ==
    ASSUME Basics, NEW p \in Process, NEW q \in Process, p # q, mine[q] # None, Release(p)
    PROVE  LeftAlone(q) /\ Protected(q, p)
<1>0. TypeOK /\ OwnersInv /\ WritersInv
  BY DEF Basics
<1>10. LeftAlone(q)
  BY <1>0 DEF Release, goto, TypeOK, LeftAlone
<1>11. Kept(q, p) => Kept(q, p)'
  BY <1>0 DEF Release, goto, TypeOK, Kept, Examines
<1>12. Opening(q, p) => Opening(q, p)'
  BY <1>0 DEF Release, goto, TypeOK, Opening, Examines
<1>13. Taken(p) => Taken(p)'
  BY <1>0 DEF Release, goto, TypeOK, Taken
<1> QED BY <1>10, <1>11, <1>12, <1>13 DEF Protected, Blocked

(* A release of p, with nothing but its own lock at the path: q has no     *)
(* lock, or has had it for the TTL.                                        *)
LEMMA ReleaseRemoveProtects ==
    ASSUME IInv, NEW p \in Process \ dead, NEW q \in Process, p # q, mine[q] # None,
           ReleaseRemove(p)
    PROVE  q \in overdue /\ pc[q] # "release"
<1>0. TypeOK /\ OwnersInv /\ WritersInv
  BY DEF IInv
<1>1. pc[p] = "release" /\ mine[p] # None
  BY <1>0 DEF ReleaseRemove, TypeOK
<1>2. mine[p] # mine[q]
  BY <1>0, <1>1 DEF OwnersInv
<1>3. q \notin dead /\ pc[q] \in {"write", "held", "touch", "release"}
  BY <1>0 DEF OwnersInv, TypeOK
<1>4. path # None /\ path.lock = mine[p]
  <2>1. Kept(p, q)
    BY <1>1, <1>3 DEF IInv, PairInv
  <2> QED BY <1>3, <2>1 DEF Kept, Examines
<1>5. ~Kept(q, p)
  BY <1>1, <1>2, <1>4 DEF Kept, Examines
<1>6. ~Opening(q, p)
  <2>1. WrittenBy(path, q)
    BY <1>0 DEF WritersInv
  <2> QED BY <1>1, <1>4, <2>1 DEF Opening, Examines, WrittenBy
<1>7. ~Taken(p)
  BY <1>1 DEF Taken
<1>8. PairInv(q, p)
  BY DEF IInv
<1> QED BY <1>5, <1>6, <1>7, <1>8 DEF PairInv, Blocked

(* What the steps of p leave to q.                                         *)
LEMMA Apart ==
    ASSUME TypeOK, NEW p \in Process, NEW q \in Process, p # q, Contend(p) \/ Hold(p)
    PROVE  /\ mine'[q] = mine[q] /\ pc'[q] = pc[q] /\ dead' = dead
           /\ mine[q] # None /\ q \in overdue => q \in overdue'
<1>1. ASSUME NEW lost, create(p, lost)
      PROVE  mine'[q] = mine[q] /\ pc'[q] = pc[q]
  BY <1>1 DEF create, goto, TypeOK
<1>2. CASE Acquire(p) \/ Remove(p) \/ Recreate(p)
  BY <1>1, <1>2 DEF Acquire, Remove, Recreate
<1>3. CASE Write(p) \/ ReadLock(p) \/ Judge(p) \/ Rename(p) \/ Reread(p)
  BY <1>3 DEF Write, ReadLock, Judge, Rename, Reread, goto, TypeOK
<1>4. CASE Rejudge(p) \/ UndoRead(p) \/ UndoCreate(p) \/ UndoWrite(p)
  BY <1>4 DEF Rejudge, UndoRead, UndoCreate, UndoWrite, goto, TypeOK
<1>5. CASE Hold(p)
  BY <1>5 DEF Hold, Refresh, Touch, Release, ReleaseRemove, goto, TypeOK
<1> QED BY <1>2, <1>3, <1>4, <1>5 DEF Contend

(* A step of p leaves the lock of q protected.                             *)
LEMMA OtherStep ==
    ASSUME IInv, NEW p \in Process \ dead, NEW q \in Process, p # q, Contend(p) \/ Hold(p)
    PROVE  PairInv(q, p)'
<1>0. TypeOK /\ Basics /\ PairInv(q, p)
  BY DEF IInv, Basics
<1>1. /\ mine'[q] = mine[q] /\ pc'[q] = pc[q] /\ dead' = dead
      /\ mine[q] # None /\ q \in overdue => q \in overdue'
  BY <1>0, Apart
<1>2. CASE mine[q] = None
  BY <1>1, <1>2 DEF PairInv
<1>3. CASE mine[q] # None /\ ReleaseRemove(p)
  BY <1>1, <1>3, ReleaseRemoveProtects DEF PairInv
<1>4. CASE mine[q] # None /\ ~ReleaseRemove(p)
  <2>1. Protected(q, p)
    <3>1. CASE Contend(p)
      BY <1>0, <1>4, <3>1, AcquireProtects, WriteProtects, ReadLockProtects,
           JudgeProtects,
         RenameProtects, RereadProtects, RejudgeProtects, RemoveProtects, RecreateProtects,
         UndoReadProtects, UndoCreateProtects, UndoWriteProtects DEF Contend
    <3>2. CASE Hold(p)
      BY <1>0, <1>4, <3>2, RefreshProtects, TouchProtects, ReleaseProtects DEF Hold
    <3> QED BY <3>1, <3>2
  <2> QED BY <1>0, <1>1, <1>4, <2>1 DEF Protected, PairInv
<1> QED BY <1>2, <1>3, <1>4

-----------------------------------------------------------------------------
(* What q does itself.                                                     *)

(* A process that creates the lock file has its own file at the path.      *)
LEMMA OwnCreate ==
    ASSUME Basics, NEW p \in Process, NEW q \in Process, p # q, NEW lost, create(q, lost),
           mine[q] = None
    PROVE  PairInv(q, p)'
<1>0. TypeOK /\ OwnersInv
  BY DEF Basics
<1>1. \/ path' = Opened(q) /\ path' # None /\ pc'[q] = "write"
      \/ mine' = mine
  BY <1>0, CreateIs
<1>2. CASE path' = Opened(q) /\ path' # None /\ pc'[q] = "write"
  <2>1. Opening(q, p)'
    BY <1>2, OpenedIs DEF Opening
  <2> QED BY <1>2, <2>1 DEF PairInv, Blocked
<1>3. CASE mine' = mine
  BY <1>3 DEF PairInv
<1> QED BY <1>1, <1>2, <1>3

(* The lock, written wherever the file is by now.                          *)
LEMMA OwnWrite ==
    ASSUME Basics, NEW p \in Process, NEW q \in Process, p # q, PairInv(q, p), Write(q)
    PROVE  PairInv(q, p)'
<1>0. TypeOK /\ OwnersInv /\ WritersInv
  BY DEF Basics
<1>1. pc[q] = "write" /\ mine[q] # None /\ mine' = mine /\ overdue' = overdue /\ dead' = dead
  BY <1>0 DEF Write, TypeOK
<1>2. pc'[q] = "held" /\ pc'[p] = pc[p] /\ moved' = moved /\ seen' = seen
  BY <1>0 DEF Write, goto, TypeOK
<1>12. PICK l : l = mine[q]
  OBVIOUS
<1>13. l \in LockContent
  BY <1>0, <1>1, <1>12 DEF TypeOK
<1>3. path' = written(path, q, l) /\ aside'[p] = written(aside[p], q, l)
  BY <1>12 DEF Write
<1>4. /\ path = None => path' = None
      /\ path # None /\ path.writer # q => path' = path
      /\ aside[p] = None => aside'[p] = None
      /\ aside[p] # None /\ aside[p].writer # q => aside'[p] = aside[p]
  BY <1>3 DEF written
<1>5. \A f \in File \cup {None} : f # None /\ f.writer = q =>
          written(f, q, l).lock = mine[q] /\ ~written(f, q, l).old
  BY <1>12, <1>13, WrittenIs
<1>7. path \in File \cup {None} /\ aside[p] \in File \cup {None}
  BY <1>0 DEF TypeOK
<1>8. path' # None <=> path # None
  <2>1. PICK f \in File \cup {None} : f = path
    BY <1>7
  <2>2. written(f, q, l) = None <=> f = None
    BY <1>13, NoneAssumption, WrittenIs DEF written
  <2> QED BY <1>3, <2>1, <2>2
<1>9. Kept(q, p) => Kept(q, p)'
  BY <1>1, <1>2, <1>4, NotBoth DEF Kept, Examines
<1>10. Opening(q, p) => Blocked(q, p)'
  <2>1. CASE path # None /\ path.writer = q
    <3>1. path' # None /\ path'.lock = mine[q]
      BY <1>3, <1>5, <1>7, <1>8, <2>1
    <3> QED BY <1>1, <3>1 DEF Blocked, Kept
  <2>2. CASE /\ path = None /\ Examines(p) /\ ~aside[p].old
             /\ \/ aside[p].lock = mine[q]
                \/ aside[p].lock = None /\ aside[p].writer = q /\ pc[q] = "write"
             /\ pc[p] \in {"rejudge", "undo create"} => moved[p] \in {None, mine[q]}
    <3>1. aside[p] # None
      BY <1>0, <2>2 DEF Examines, TypeOK
    <3>2. aside'[p].lock = mine[q] /\ ~aside'[p].old
      <4>1. CASE aside[p].writer = q
        BY <1>3, <1>5, <1>7, <3>1, <4>1
      <4>2. CASE aside[p].writer # q
        BY <1>4, <2>2, <3>1, <4>2
      <4> QED BY <4>1, <4>2
    <3> QED BY <1>1, <1>2, <1>4, <2>2, <3>2 DEF Blocked, Opening, Examines
  <2>3. CASE pc[p] = "undo write" /\ path # None /\ path.writer = p /\ moved[p] = None
    BY <1>2, <1>4, <2>3 DEF Blocked, Opening
  <2> QED BY <2>1, <2>2, <2>3 DEF Opening
<1>11. Taken(p) => Taken(p)'
  <2>1. q # None
    BY NoneAssumption
  <2> QED BY <1>2, <1>4, <2>1 DEF Taken
<1> QED BY <1>1, <1>2, <1>9, <1>10, <1>11 DEF PairInv, Blocked

(* A heartbeat of the owner, which has read its own lock.                  *)
LEMMA OwnRefresh ==
    ASSUME Basics, NEW p \in Process, NEW q \in Process, p # q, PairInv(q, p), Refresh(q)
    PROVE  PairInv(q, p)'
<1>0. TypeOK
  BY DEF Basics
<1>1. CASE mine'[q] = None
  BY <1>1 DEF PairInv
<1>2. CASE mine'[q] # None
  <2>1. /\ pc[q] = "held" /\ pc'[q] = "touch" /\ pc'[p] = pc[p] /\ mine' = mine
        /\ path' = path /\ aside' = aside /\ moved' = moved /\ seen' = seen /\ dead' = dead
    BY <1>0, <1>2 DEF Refresh, goto, TypeOK
  <2>2. q \in overdue => q \in overdue'
    BY <1>2 DEF Refresh
  <2>3. Blocked(q, p) => Blocked(q, p)'
    BY <2>1 DEF Blocked, Kept, Opening, Taken, Examines
  <2> QED BY <2>1, <2>2, <2>3 DEF PairInv
<1> QED BY <1>1, <1>2

(* A touch of the owner.                                                   *)
LEMMA OwnTouch ==
    ASSUME Basics, NEW p \in Process, NEW q \in Process, p # q, PairInv(q, p), Touch(q)
    PROVE  PairInv(q, p)'
<1>0. TypeOK
  BY DEF Basics
<1>1. /\ pc[q] = "touch" /\ pc'[q] = "held" /\ pc'[p] = pc[p] /\ mine' = mine /\ overdue' = overdue
      /\ aside' = aside /\ moved' = moved /\ seen' = seen /\ dead' = dead
  BY <1>0 DEF Touch, goto, TypeOK
<1>2. /\ path' = None <=> path = None
      /\ path # None => path'.lock = path.lock /\ path'.writer = path.writer /\ ~path'.old
  <2>1. path \in File \cup {None}
    BY <1>0 DEF TypeOK
  <2>2. PICK old \in BOOLEAN : old = FALSE
    OBVIOUS
  <2>3. path' = IF path = None THEN None ELSE [path EXCEPT !.old = old]
    BY <2>2 DEF Touch
  <2>4. /\ path' = None <=> path = None
        /\ path # None => path'.lock = path.lock /\ path'.writer = path.writer /\ path'.old = old
    BY <2>1, <2>3, TouchedIs
  <2> QED BY <2>2, <2>4
<1>3. Kept(q, p) => Kept(q, p)'
  BY <1>1, <1>2 DEF Kept, Examines
<1>4. Opening(q, p) => Opening(q, p)'
  BY <1>1, <1>2 DEF Opening, Examines
<1>5. Taken(p) => Taken(p)'
  BY <1>1, <1>2 DEF Taken
<1> QED BY <1>1, <1>3, <1>4, <1>5 DEF PairInv, Blocked

(* The owner has read its own lock at the path before it releases it.      *)
LEMMA OwnRelease ==
    ASSUME Basics, NEW p \in Process, NEW q \in Process, p # q, PairInv(q, p), Release(q)
    PROVE  PairInv(q, p)'
<1>0. TypeOK
  BY DEF Basics
<1>1. CASE mine'[q] = None
  BY <1>1 DEF PairInv
<1>2. CASE mine'[q] # None
  <2>1. path' = path /\ mine' = mine /\ Lock(path) = mine[q] /\ mine[q] # None
    BY <1>0, <1>2 DEF Release, TypeOK
  <2>2. Kept(q, p)'
    BY <2>1 DEF Kept, Lock
  <2> QED BY <2>2 DEF PairInv, Blocked
<1> QED BY <1>1, <1>2

(* A step of q keeps its own lock protected.                               *)
LEMMA OwnStep ==
    ASSUME IInv, NEW p \in Process, NEW q \in Process \ dead, p # q, Contend(q) \/ Hold(q)
    PROVE  PairInv(q, p)'
<1>0. TypeOK /\ Basics /\ PairInv(q, p)
  BY DEF IInv, Basics
<1>1. CASE Acquire(q) \/ Remove(q) \/ Recreate(q)
  <2>1. mine[q] = None
    BY <1>0, <1>1 DEF Acquire, Remove, Recreate, TypeOK
  <2> QED BY <1>0, <1>1, <2>1, OwnCreate DEF Acquire, Remove, Recreate
<1>2. CASE ReadLock(q) \/ Judge(q) \/ Rename(q) \/ Reread(q) \/ Rejudge(q)
  <2>1. mine[q] = None /\ mine' = mine
    BY <1>0, <1>2 DEF ReadLock, Judge, Rename, Reread, Rejudge, TypeOK
  <2> QED BY <2>1 DEF PairInv
<1>3. CASE UndoRead(q) \/ UndoCreate(q) \/ UndoWrite(q)
  <2>1. mine[q] = None /\ mine' = mine
    BY <1>0, <1>3 DEF UndoRead, UndoCreate, UndoWrite, TypeOK
  <2> QED BY <2>1 DEF PairInv
<1>4. CASE ReleaseRemove(q)
  <2>1. mine'[q] = None
    BY <1>0, <1>4 DEF ReleaseRemove, TypeOK
  <2> QED BY <2>1 DEF PairInv
<1>5. CASE Write(q) \/ Refresh(q) \/ Touch(q) \/ Release(q)
  BY <1>0, <1>5, OwnWrite, OwnRefresh, OwnTouch, OwnRelease
<1> QED BY <1>1, <1>2, <1>3, <1>4, <1>5 DEF Contend, Hold

(* A crash of either leaves nothing to protect, or to protect from.        *)
LEMMA CrashPair ==
    ASSUME IInv, NEW p \in Process, NEW q \in Process, p # q,
           NEW r \in {p, q}, Crash(r)
    PROVE  PairInv(q, p)'
<1>1. CASE r = p
  BY <1>1 DEF Crash, PairInv
<1>2. CASE r = q
  BY <1>2 DEF Crash, PairInv, IInv, TypeOK
<1> QED BY <1>1, <1>2

(* A file that grows old takes the protection of who has had it so long,   *)
(* but not from a process that has read its own lock there.                *)
LEMMA AgePair ==
    ASSUME IInv, NEW p \in Process, NEW q \in Process, p # q, Age
    PROVE  PairInv(q, p)'
<1>1. /\ path' # None /\ path # None /\ path'.lock = path.lock /\ path.writer = None
  BY AgedIs DEF IInv
<1>2. p # None
  BY NoneAssumption
<1>3. mine' = mine /\ pc' = pc /\ dead' = dead /\ (mine[q] # None => q \in overdue')
  BY DEF Age
<1>4. Kept(q, p) => Kept(q, p)'
  BY <1>1, <1>2, <1>3 DEF Kept
<1>5. PairInv(q, p)
  BY DEF IInv
<1> QED BY <1>3, <1>4, <1>5 DEF PairInv

(* Every step keeps the invariant.                                         *)
LEMMA NextInv ==
    ASSUME AtMostTwo, IInv, Next
    PROVE  IInv'
<1>1. Basics'
  BY NextBasics DEF IInv, Basics
<1>2. ASSUME NEW p \in Process, NEW q \in Process, p # q
      PROVE  PairInv(q, p)'
  <2>1. ASSUME NEW r \in Live, Contend(r) \/ Hold(r) PROVE PairInv(q, p)'
    BY <1>2, <2>1, Others, OwnStep, OtherStep DEF Live
  <2>2. ASSUME NEW r \in Process, Crash(r) PROVE PairInv(q, p)'
    BY <1>2, <2>2, Others, CrashPair
  <2>3. ASSUME NEW r, ReusePid(r) PROVE PairInv(q, p)'
    <3>1. PairInv(q, p)
      BY <1>2 DEF IInv
    <3> QED BY <2>3, <3>1 DEF ReusePid, PairInv, Blocked, Kept, Opening, Taken, Examines
  <2>4. CASE Age
    BY <1>2, <2>4, AgePair
  <2> QED BY <2>1, <2>2, <2>3, <2>4 DEF Next
<1> QED BY <1>1, <1>2 DEF IInv, Basics

-----------------------------------------------------------------------------
(* Init and the theorems.                                                  *)

(* The lock file may be there when the processes start, but nobody has it. *)
LEMMA InitInv ==
    ASSUME Init
    PROVE  IInv
<1>1. /\ aside = [p \in Process |-> None] /\ pc = [p \in Process |-> "idle"]
      /\ mine = [p \in Process |-> None] /\ seen = [p \in Process |-> None]
      /\ moved = [p \in Process |-> None]
      /\ dead = {Before} /\ reused = {} /\ overdue = {}
  BY DEF Init
<1>2. path \in File \cup {None} /\ (path # None => path.writer = None)
  <2>1. PICK l : l = [by |-> Before, token |-> 1]
    OBVIOUS
  <2>2. l \in LockContent
    BY <2>1, BoundsAssumption DEF LockContent
  <2>3. path \in {None} \cup [lock : {None, l}, old : {FALSE}, writer : {None}]
    BY <2>1 DEF Init
  <2> QED BY <2>2, <2>3 DEF File
<1>3. TypeOK
  BY <1>1, <1>2 DEF TypeOK
<1>4. OwnersInv
  BY <1>1 DEF OwnersInv
<1>5. WritersInv
  BY <1>1, <1>2, NoneAssumption DEF WritersInv, WrittenBy
<1>6. \A p, q \in Process : PairInv(q, p)
  BY <1>1 DEF PairInv
<1> QED BY <1>3, <1>4, <1>5, <1>6 DEF IInv

(* A step of nobody keeps the basics.                                      *)
LEMMA StutterBasics ==
    ASSUME Basics, UNCHANGED vars
    PROVE  Basics'
<1>1. TypeOK'
  BY DEF vars, Basics, TypeOK
<1>2. OwnersInv'
  BY DEF vars, Basics, OwnersInv
<1>3. WritersInv'
  BY DEF vars, Basics, WritersInv, WrittenBy
<1> QED BY <1>1, <1>2, <1>3 DEF Basics

(* What the step lemmas show, of the specification.                        *)
THEOREM Invariance ==
    ASSUME AtMostTwo
    PROVE  Spec => []IInv
<1>1. IInv /\ [Next]_vars => IInv'
  <2>1. CASE Next
    BY <2>1, NextInv
  <2>2. CASE UNCHANGED vars
    <3>1. IInv => Basics /\ Basics'
      BY <2>2, StutterBasics DEF IInv, Basics
    <3>2. ASSUME NEW p \in Process, NEW q \in Process, PairInv(q, p)
          PROVE  PairInv(q, p)'
      <4>1. Kept(q, p)' <=> Kept(q, p)
        BY <2>2 DEF vars, Kept, Examines
      <4>2. Opening(q, p)' <=> Opening(q, p)
        BY <2>2 DEF vars, Opening, Examines
      <4>3. Taken(p)' <=> Taken(p)
        BY <2>2 DEF vars, Taken
      <4> QED BY <2>2, <3>2, <4>1, <4>2, <4>3 DEF vars, PairInv, Blocked
    <3> QED BY <3>1, <3>2 DEF IInv, Basics
  <2> QED BY <2>1, <2>2
<1> QED BY <1>1, InitInv, PTL DEF Spec

(* A process has a lock, or a file moved aside, exactly where the code has *)
(* one to release, remove or put back, however many processes contend.     *)
THEOREM TypeCorrect == Spec => []TypeOK
<1>1. Init => Basics
  BY InitInv DEF IInv, Basics
<1>2. Basics /\ [Next]_vars => Basics'
  <2>1. CASE Next
    BY <2>1, NextBasics
  <2>2. CASE UNCHANGED vars
    BY <2>2, StutterBasics
  <2> QED BY <2>1, <2>2
<1>3. Basics => TypeOK
  BY DEF Basics
<1> QED BY <1>1, <1>2, <1>3, PTL DEF Spec

(* Of two processes, one that is done within the TTL has the lock to       *)
(* itself, whatever is moved, put back, left behind or released around it  *)
(* (acquireFileLock, undoTakeover).                                        *)
THEOREM ExclusionWithinTTL ==
    ASSUME AtMostTwo
    PROVE  Spec => []ExclusiveWithinTTL
<1>1. IInv => ExclusiveWithinTTL
  <2> SUFFICES ASSUME IInv, NEW p \in Process, NEW q \in Process,
                      Holds(p), Holds(q), p # q, p \notin overdue, q \notin overdue
               PROVE  FALSE
    BY DEF ExclusiveWithinTTL
  <2>1. /\ pc[p] \in {"held", "touch", "release"} /\ pc[q] \in {"held", "touch", "release"}
    BY DEF Holds
  <2>6. mine[p] # None /\ mine[q] # None
    BY <2>1 DEF IInv, TypeOK
  <2>2. mine[p] # mine[q] /\ p \notin dead /\ q \notin dead
    BY <2>1, <2>6 DEF IInv, OwnersInv
  <2>3. Blocked(p, q) /\ Blocked(q, p)
    BY <2>2, <2>6 DEF IInv, PairInv
  <2>4. path # None /\ path.lock = mine[p]
    BY <2>1, <2>3 DEF Blocked, Kept, Opening, Taken, Examines
  <2>5. path # None /\ path.lock = mine[q]
    BY <2>1, <2>3 DEF Blocked, Kept, Opening, Taken, Examines
  <2> QED BY <2>2, <2>4, <2>5
<1> QED BY <1>1, Invariance, PTL

=============================================================================
