------------------------------ MODULE LocalState ------------------------------
(***************************************************************************)
(* The local state file of a repository, which all Cursor windows of a     *)
(* computer and the offline helper read and write (protocol/localState.ts, *)
(* and its use by repository.ts and by the manager's cycles).              *)
(*                                                                         *)
(* Every window keeps a copy of the state, a digest of what its store last *)
(* read or wrote, and the file identity it last observed.  All of them are *)
(* used under the machine's lock only; a window may die with it.           *)
(***************************************************************************)
EXTENDS Naturals

CONSTANTS
    Process,       \* the windows and the helper
    Value,         \* what the state says: projections, queue, cursors
    Placeholder,   \* ... when nothing has been recorded yet
    Absent,        \* no file, no digest, no owner
    MaxWrites, MaxIds,      \* bounds
    MayBeUnreadable         \* may a read of the file fail?

VARIABLES
    file,          \* [id, value, failed] or Absent
    writes,        \* the identity of the file: it changes with every write
    readable,
    owner,         \* who holds sync.lock
    memory,        \* per process: its copy of the state
    digest,        \* per process: lastWrittenDigest
    sight,         \* per process: lastObservedIdentity
    ready,         \* processes whose repository is initialized
    at,            \* per process: the step it is at
    ids,           \* device ids drawn
    saved          \* history: the value of the last save or first read

vars == <<file, writes, readable, owner, memory, digest, sight, ready, at, ids, saved>>

State(i, v, f) == [id |-> i, value |-> v, failed |-> f]

Init ==
    /\ file \in {Absent, State(0, Placeholder, FALSE)}
    /\ writes = 0 /\ readable = TRUE /\ owner = Absent
    /\ memory = [p \in Process |-> Absent]
    /\ digest = [p \in Process |-> Absent] /\ sight = [p \in Process |-> 0]
    /\ ready = {} /\ at = [p \in Process |-> "closed"]
    /\ ids = 1 /\ saved = Placeholder

-----------------------------------------------------------------------------
(* LocalStateStore.                                                        *)

goto(p, step) == at' = [at EXCEPT ![p] = step]

(* save: skipped when the bytes are those last read or written here.       *)
save(p, state) ==
    IF digest[p] = state THEN UNCHANGED <<file, writes, digest, sight>>
    ELSE /\ file' = state /\ writes' = writes + 1
         /\ digest' = [digest EXCEPT ![p] = state]
         /\ sight' = [sight EXCEPT ![p] = writes + 1]

(* readStable                                                              *)
remember(p) == digest' = [digest EXCEPT ![p] = file] /\ sight' = [sight EXCEPT ![p] = writes]

load(p) ==
    /\ memory' = [memory EXCEPT ![p] = file]
    /\ remember(p) /\ UNCHANGED <<file, writes>>

(* createUnpersisted: an identity of its own, and nothing in it.           *)
unpersisted == State(ids, Placeholder, FALSE)

loadOrCreate(p) ==
    IF file = Absent
    THEN /\ memory' = [memory EXCEPT ![p] = unpersisted] /\ ids' = ids + 1
         /\ save(p, unpersisted)
    ELSE load(p) /\ UNCHANGED ids

-----------------------------------------------------------------------------
(* Opening a repository.                                                   *)

(* openDeferredWithMasterKey, without the lock.                            *)
OpenDeferred(p) ==
    /\ at[p] \in {"closed", "idle"} /\ ids < MaxIds
    /\ memory' = [memory EXCEPT ![p] = unpersisted] /\ ids' = ids + 1
    /\ digest' = [digest EXCEPT ![p] = Absent] /\ sight' = [sight EXCEPT ![p] = 0]
    /\ ready' = ready \ {p} /\ goto(p, "idle")
    /\ UNCHANGED <<file, writes, readable, owner, saved>>

(* create, open and openWithMasterKey: Setup, in withOpenLock.             *)
Open(p) ==
    /\ at[p] \in {"closed", "idle"} /\ owner = Absent /\ ids < MaxIds /\ writes < MaxWrites
    /\ readable \/ file = Absent
    /\ loadOrCreate(p)
    /\ ready' = ready \cup {p} /\ goto(p, "idle")
    /\ UNCHANGED <<readable, owner, saved>>

-----------------------------------------------------------------------------
(* A cycle, or a command: lock, ensureInitialized, refreshState, work.     *)

Begin(p) ==
    /\ at[p] = "idle" /\ owner = Absent /\ owner' = p /\ goto(p, "initialize")
    /\ UNCHANGED <<file, writes, readable, memory, digest, sight, ready, ids, saved>>

(* initializeOnce                                                          *)
Initialize(p) ==
    /\ at[p] = "initialize" /\ writes < MaxWrites
    /\ \/ /\ p \in ready /\ goto(p, "refresh")
          /\ UNCHANGED <<file, writes, memory, digest, sight, ready, ids>>
       \/ /\ p \notin ready /\ (readable \/ file = Absent) /\ loadOrCreate(p)
          /\ ready' = ready \cup {p} /\ goto(p, "refresh")
       \/ /\ p \notin ready /\ ~readable /\ file # Absent /\ goto(p, "failed")
          /\ UNCHANGED <<file, writes, memory, digest, sight, ready, ids>>
    /\ UNCHANGED <<readable, owner, saved>>

(* refreshState: loadIfChanged                                             *)

Refresh(p) ==
    /\ at[p] = "refresh"
    /\ \/ /\ sight[p] = writes /\ goto(p, "work")
          /\ UNCHANGED <<file, writes, memory, digest, sight>>
       \/ sight[p] # writes /\ readable /\ load(p) /\ goto(p, "work")
       \/ /\ sight[p] # writes /\ ~readable /\ goto(p, "failed")
          /\ UNCHANGED <<file, writes, memory, digest, sight>>
    /\ UNCHANGED <<readable, owner, ready, ids, saved>>

Work(p, v) ==
    /\ at[p] = "work" /\ v # memory[p].value
    /\ memory' = [memory EXCEPT ![p] = State(@.id, v, FALSE)]
    /\ UNCHANGED <<file, writes, readable, owner, digest, sight, ready, at, ids, saved>>

(* saveState, at any time during the work and at its end                   *)
Save(p) ==
    /\ at[p] = "work" /\ writes < MaxWrites
    /\ save(p, memory[p]) /\ saved' = memory[p].value
    /\ UNCHANGED <<readable, owner, memory, ready, at, ids>>

Finish(p) ==
    /\ at[p] = "work" /\ memory[p].value = saved
    /\ goto(p, "idle") /\ owner' = Absent
    /\ UNCHANGED <<file, writes, readable, memory, digest, sight, ready, ids, saved>>

(* The cycle throws.                                                       *)
Fail(p) ==
    /\ at[p] = "work" /\ goto(p, "failed")
    /\ UNCHANGED <<file, writes, readable, owner, memory, digest, sight, ready, ids, saved>>

(* A command throws: its copy stays as it is, and the next cycle saves it. *)
CommandFails(p) ==
    /\ at[p] = "work" /\ goto(p, "idle") /\ owner' = Absent
    /\ UNCHANGED <<file, writes, readable, memory, digest, sight, ready, ids, saved>>

FaultyRecordError(p) ==                  \* what is in memory, however far it got
    /\ at[p] = "failed" /\ writes < MaxWrites
    /\ LET state == [memory[p] EXCEPT !.failed = TRUE] IN
       memory' = [memory EXCEPT ![p] = state] /\ save(p, state)
    /\ owner' = Absent /\ goto(p, "idle") /\ UNCHANGED <<readable, ready, ids, saved>>

(* recordError: on top of what is on disk, unless that cannot be read.     *)
RecordError(p) ==
    /\ at[p] = "failed" /\ writes < MaxWrites
    /\ LET read == readable /\ file # Absent
           state == [(IF read THEN file ELSE memory[p]) EXCEPT !.failed = TRUE]
       IN  /\ memory' = [memory EXCEPT ![p] = state]
           /\ IF (IF read THEN file ELSE digest[p]) = state
              THEN (IF read THEN remember(p) ELSE UNCHANGED <<digest, sight>>)
                   /\ UNCHANGED <<file, writes>>
              ELSE /\ file' = state /\ writes' = writes + 1
                   /\ digest' = [digest EXCEPT ![p] = state]
                   /\ sight' = [sight EXCEPT ![p] = writes + 1]
    /\ owner' = Absent /\ goto(p, "idle") /\ UNCHANGED <<readable, ready, ids, saved>>

-----------------------------------------------------------------------------
(* The window is closed or dies, and its lock is taken over.               *)
Dies(p) ==
    /\ at[p] # "closed" /\ goto(p, "closed")
    /\ owner' = IF owner = p THEN Absent ELSE owner
    /\ ready' = ready \ {p}
    /\ memory' = [memory EXCEPT ![p] = Absent]
    /\ digest' = [digest EXCEPT ![p] = Absent] /\ sight' = [sight EXCEPT ![p] = 0]
    /\ UNCHANGED <<file, writes, readable, ids, saved>>

(* Another program keeps the file open; a newer version has written it.    *)
Blocks ==
    /\ MayBeUnreadable /\ readable' = ~readable
    /\ UNCHANGED <<file, writes, owner, memory, digest, sight, ready, at, ids, saved>>

Next ==
    \/ \E p \in Process :
          \/ OpenDeferred(p) \/ Open(p) \/ Begin(p) \/ Initialize(p) \/ Refresh(p)
          \/ \E v \in Value : Work(p, v)
          \/ Save(p) \/ Finish(p) \/ Fail(p) \/ CommandFails(p) \/ RecordError(p) \/ Dies(p)
    \/ Blocks

Spec == Init /\ [][Next]_vars

-----------------------------------------------------------------------------
(* The file says what was last saved on purpose: no save is skipped for a  *)
(* digest another process has made obsolete, no copy older than the file   *)
(* is written over it, and nothing a failed cycle abandoned reaches it     *)
(* (save, refreshState, recordError).                                      *)
FileIsWhatWasSaved == file # Absent => file.value = saved

(* The installation keeps the identity it has claimed: a placeholder's     *)
(* identity is never written over it (the comments at localState.ts:63 and *)
(* repository.ts:632).                                                     *)
IdentityIsKept == [][file # Absent => file' # Absent /\ file'.id = file.id]_vars
=============================================================================
