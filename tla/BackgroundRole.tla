--------------------------- MODULE BackgroundRole ---------------------------
(***************************************************************************)
(* The election of the Cursor window that does the machine's background    *)
(* work (src/src/sync/backgroundCoordinator.ts, wired up in manager.ts).   *)
(* Whoever holds the role lock runs the watcher and the poll timers, its   *)
(* runtime; the others probe for the lock.                                 *)
(*                                                                         *)
(* A host is one extension host.  Its operations queue up and run one at a *)
(* time, a step between two awaits; start, stop, dispose and the timers    *)
(* come at any await and invalidate what runs by advancing the generation. *)
(* An operation's gen tells whether its generation is still the latest.  *)
(***************************************************************************)
EXTENDS Naturals, Sequences

CONSTANTS
    Host,        \* the machine's extension hosts
    None,        \* no host
    MaxCalls,    \* bound: calls of start, stop and dispose
    MaxFailures  \* bound: failures of acquire and activate, crashes, and
                 \* lock files moved away under a live owner

ASSUME HostAssumption ==
    None \notin Host /\ MaxCalls \in Nat /\ MaxFailures \in Nat

VARIABLES
    file,      \* the host the role lock file names, or None
    displaced, \* history: owners whose lock file has been moved away
    dead,      \* hosts that have died
    mode,      \* shouldRun and disposed
    queue,     \* queue[h]: the operations, the running one first
    at,        \* at[h]: the await the running operation is in
    owned,     \* hosts with this.owned # null; its generation is the latest
    releasing, \* hosts whose lock.release() has not returned
    activated, \* hosts with this.activated
    probe,     \* hosts with a probe scheduled
    runtime,   \* hosts whose watcher and timers exist
    calls, failures

shared == <<file, displaced, dead>>
counters == <<calls, failures>>
vars == <<shared, mode, queue, at, owned, releasing, activated, probe, runtime,
          counters>>

Operations == [op : {"start", "probe", "stop", "lost"}, gen : {"latest", "old"}]

Init ==
    /\ file = None /\ displaced = {} /\ dead = {}
    /\ mode = [h \in Host |-> "stopped"]
    /\ queue = [h \in Host |-> <<>>] /\ at = [h \in Host |-> "idle"]
    /\ owned = {} /\ releasing = {} /\ activated = {} /\ probe = {} /\ runtime = {}
    /\ calls = 0 /\ failures = 0

Live == Host \ dead
set(f, h, v) == f' = [f EXCEPT ![h] = v]
Cur(h) == Head(queue[h]).gen = "latest"
IsCurrent(h) == Cur(h) /\ h \in owned

(* What refresh finds out: another's lock.  A missing file is no proof.    *)
Foreign(h) == file \notin {h, None}

-----------------------------------------------------------------------------
(* Every public operation first, in the same turn, makes what is running   *)
(* stale, ends the runtime and begins the release; then it queues up.      *)

Stale(q) == [i \in DOMAIN q |-> [op |-> q[i].op, gen |-> "old"]]

standAside(h, op, gen) ==
    /\ set(queue, h, Append(Stale(queue[h]), [op |-> op, gen |-> gen]))
    /\ probe' = probe \ {h} /\ activated' = activated \ {h} /\ runtime' = runtime \ {h}
    /\ releasing' = releasing \cup (owned \cap {h}) /\ owned' = owned \ {h}

Called == calls < MaxCalls /\ calls' = calls + 1 /\ UNCHANGED failures

Start(h) ==
    /\ mode[h] # "disposed" /\ Called
    /\ set(mode, h, "run")
    /\ standAside(h, "start", "latest")
    /\ UNCHANGED <<shared, at>>

Stop(h) ==
    /\ mode[h] # "disposed" /\ Called
    /\ \E m \in {"stopped", "disposed"} : set(mode, h, m)
    /\ standAside(h, "stop", "old")
    /\ UNCHANGED <<shared, at>>

(* A poll timer or the watcher asks, before it queues a cycle, whether the *)
(* host still has the role (validateOwnership).                            *)
LosesRole(h) ==
    /\ h \in runtime /\ h \in activated /\ h \in owned /\ Foreign(h)
    /\ standAside(h, "lost", "latest")
    /\ UNCHANGED <<shared, mode, at, counters>>

FaultyReleaseEnds(h) ==                \* the token is not compared
    /\ h \in releasing /\ releasing' = releasing \ {h}
    /\ file' = None /\ displaced' = displaced \ {h}
    /\ UNCHANGED <<dead, mode, queue, at, owned, activated, probe, runtime, counters>>

ReleaseEnds(h) ==
    /\ h \in releasing /\ releasing' = releasing \ {h}
    /\ file' = IF file = h THEN None ELSE file
    /\ displaced' = displaced \ {h}
    /\ UNCHANGED <<dead, mode, queue, at, owned, activated, probe, runtime, counters>>

-----------------------------------------------------------------------------
(* The operations of the queue.                                            *)

done(h) == set(queue, h, Tail(queue[h])) /\ set(at, h, "idle")
scheduleProbe(h) == probe' = IF Cur(h) THEN probe \cup {h} ELSE probe

Waiting(h, ops) ==
    /\ at[h] = "idle" /\ queue[h] # <<>> /\ Head(queue[h]).op \in ops
    /\ Head(queue[h]).op # "probe" => h \notin releasing

FaultyBegin(h) ==                      \* the old lock's release is not awaited
    /\ at[h] = "idle" /\ queue[h] # <<>> /\ Head(queue[h]).op \in {"start", "probe"}
    /\ IF Cur(h) THEN set(at, h, "acquire") /\ UNCHANGED queue ELSE done(h)
    /\ UNCHANGED <<shared, mode, owned, releasing, activated, probe, runtime, counters>>

BeginAttempt(h) ==
    /\ Waiting(h, {"start", "probe"})
    /\ IF Cur(h) THEN set(at, h, "acquire") /\ UNCHANGED queue ELSE done(h)
    /\ UNCHANGED <<shared, mode, owned, releasing, activated, probe, runtime, counters>>

FaultyFinishStop(h) ==                 \* does not wait for the release
    /\ at[h] = "idle" /\ queue[h] # <<>> /\ Head(queue[h]).op = "stop"
    /\ done(h)
    /\ UNCHANGED <<shared, mode, owned, releasing, activated, probe, runtime, counters>>

FinishStop(h) ==
    /\ Waiting(h, {"stop"})
    /\ IF h \in owned
       THEN releasing' = releasing \cup {h} /\ owned' = owned \ {h} /\ UNCHANGED <<queue, at>>
       ELSE done(h) /\ UNCHANGED <<releasing, owned>>
    /\ UNCHANGED <<shared, mode, activated, probe, runtime, counters>>

FinishLost(h) ==
    /\ Waiting(h, {"lost"})
    /\ scheduleProbe(h) /\ done(h)
    /\ UNCHANGED <<shared, mode, owned, releasing, activated, runtime, counters>>

Fails == failures < MaxFailures /\ failures' = failures + 1 /\ UNCHANGED calls

FaultyAcquire(h) ==                    \* a dead owner's lock is never taken over
    /\ at[h] = "acquire" /\ file = None
    /\ file' = h /\ displaced' = displaced \ {h}
    /\ set(at, h, "acquired")
    /\ UNCHANGED <<dead, mode, queue, owned, releasing, activated, probe, runtime, counters>>

(* acquireFileLock, which takes over the lock of a dead owner; it may also *)
(* lose to a contender that then gives up, or throw.                       *)
Acquire(h) ==
    /\ at[h] = "acquire" /\ file \in {None} \cup dead
    /\ file' = h /\ displaced' = displaced \ {h}
    /\ set(at, h, "acquired")
    /\ UNCHANGED <<dead, mode, queue, owned, releasing, activated, probe, runtime, counters>>

AcquireMisses(h) ==
    /\ at[h] = "acquire"
    /\ (file \in Live /\ UNCHANGED counters) \/ Fails
    /\ scheduleProbe(h) /\ done(h)
    /\ UNCHANGED <<shared, mode, owned, releasing, activated, runtime>>

(* releaseSpecific, then a probe unless the generation has moved on.       *)
giveUp(h) ==
    /\ activated' = activated \ {h} /\ runtime' = runtime \ {h}
    /\ releasing' = releasing \cup (owned \cap {h}) /\ owned' = owned \ {h}
    /\ set(at, h, "cleanup")

(* acquire has returned the lock; stop may have been called meanwhile.     *)
Install(h) ==
    /\ at[h] = "acquired"
    /\ IF Cur(h) /\ ~Foreign(h)
       THEN /\ owned' = owned \cup {h} /\ set(at, h, "open")
            /\ UNCHANGED <<releasing, activated, runtime>>
       ELSE /\ releasing' = releasing \cup {h} /\ set(at, h, "cleanup")
            /\ UNCHANGED <<owned, activated, runtime>>
    /\ UNCHANGED <<shared, mode, queue, probe, counters>>

(* activate: open the repository (it may turn out to be locked), then the  *)
(* finalizer and the first cycle, then the runtime if still current.       *)
Opened(h) ==
    /\ at[h] = "open"
    /\ \/ IsCurrent(h) /\ set(at, h, "prepare")
       \/ set(at, h, "settle")
    /\ UNCHANGED <<shared, mode, queue, owned, releasing, activated, probe, runtime, counters>>

FaultyPrepared(h) ==                   \* no isCurrent after the last await
    /\ at[h] = "prepare"
    /\ runtime' = runtime \cup {h}
    /\ set(at, h, "settle")
    /\ UNCHANGED <<shared, mode, queue, owned, releasing, activated, probe, counters>>

Prepared(h) ==
    /\ at[h] = "prepare"
    /\ runtime' = IF IsCurrent(h) THEN runtime \cup {h} ELSE runtime
    /\ set(at, h, "settle")
    /\ UNCHANGED <<shared, mode, queue, owned, releasing, activated, probe, counters>>

ActivateThrows(h) ==
    /\ at[h] \in {"open", "prepare"} /\ Fails
    /\ giveUp(h)
    /\ UNCHANGED <<shared, mode, queue, probe>>

Settle(h) ==
    /\ at[h] = "settle"
    /\ IF IsCurrent(h) /\ ~Foreign(h)
       THEN activated' = activated \cup {h} /\ done(h) /\ UNCHANGED <<releasing, owned, runtime>>
       ELSE giveUp(h) /\ UNCHANGED queue
    /\ UNCHANGED <<shared, mode, probe, counters>>

CleanedUp(h) ==
    /\ at[h] = "cleanup" /\ h \notin releasing
    /\ scheduleProbe(h) /\ done(h)
    /\ UNCHANGED <<shared, mode, owned, releasing, activated, runtime, counters>>

ProbeFires(h) ==
    /\ h \in probe /\ probe' = probe \ {h}
    /\ set(queue, h, Append(queue[h], [op |-> "probe", gen |-> "latest"]))
    /\ UNCHANGED <<shared, mode, at, owned, releasing, activated, runtime, counters>>

-----------------------------------------------------------------------------
(* A window is killed; or a contender's takeover moves a live lock away    *)
(* (see FileLock).                                                         *)
Crash(h) ==
    /\ Fails
    /\ dead' = dead \cup {h}
    /\ set(mode, h, "disposed") /\ set(queue, h, <<>>) /\ set(at, h, "idle")
    /\ owned' = owned \ {h} /\ releasing' = releasing \ {h} /\ activated' = activated \ {h}
    /\ probe' = probe \ {h} /\ runtime' = runtime \ {h}
    /\ UNCHANGED <<file, displaced>>

Displace ==
    /\ file \in Live /\ Fails
    /\ file' = None /\ displaced' = displaced \cup {file}
    /\ UNCHANGED <<dead, mode, queue, at, owned, releasing, activated, probe, runtime>>

Step(h) ==
    \/ ReleaseEnds(h) \/ BeginAttempt(h) \/ FinishStop(h) \/ FinishLost(h)
    \/ Acquire(h) \/ AcquireMisses(h) \/ Install(h) \/ Opened(h) \/ Prepared(h)
    \/ ActivateThrows(h) \/ Settle(h) \/ CleanedUp(h) \/ ProbeFires(h)

Next ==
    \/ \E h \in Live : Step(h) \/ LosesRole(h) \/ Start(h) \/ Stop(h) \/ Crash(h)
    \/ Displace

(* Promises settle and timers fire, those of the queue beside those of the *)
(* probe, the release and the polls.                                       *)
Fairness ==
    \A h \in Host :
        /\ WF_vars(h \in Live /\ (Step(h) \/ LosesRole(h)))
        /\ WF_vars(h \in Live /\ LosesRole(h))

Spec == Init /\ [][Next]_vars
LiveSpec == Spec /\ Fairness

-----------------------------------------------------------------------------
(* The type of the state; an operation is under way only at the head of    *)
(* the queue, and no lock is waited for while the host's own last one is   *)
(* still being released (enqueue, start).                                  *)
TypeOK ==
    /\ file \in Host \cup {None} /\ displaced \subseteq Host /\ dead \subseteq Host
    /\ mode \in [Host -> {"run", "stopped", "disposed"}]
    /\ queue \in [Host -> Seq(Operations)]
    /\ at \in [Host -> {"idle", "acquire", "acquired", "open", "prepare", "settle", "cleanup"}]
    /\ owned \subseteq Host /\ releasing \subseteq Host /\ activated \subseteq Host
    /\ probe \subseteq Host /\ runtime \subseteq Host
    /\ calls \in 0..MaxCalls /\ failures \in 0..MaxFailures
    /\ \A h \in Host :
           /\ at[h] # "idle" => queue[h] # <<>> /\ Head(queue[h]).op \in {"start", "probe"}
           /\ at[h] \in {"acquire", "acquired"} => h \notin releasing /\ h \notin owned

(* No watcher or timer outlives the role: a runtime belongs to a host that *)
(* is meant to run and owns a lock of the latest generation, even when     *)
(* stop or start came while activate was waiting (activate's isCurrent).   *)
NoRuntimeWithoutRole ==
    \A h \in Host : h \in runtime \/ h \in activated => h \in owned /\ mode[h] = "run"

(* Two hosts do background work at one time only if the lock file of one   *)
(* of them was moved away under it.                                        *)
OneRuntime ==
    \A g, h \in Host : g \in runtime /\ h \in runtime /\ g # h => {g, h} \cap displaced # {}

(* When the promise of the last stop resolves, the host has let go of the  *)
(* lock: setup and disconnect replace the repository after it (stop).      *)
StopHasReleased ==
    \A h \in Live :
        mode[h] # "run" /\ queue[h] = <<>> => h \notin owned /\ h \notin releasing /\ file # h

(* A host that is meant to run and has nothing to do is the leader or has  *)
(* its next probe scheduled, however its last attempt ended                *)
(* (scheduleProbe).                                                        *)
FollowerProbes ==
    \A h \in Host : mode[h] = "run" /\ queue[h] = <<>> => h \in activated \/ h \in probe

(* If somebody goes on wanting the role, somebody gets it and keeps it.    *)
RoleIsTaken ==
    <>[](\A h \in Host : mode[h] # "run") \/ <>[](\E h \in Host : h \in activated)

(* A leader does not go on for ever while another host has the lock: its   *)
(* timers find out and end its runtime (validateOwnership).                *)
LoserStandsDown == \A h \in Host : []<>~(h \in runtime /\ file \in Host \ {h})
=============================================================================
