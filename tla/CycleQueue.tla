----------------------------- MODULE CycleQueue -----------------------------
(***************************************************************************)
(* The scheduler in front of the synchronization cycle                     *)
(* (src/src/sync/cycleQueue.ts, class SyncCycleQueue).                     *)
(*                                                                         *)
(* Three kinds of party ask for a cycle: commands of the user (Callers),   *)
(* the poll timers (Timers) and the shared-folder watcher.  One drain at a *)
(* time claims everything that was asked, widens it to one scope, runs one *)
(* cycle for it and settles the promises it carried.                       *)
(*                                                                         *)
(* Code between two awaits is one action: JavaScript runs it without       *)
(* interruption.  The awaits are runCycle (drain = "cycle"),               *)
(* runMaintenance (drain = "maintenance") and the promise reaction that    *)
(* clears `drain` after drainQueue has returned (drain = "ending").        *)
(***************************************************************************)
EXTENDS Naturals, FiniteSets

CONSTANTS
    Callers,       \* commands that call request() and withCommandFloor()
    Timers,        \* poll timers, each waiting for its promise before re-arming
    TimerScope,    \* the scope each timer polls
    Watcher,       \* the repository watcher; also the deferred request
    InlineCallers  \* may a caller call back from the reaction to its promise?

Scopes == {"all", "files", "chat", "remote"}
Parties == Callers \cup Timers \cup {Watcher}

ASSUME TimerScopeAssumption == TimerScope \in [Timers -> Scopes]
ASSUME PartiesAssumption ==
    Watcher \notin Callers /\ Watcher \notin Timers /\ Callers \cap Timers = {}
ASSUME InlineAssumption == InlineCallers \in BOOLEAN

(* A promise handed out by the queue: who awaits it and, kept for the      *)
(* properties only, what was asked of it.                                  *)
Waiter == [parties : SUBSET Parties, scopes : SUBSET Scopes, manual : BOOLEAN]
NoWaiter == [parties |-> {}, scopes |-> {}, manual |-> FALSE]
NoScope == "none"

VARIABLES
    pendingScopes,           \* scopes asked for and not yet claimed
    pendingManual,           \* one of them was asked for by the user
    waiters,                 \* promises not yet claimed by a cycle
    pendingAutomaticWaiter,  \* the one automatic requests share, or NoWaiter
    drain,                   \* where the drain loop is parked; "idle" = null
    runningScope,            \* scope inside runCycle, NoScope otherwise
    runningManual,           \* `manual` of the running cycle
    carried,                 \* promises the running cycle will settle
    closed,                  \* close() was called
    floor,                   \* the commands inside withCommandFloor
    deferredScopes           \* automatic scopes withheld while floor > 0

requested == <<pendingScopes, pendingManual, waiters, pendingAutomaticWaiter>>
running == <<drain, runningScope, runningManual, carried>>
vars == <<requested, running, closed, floor, deferredScopes>>

-----------------------------------------------------------------------------
(* Definitions named Faulty... are the bugs the properties are tested on.  *)

FaultyMergeNarrow(scopes) ==        \* files and chat do not widen to all
    IF "all" \in scopes THEN "all"
    ELSE IF "files" \in scopes THEN "files"
    ELSE IF "chat" \in scopes THEN "chat"
    ELSE "remote"

mergeSyncScopes(scopes) ==
    IF "all" \in scopes \/ {"files", "chat"} \subseteq scopes THEN "all"
    ELSE IF "files" \in scopes THEN "files"
    ELSE IF "chat" \in scopes THEN "chat"
    ELSE "remote"

syncScopeCovers(cover, asked) ==
    cover = "all" \/ cover = asked \/ asked = "remote"

Init ==
    /\ pendingScopes = {} /\ pendingManual = FALSE
    /\ waiters = {} /\ pendingAutomaticWaiter = NoWaiter
    /\ drain = "idle" /\ runningScope = NoScope /\ runningManual = FALSE
    /\ carried = {}
    /\ closed = FALSE /\ floor = {} /\ deferredScopes = {}

FaultyClaimSettlesLate(scopes, manual, parked) ==  \* settled when drained
    /\ drain' = "cycle"
    /\ runningScope' = mergeSyncScopes(scopes)
    /\ runningManual' = manual
    /\ carried' = carried \cup parked
    /\ pendingScopes' = {} /\ pendingManual' = FALSE
    /\ waiters' = {} /\ pendingAutomaticWaiter' = NoWaiter

(* The synchronous head of the drain loop: merge and clear what is pending *)
(* and claim exactly the promises pushed with it, then call runCycle.      *)
claim(scopes, manual, parked) ==
    /\ drain' = "cycle"
    /\ runningScope' = mergeSyncScopes(scopes)
    /\ runningManual' = manual
    /\ carried' = parked
    /\ pendingScopes' = {} /\ pendingManual' = FALSE
    /\ waiters' = {} /\ pendingAutomaticWaiter' = NoWaiter

(* Every request ends in startDrain: nothing if a drain is in flight, else *)
(* the drain runs synchronously up to its first await, that is, it claims. *)
startDrain(scopes, manual, parked, shared) ==
    IF drain = "idle"
    THEN claim(scopes, manual, parked)
    ELSE /\ pendingScopes' = scopes /\ pendingManual' = manual
         /\ waiters' = parked /\ pendingAutomaticWaiter' = shared
         /\ UNCHANGED running

Parked(p) == \E w \in waiters \cup carried : p \in w.parties

FaultyRequestWhenClosed(p, manual, scope) ==       \* close() is not looked at
    LET mine == [parties |-> {p}, scopes |-> {scope}, manual |-> manual]
    IN  startDrain(pendingScopes \cup {scope}, pendingManual \/ manual,
                   waiters \cup {mine}, pendingAutomaticWaiter)

request(p, manual, scope) ==
    /\ ~closed
    /\ LET mine == [parties |-> {p}, scopes |-> {scope}, manual |-> manual]
       IN  startDrain(pendingScopes \cup {scope}, pendingManual \/ manual,
                      waiters \cup {mine}, pendingAutomaticWaiter)

(* With a command on the floor the scope is remembered and no promise is   *)
(* kept; otherwise the request joins the one shared promise of the batch.  *)
requestAutomatic(p, scope) ==
    /\ ~closed
    /\ \/ /\ floor # {}
          /\ deferredScopes' = deferredScopes \cup {scope}
          /\ UNCHANGED <<requested, running>>
       \/ /\ floor = {}
          /\ LET shared ==
                   [parties |-> pendingAutomaticWaiter.parties \cup {p},
                    scopes |-> pendingAutomaticWaiter.scopes \cup {scope},
                    manual |-> FALSE]
             IN  startDrain(pendingScopes \cup {scope}, pendingManual,
                            (waiters \ {pendingAutomaticWaiter}) \cup {shared},
                            shared)
          /\ UNCHANGED deferredScopes

FaultyPollingWhileBusy(t, scope) ==     \* a tick behind any cycle is dropped
    /\ floor = {}
    /\ drain = "idle"
    /\ request(t, FALSE, scope)
    /\ UNCHANGED deferredScopes

(* A tick carries no information of its own: dropped while a command holds *)
(* the floor or when the running cycle covers it, coalesced otherwise.     *)
requestPolling(t, scope) ==
    /\ floor = {}
    /\ \/ /\ drain = "idle"
          /\ request(t, FALSE, scope)
          /\ UNCHANGED deferredScopes
       \/ /\ drain # "idle"
          /\ ~(runningScope # NoScope /\ syncScopeCovers(runningScope, scope))
          /\ requestAutomatic(t, scope)

(* Microtasks may run between the return of drainQueue and the reaction    *)
(* that clears `drain`; timers and file events are macrotasks and may not. *)
CallerMayRun == drain = "ending" => InlineCallers

-----------------------------------------------------------------------------
SyncNow(c) ==
    /\ CallerMayRun /\ ~Parked(c)
    /\ \E manual \in BOOLEAN, scope \in Scopes : request(c, manual, scope)
    /\ UNCHANGED <<closed, floor, deferredScopes>>

EnterFloor(c) ==
    /\ CallerMayRun /\ ~Parked(c)
    /\ c \notin floor
    /\ floor' = floor \cup {c}
    /\ UNCHANGED <<requested, running, closed, deferredScopes>>

(* The last command off the floor re-issues what was withheld, as one      *)
(* widened automatic request.                                              *)
LeaveFloor(c) ==
    /\ CallerMayRun /\ ~Parked(c)
    /\ c \in floor
    /\ floor' = floor \ {c}
    /\ IF ~closed /\ floor' = {} /\ deferredScopes # {}
       THEN LET scope == mergeSyncScopes(deferredScopes)
                shared ==
                  [parties |-> pendingAutomaticWaiter.parties \cup {Watcher},
                   scopes |-> pendingAutomaticWaiter.scopes \cup deferredScopes,
                   manual |-> FALSE]
            IN  /\ deferredScopes' = {}
                /\ startDrain(pendingScopes \cup {scope}, pendingManual,
                              (waiters \ {pendingAutomaticWaiter}) \cup {shared},
                              shared)
       ELSE UNCHANGED <<requested, running, deferredScopes>>
    /\ UNCHANGED closed

TimerTick(t) ==
    /\ drain # "ending" /\ ~Parked(t)
    /\ requestPolling(t, TimerScope[t])
    /\ UNCHANGED <<closed, floor>>

WatcherFires ==
    /\ drain # "ending"
    /\ requestAutomatic(Watcher, "remote")
    /\ UNCHANGED <<closed, floor>>

Close ==
    /\ ~closed
    /\ closed' = TRUE
    /\ deferredScopes' = {}
    /\ UNCHANGED <<requested, running, floor>>

(* drainQueue returned or threw; its finally block rejected every promise  *)
(* still parked but left the pending scopes for the next drain.            *)
endDrain ==
    /\ drain' = IF InlineCallers THEN "ending" ELSE "idle"
    /\ runningScope' = NoScope /\ runningManual' = FALSE /\ carried' = {}
    /\ waiters' = {} /\ pendingAutomaticWaiter' = NoWaiter
    /\ UNCHANGED <<pendingScopes, pendingManual>>

(* After a cycle or after maintenance: claim what arrived meanwhile.       *)
CycleSucceeds ==
    /\ drain = "cycle"
    /\ IF pendingScopes # {}
       THEN claim(pendingScopes, pendingManual, waiters)
       ELSE /\ drain' = "maintenance"
            /\ runningScope' = NoScope /\ runningManual' = FALSE
            /\ carried' = {}
            /\ UNCHANGED requested
    /\ UNCHANGED <<closed, floor, deferredScopes>>

CycleFails ==
    /\ drain = "cycle"
    /\ endDrain
    /\ UNCHANGED <<closed, floor, deferredScopes>>

MaintenanceEnds ==
    /\ drain = "maintenance"
    /\ IF pendingScopes # {}
       THEN claim(pendingScopes, pendingManual, waiters)
       ELSE endDrain
    /\ UNCHANGED <<closed, floor, deferredScopes>>

MaintenanceFails ==
    /\ drain = "maintenance"
    /\ endDrain
    /\ UNCHANGED <<closed, floor, deferredScopes>>

DrainCleared ==
    /\ drain = "ending"
    /\ drain' = "idle"
    /\ UNCHANGED <<requested, runningScope, runningManual, carried, closed,
                   floor, deferredScopes>>

DrainStep == CycleSucceeds \/ CycleFails \/ MaintenanceEnds
             \/ MaintenanceFails \/ DrainCleared

Next ==
    \/ \E c \in Callers : SyncNow(c) \/ EnterFloor(c) \/ LeaveFloor(c)
    \/ \E t \in Timers : TimerTick(t)
    \/ WatcherFires
    \/ Close
    \/ DrainStep

Spec == Init /\ [][Next]_vars

(* Cycles and maintenance end, microtasks run, and an armed timer fires.   *)
(* Strong fairness for a timer: it stays armed while a tick is impossible  *)
(* (a microtask is running) or without effect, and fires afterwards.       *)
(* Nothing obliges a command to leave the floor, the watcher to notify or  *)
(* the user to act.                                                        *)
Fairness ==
    /\ WF_vars(DrainStep)
    /\ \A t \in Timers : SF_vars(TimerTick(t))
LiveSpec == Spec /\ Fairness

-----------------------------------------------------------------------------
TypeOK ==
    /\ pendingScopes \subseteq Scopes /\ pendingManual \in BOOLEAN
    /\ waiters \subseteq Waiter /\ pendingAutomaticWaiter \in Waiter
    /\ drain \in {"idle", "cycle", "maintenance", "ending"}
    /\ runningScope \in Scopes \cup {NoScope} /\ runningManual \in BOOLEAN
    /\ carried \subseteq Waiter
    /\ closed \in BOOLEAN /\ floor \subseteq Callers
    /\ deferredScopes \subseteq Scopes

(* A cycle looks at everything its callers asked for, however their        *)
(* requests were coalesced, and runs as a manual cycle if one of them was  *)
(* the user (drainQueue, mergeSyncScopes).                                 *)
CarriedIsServed ==
    \A w \in carried :
        /\ \A s \in w.scopes : syncScopeCovers(runningScope, s)
        /\ w.manual => runningManual

(* An automatic request joins only a promise the next claim will carry; a  *)
(* claimed or settled one would answer it from a cycle that started before *)
(* it asked (requestAutomatic, the reset in drainQueue).                   *)
SharedWaiterIsPending ==
    pendingAutomaticWaiter # NoWaiter => pendingAutomaticWaiter \in waiters

(* A parked promise always has its scope pending, so whoever drains next   *)
(* claims it into a cycle wide enough; without this a scope could be run   *)
(* for nobody, or a promise parked for no scope (request).                 *)
ParkedIsPending ==
    \A w \in waiters :
        /\ \A s \in w.scopes : syncScopeCovers(mergeSyncScopes(pendingScopes), s)
        /\ pendingScopes # {}
        /\ w.manual => pendingManual

(* A caller hears back from the cycle that took its scope, even if timers  *)
(* and watcher refill the queue for ever: the documented contract of       *)
(* request().                                                              *)
EveryRequestSettles == \A c \in Callers : Parked(c) ~> ~Parked(c)

(* What the code does give: as long as the timers keep ticking (no command *)
(* on the floor, not closed) every caller hears back although the queue    *)
(* may never be empty (request, drainQueue).                               *)
SettlesWhileTimersRun ==
    <>[](floor = {}) => \A c \in Callers : []<>(~Parked(c) \/ closed)

(* Two timers of unequal scope cannot phase-lock so that one resource is   *)
(* never polled (requestPolling).                                          *)
NoTimerStarves ==
    <>[](floor = {}) =>
        \A t \in Timers :
            []<>(closed \/ (runningScope # NoScope
                            /\ syncScopeCovers(runningScope, TimerScope[t])))

(* A command that holds the floor and is not itself waiting for a cycle    *)
(* eventually finds the drain idle, so the file lock can become free       *)
(* (withCommandFloor).                                                     *)
FloorQuietsTheQueue ==
    <>[](floor # {} /\ \A c \in Callers : ~Parked(c)) => <>[](drain = "idle")

(* After close() the drain ends for good, so settled() returns and the     *)
(* shutdown can go on (close, settled).                                    *)
CloseQuiesces == closed ~> [](drain = "idle")
=============================================================================
