-------------------------- MODULE CycleQueueProofs --------------------------
(***************************************************************************)
(* What the scheduler promises to whoever waits for it, proved for any     *)
(* commands, timers and scopes.  Coalescing is the difficulty: what a      *)
(* waiter asked for is merged into a scope twice before a cycle runs (by   *)
(* the command floor and by the drain), so the invariant of the carried    *)
(* promises rests on one about the parked ones, ParkedIsPending.           *)
(***************************************************************************)
EXTENDS CycleQueue, TLAPS

(* What holds of promises parked next to pending scopes.                   *)
Fits(scopes, manual, parked) ==
    \A w \in parked :
        /\ \A s \in w.scopes : syncScopeCovers(mergeSyncScopes(scopes), s)
        /\ scopes # {}
        /\ w.manual => manual

IInv ==
    /\ TypeOK
    /\ CarriedIsServed
    /\ ParkedIsPending
    /\ SharedWaiterIsPending

-----------------------------------------------------------------------------
(* Merging scopes.                                                         *)

(* The merged scope is one of the scopes (mergeSyncScopes).                *)
LEMMA MergeType ==
    ASSUME NEW A PROVE mergeSyncScopes(A) \in Scopes
BY DEF mergeSyncScopes, Scopes

(* The merged scope covers whatever a member of the set covers.            *)
LEMMA MergeCoversMember ==
    ASSUME NEW A \in SUBSET Scopes, NEW c \in A, NEW s \in Scopes,
           syncScopeCovers(c, s)
    PROVE  syncScopeCovers(mergeSyncScopes(A), s)
BY DEF mergeSyncScopes, syncScopeCovers, Scopes

(* Asking for more never narrows the merged scope.                         *)
LEMMA MergeGrows ==
    ASSUME NEW A \in SUBSET Scopes, NEW B \in SUBSET Scopes, NEW s \in Scopes,
           syncScopeCovers(mergeSyncScopes(A), s)
    PROVE  syncScopeCovers(mergeSyncScopes(A \cup B), s)
BY DEF mergeSyncScopes, syncScopeCovers, Scopes

(* Merging twice, as withCommandFloor and drainQueue do, loses nothing.    *)
LEMMA MergeOfMerge ==
    ASSUME NEW A \in SUBSET Scopes, NEW D \in SUBSET Scopes, NEW s \in D
    PROVE  syncScopeCovers(mergeSyncScopes(A \cup {mergeSyncScopes(D)}), s)
<1>1. syncScopeCovers(mergeSyncScopes(D), s)
  BY MergeCoversMember DEF syncScopeCovers
<1>2. QED
  BY <1>1, MergeType, MergeCoversMember

(* Parked promises still fit when scopes are added.                        *)
LEMMA FitsGrows ==
    ASSUME NEW A \in SUBSET Scopes, NEW B \in SUBSET Scopes,
           NEW m \in BOOLEAN, NEW n \in BOOLEAN, m => n,
           NEW W \in SUBSET Waiter, Fits(A, m, W)
    PROVE  Fits(A \cup B, n, W)
<1> SUFFICES ASSUME NEW w \in W
             PROVE  /\ \A s \in w.scopes :
                          syncScopeCovers(mergeSyncScopes(A \cup B), s)
                    /\ A \cup B # {}
                    /\ w.manual => n
  BY DEF Fits
<1>1. w.scopes \subseteq Scopes
  BY DEF Waiter
<1>2. /\ \A s \in w.scopes : syncScopeCovers(mergeSyncScopes(A), s)
      /\ A # {}
      /\ w.manual => m
  BY DEF Fits
<1>3. QED
  BY <1>1, <1>2, MergeGrows

-----------------------------------------------------------------------------
(* The two ways a step ends: in startDrain or in endDrain.                 *)

LEMMA NoWaiterType == NoWaiter \in Waiter
BY DEF NoWaiter, Waiter

(* Claiming parked promises that fit serves them (drainQueue).             *)
LEMMA ClaimKeeps ==
    ASSUME NEW scopes \in SUBSET Scopes, NEW manual \in BOOLEAN,
           NEW parked \in SUBSET Waiter, Fits(scopes, manual, parked),
           TypeOK, claim(scopes, manual, parked),
           closed' \in BOOLEAN, floor' \subseteq Callers,
           deferredScopes' \subseteq Scopes
    PROVE  IInv'
<1>1. TypeOK'
  BY MergeType, NoWaiterType DEF TypeOK, claim
<1>2. CarriedIsServed'
  BY DEF claim, CarriedIsServed, Fits
<1>3. ParkedIsPending' /\ SharedWaiterIsPending'
  BY DEF claim, ParkedIsPending, SharedWaiterIsPending
<1>4. QED
  BY <1>1, <1>2, <1>3 DEF IInv

(* Every request ends in startDrain, with promises that fit.               *)
LEMMA StartDrainKeeps ==
    ASSUME NEW scopes \in SUBSET Scopes, NEW manual \in BOOLEAN,
           NEW parked \in SUBSET Waiter, Fits(scopes, manual, parked),
           NEW shared \in Waiter, shared # NoWaiter => shared \in parked,
           IInv, startDrain(scopes, manual, parked, shared),
           closed' \in BOOLEAN, floor' \subseteq Callers,
           deferredScopes' \subseteq Scopes
    PROVE  IInv'
<1>1. CASE drain = "idle"
  BY <1>1, ClaimKeeps DEF startDrain, IInv
<1>2. CASE drain # "idle"
  <2>1. /\ pendingScopes' = scopes /\ pendingManual' = manual
        /\ waiters' = parked /\ pendingAutomaticWaiter' = shared
        /\ UNCHANGED running
    BY <1>2 DEF startDrain
  <2>2. TypeOK'
    BY <2>1 DEF IInv, TypeOK, running
  <2>3. CarriedIsServed'
    BY <2>1 DEF IInv, CarriedIsServed, running
  <2>4. ParkedIsPending'
    BY <2>1 DEF ParkedIsPending, Fits
  <2>5. SharedWaiterIsPending'
    BY <2>1 DEF SharedWaiterIsPending
  <2>6. QED
    BY <2>2, <2>3, <2>4, <2>5 DEF IInv
<1>3. QED
  BY <1>1, <1>2

(* drainQueue's finally block parks nothing.                               *)
LEMMA EndDrainKeeps ==
    ASSUME IInv, endDrain, UNCHANGED <<closed, floor, deferredScopes>>
    PROVE  IInv'
<1>1. TypeOK'
  BY NoWaiterType DEF IInv, TypeOK, endDrain
<1>2. CarriedIsServed' /\ ParkedIsPending' /\ SharedWaiterIsPending'
  BY DEF endDrain, CarriedIsServed, ParkedIsPending, SharedWaiterIsPending
<1>3. QED
  BY <1>1, <1>2 DEF IInv

(* A step that touches neither the requests nor the drain.                 *)
LEMMA QueueUntouched ==
    ASSUME IInv, UNCHANGED <<requested, running>>,
           closed' \in BOOLEAN, floor' \subseteq Callers,
           deferredScopes' \subseteq Scopes
    PROVE  IInv'
BY DEF IInv, TypeOK, CarriedIsServed, ParkedIsPending, SharedWaiterIsPending,
       requested, running

-----------------------------------------------------------------------------
(* The operations.                                                         *)

LEMMA RequestKeeps ==
    ASSUME IInv, NEW p \in Parties, NEW m \in BOOLEAN, NEW scope \in Scopes,
           request(p, m, scope), UNCHANGED <<floor, deferredScopes>>,
           closed' \in BOOLEAN
    PROVE  IInv'
<1> DEFINE mine == [parties |-> {p}, scopes |-> {scope}, manual |-> m]
           S == pendingScopes \cup {scope}
           M == pendingManual \/ m
           W == waiters \cup {mine}
<1>1. TypeOK
  BY DEF IInv
<1>2. /\ mine \in Waiter
      /\ S \in SUBSET Scopes /\ M \in BOOLEAN /\ W \in SUBSET Waiter
  BY <1>1 DEF TypeOK, Waiter
<1>3. Fits(S, M, waiters)
  <2>1. Fits(pendingScopes, pendingManual, waiters)
    BY DEF IInv, ParkedIsPending, Fits
  <2>2. QED
    BY <1>1, <2>1, FitsGrows DEF TypeOK
<1>4. syncScopeCovers(mergeSyncScopes(S), scope)
  BY <1>2, MergeCoversMember DEF syncScopeCovers
<1>5. Fits(S, M, W)
  BY <1>3, <1>4 DEF Fits
<1>6. /\ pendingAutomaticWaiter \in Waiter
      /\ pendingAutomaticWaiter # NoWaiter => pendingAutomaticWaiter \in W
      /\ floor' \subseteq Callers /\ deferredScopes' \subseteq Scopes
  BY <1>1 DEF TypeOK, IInv, SharedWaiterIsPending
<1>7. startDrain(S, M, W, pendingAutomaticWaiter)
  BY DEF request
<1> HIDE DEF S, M, W
<1>8. QED
  BY <1>2, <1>5, <1>6, <1>7, StartDrainKeeps

(* Joining the shared promise: D was asked for and is pending as scope.    *)
LEMMA JoinKeeps ==
    ASSUME IInv, NEW p \in Parties, NEW D \in SUBSET Scopes,
           NEW scope \in Scopes,
           \A s \in D : syncScopeCovers(mergeSyncScopes(pendingScopes \cup {scope}), s),
           NEW shared,
           shared = [parties |-> pendingAutomaticWaiter.parties \cup {p},
                     scopes |-> pendingAutomaticWaiter.scopes \cup D,
                     manual |-> FALSE],
           startDrain(pendingScopes \cup {scope}, pendingManual,
                      (waiters \ {pendingAutomaticWaiter}) \cup {shared}, shared),
           closed' \in BOOLEAN, floor' \subseteq Callers,
           deferredScopes' \subseteq Scopes
    PROVE  IInv'
<1> DEFINE S == pendingScopes \cup {scope}
           W == (waiters \ {pendingAutomaticWaiter}) \cup {shared}
<1>1. TypeOK
  BY DEF IInv
<1>2. /\ shared \in Waiter
      /\ S \in SUBSET Scopes /\ W \in SUBSET Waiter
      /\ pendingManual \in BOOLEAN
  <2>1. /\ pendingAutomaticWaiter.parties \subseteq Parties
        /\ pendingAutomaticWaiter.scopes \subseteq Scopes
    BY <1>1 DEF TypeOK, Waiter
  <2>2. shared \in Waiter
    BY <2>1 DEF Waiter
  <2>3. QED
    BY <1>1, <2>2 DEF TypeOK
<1>3. Fits(S, pendingManual, waiters)
  <2>1. Fits(pendingScopes, pendingManual, waiters)
    BY DEF IInv, ParkedIsPending, Fits
  <2>2. QED
    BY <1>1, <2>1, FitsGrows DEF TypeOK
<1>4. \A s \in pendingAutomaticWaiter.scopes :
          syncScopeCovers(mergeSyncScopes(S), s)
  <2>1. CASE pendingAutomaticWaiter = NoWaiter
    BY <2>1 DEF NoWaiter
  <2>2. CASE pendingAutomaticWaiter # NoWaiter
    BY <2>2, <1>3 DEF IInv, SharedWaiterIsPending, Fits
  <2>3. QED
    BY <2>1, <2>2
<1>5. \A s \in shared.scopes : syncScopeCovers(mergeSyncScopes(S), s)
  BY <1>4
<1>6. Fits(S, pendingManual, W)
  <2>1. S # {} /\ ~shared.manual
    OBVIOUS
  <2>2. \A w \in W : w \in waiters \/ w = shared
    OBVIOUS
  <2> HIDE DEF S, W
  <2>3. QED
    BY <1>3, <1>5, <2>1, <2>2 DEF Fits
<1>7. startDrain(S, pendingManual, W, shared) /\ shared \in W
  OBVIOUS
<1> HIDE DEF S, W
<1>8. QED
  BY <1>2, <1>6, <1>7, StartDrainKeeps

LEMMA AutomaticKeeps ==
    ASSUME IInv, NEW p \in Parties, NEW scope \in Scopes,
           requestAutomatic(p, scope), UNCHANGED <<closed, floor>>
    PROVE  IInv'
<1>1. TypeOK
  BY DEF IInv
<1>2. closed' \in BOOLEAN /\ floor' \subseteq Callers
  BY <1>1 DEF TypeOK
<1>3. CASE floor # {}
  <2>1. /\ deferredScopes' = deferredScopes \cup {scope}
        /\ UNCHANGED <<requested, running>>
    BY <1>3 DEF requestAutomatic
  <2>2. QED
    BY <1>1, <1>2, <2>1, QueueUntouched DEF TypeOK
<1>4. CASE floor = {}
  <2> DEFINE shared == [parties |-> pendingAutomaticWaiter.parties \cup {p},
                        scopes |-> pendingAutomaticWaiter.scopes \cup {scope},
                        manual |-> FALSE]
  <2>1. /\ startDrain(pendingScopes \cup {scope}, pendingManual,
                      (waiters \ {pendingAutomaticWaiter}) \cup {shared}, shared)
        /\ UNCHANGED deferredScopes
    BY <1>4 DEF requestAutomatic
  <2>2. syncScopeCovers(mergeSyncScopes(pendingScopes \cup {scope}), scope)
    BY <1>1, MergeCoversMember DEF syncScopeCovers, TypeOK
  <2>3. deferredScopes' \subseteq Scopes
    BY <1>1, <2>1 DEF TypeOK
  <2> HIDE DEF shared
  <2>4. \A s \in {scope} :
            syncScopeCovers(mergeSyncScopes(pendingScopes \cup {scope}), s)
    BY <2>2
  <2>5. QED
    BY <1>2, <2>1, <2>3, <2>4, JoinKeeps DEF shared
<1>5. QED
  BY <1>3, <1>4

LEMMA LeaveFloorKeeps ==
    ASSUME IInv, NEW c \in Callers, LeaveFloor(c)
    PROVE  IInv'
<1>1. TypeOK
  BY DEF IInv
<1>2. closed' \in BOOLEAN /\ floor' \subseteq Callers
  BY <1>1 DEF TypeOK, LeaveFloor
<1>3. CASE ~closed /\ floor' = {} /\ deferredScopes # {}
  <2> DEFINE scope == mergeSyncScopes(deferredScopes)
             shared == [parties |-> pendingAutomaticWaiter.parties \cup {Watcher},
                        scopes |-> pendingAutomaticWaiter.scopes \cup deferredScopes,
                        manual |-> FALSE]
  <2>1. /\ startDrain(pendingScopes \cup {scope}, pendingManual,
                      (waiters \ {pendingAutomaticWaiter}) \cup {shared}, shared)
        /\ deferredScopes' = {}
    BY <1>3 DEF LeaveFloor
  <2>2. /\ deferredScopes \in SUBSET Scopes /\ deferredScopes' \subseteq Scopes
        /\ scope \in Scopes /\ Watcher \in Parties
    BY <1>1, <2>1, MergeType DEF TypeOK, Parties
  <2>3. \A s \in deferredScopes :
            syncScopeCovers(mergeSyncScopes(pendingScopes \cup {scope}), s)
    BY <1>1, <2>2, MergeOfMerge DEF TypeOK
  <2> HIDE DEF scope, shared
  <2>4. QED
    BY <1>2, <2>1, <2>2, <2>3, JoinKeeps DEF shared
<1>4. CASE ~(~closed /\ floor' = {} /\ deferredScopes # {})
  <2>1. UNCHANGED <<requested, running, deferredScopes>>
    BY <1>4 DEF LeaveFloor
  <2>2. QED
    BY <1>1, <1>2, <2>1, QueueUntouched DEF TypeOK
<1>5. QED
  BY <1>3, <1>4

LEMMA TimerKeeps ==
    ASSUME IInv, NEW t \in Timers, TimerTick(t)
    PROVE  IInv'
<1>1. /\ t \in Parties /\ TimerScope[t] \in Scopes
      /\ requestPolling(t, TimerScope[t]) /\ UNCHANGED <<closed, floor>>
  BY TimerScopeAssumption DEF TimerTick, Parties
<1>2. CASE drain = "idle"
  <2>1. request(t, FALSE, TimerScope[t]) /\ UNCHANGED deferredScopes
    BY <1>1, <1>2 DEF requestPolling
  <2>2. closed' \in BOOLEAN
    BY <1>1 DEF IInv, TypeOK
  <2>3. QED
    BY <1>1, <2>1, <2>2, RequestKeeps
<1>3. CASE drain # "idle"
  <2>1. requestAutomatic(t, TimerScope[t])
    BY <1>1, <1>3 DEF requestPolling
  <2>2. QED
    BY <1>1, <2>1, AutomaticKeeps
<1>4. QED
  BY <1>2, <1>3

LEMMA DrainStepKeeps ==
    ASSUME IInv, DrainStep
    PROVE  IInv'
<1>1. TypeOK /\ Fits(pendingScopes, pendingManual, waiters)
  BY DEF IInv, ParkedIsPending, Fits
<1>2. ASSUME claim(pendingScopes, pendingManual, waiters),
             UNCHANGED <<closed, floor, deferredScopes>>
      PROVE  IInv'
  BY <1>1, <1>2, ClaimKeeps DEF TypeOK
<1>3. CASE CycleSucceeds
  <2>1. CASE pendingScopes # {}
    BY <1>2, <1>3, <2>1 DEF CycleSucceeds
  <2>2. CASE pendingScopes = {}
    <3>1. /\ drain' = "maintenance" /\ runningScope' = NoScope
          /\ runningManual' = FALSE /\ carried' = {}
          /\ UNCHANGED <<requested, closed, floor, deferredScopes>>
      BY <1>3, <2>2 DEF CycleSucceeds
    <3>2. TypeOK'
      BY <1>1, <3>1 DEF TypeOK, requested
    <3>3. CarriedIsServed'
      BY <3>1 DEF CarriedIsServed
    <3>4. ParkedIsPending' /\ SharedWaiterIsPending'
      BY <3>1 DEF IInv, ParkedIsPending, SharedWaiterIsPending, requested
    <3>5. QED
      BY <3>2, <3>3, <3>4 DEF IInv
  <2>3. QED
    BY <2>1, <2>2
<1>4. CASE CycleFails
  BY <1>4, EndDrainKeeps DEF CycleFails
<1>5. CASE MaintenanceEnds
  <2>1. CASE pendingScopes # {}
    BY <1>2, <1>5, <2>1 DEF MaintenanceEnds
  <2>2. CASE pendingScopes = {}
    BY <1>5, <2>2, EndDrainKeeps DEF MaintenanceEnds
  <2>3. QED
    BY <2>1, <2>2
<1>6. CASE MaintenanceFails
  BY <1>6, EndDrainKeeps DEF MaintenanceFails
<1>7. CASE DrainCleared
  BY <1>1, <1>7 DEF DrainCleared, IInv, TypeOK, CarriedIsServed,
     ParkedIsPending, SharedWaiterIsPending, requested
<1>8. QED
  BY <1>3, <1>4, <1>5, <1>6, <1>7 DEF DrainStep

-----------------------------------------------------------------------------
LEMMA InitKeeps == Init => IInv
BY NoWaiterType DEF Init, IInv, TypeOK, CarriedIsServed, ParkedIsPending,
   SharedWaiterIsPending

LEMMA NextKeeps == IInv /\ [Next]_vars => IInv'
<1> SUFFICES ASSUME IInv, [Next]_vars PROVE IInv'
  OBVIOUS
<1>1. TypeOK
  BY DEF IInv
<1>2. ASSUME NEW c \in Callers, SyncNow(c) PROVE IInv'
  <2>1. PICK m \in BOOLEAN, scope \in Scopes : request(c, m, scope)
    BY <1>2 DEF SyncNow
  <2>2. /\ c \in Parties /\ UNCHANGED <<closed, floor, deferredScopes>>
        /\ closed' \in BOOLEAN
    BY <1>1, <1>2 DEF SyncNow, Parties, TypeOK
  <2>3. QED
    BY <2>1, <2>2, RequestKeeps
<1>3. ASSUME NEW c \in Callers, EnterFloor(c) PROVE IInv'
  <2>1. /\ floor' = floor \cup {c}
        /\ UNCHANGED <<requested, running, closed, deferredScopes>>
    BY <1>3 DEF EnterFloor
  <2>2. QED
    BY <1>1, <2>1, QueueUntouched DEF TypeOK
<1>4. ASSUME WatcherFires PROVE IInv'
  BY <1>4, AutomaticKeeps DEF WatcherFires, Parties, Scopes
<1>5. ASSUME Close PROVE IInv'
  <2>1. /\ closed' = TRUE /\ deferredScopes' = {}
        /\ UNCHANGED <<requested, running, floor>>
    BY <1>5 DEF Close
  <2>2. QED
    BY <1>1, <2>1, QueueUntouched DEF TypeOK
<1>6. ASSUME UNCHANGED vars PROVE IInv'
  BY <1>1, <1>6, QueueUntouched DEF vars, TypeOK
<1>7. QED
  BY <1>2, <1>3, <1>4, <1>5, <1>6, LeaveFloorKeeps, TimerKeeps,
     DrainStepKeeps DEF Next

(* Every state of the queue satisfies the inductive invariant.             *)
LEMMA Invariance == Spec => []IInv
<1>1. QED
  BY InitKeeps, NextKeeps, PTL DEF Spec

(* The variables keep their types: in particular the merged scope handed   *)
(* to runCycle is always a scope (SyncCycleQueue).                         *)
THEOREM TypeCorrect == Spec => []TypeOK
<1>1. IInv => TypeOK
  BY DEF IInv
<1>2. QED
  BY <1>1, Invariance, PTL

(* Whatever is coalesced with what, the cycle that settles a promise looks *)
(* at all its caller asked for, manually if it asked so (drainQueue).      *)
THEOREM CarriedServed == Spec => []CarriedIsServed
<1>1. IInv => CarriedIsServed
  BY DEF IInv
<1>2. QED
  BY <1>1, Invariance, PTL

(* An automatic request never joins a promise that was already claimed or  *)
(* settled (requestAutomatic).                                             *)
THEOREM SharedWaiterPending == Spec => []SharedWaiterIsPending
<1>1. IInv => SharedWaiterIsPending
  BY DEF IInv
<1>2. QED
  BY <1>1, Invariance, PTL
=============================================================================
