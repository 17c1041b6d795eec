------------------------- MODULE ShutdownFinalizer -------------------------
(***************************************************************************)
(* The handover of the shutdown finalizer: the detached process that waits *)
(* for Cursor to exit and then exports the session (src/src/helper         *)
(* launcher.ts and main.ts, and their callers in src/src/sync/manager.ts). *)
(*                                                                         *)
(* To replace the finalizer a window writes a cancel marker and, beside    *)
(* it, who it is; waits until the old one has given up its lock; removes   *)
(* the marker and starts its own.  A finalizer reads the marker while it   *)
(* waits, and obeys only one stamped after its own request.                *)
(*                                                                         *)
(* A marker is the set of finalizers it addresses: those whose request was *)
(* there when it was stamped.  A lock is taken in one step (see FileLock), *)
(* the leader is elected in one (see BackgroundRole).  The grace of a      *)
(* minute is far longer than a boot and a poll, so no marker expires       *)
(* before the finalizers it addresses have read it.                        *)
(***************************************************************************)
EXTENDS Naturals, FiniteSets

CONSTANTS
    Window,       \* Cursor windows, each with its extension host
    Finalizer,    \* identities of finalizer processes, reused when free
    None,
    MaxActs       \* bound: acts of the user, failures, windows that end

ASSUME FinalizerAssumption ==
    /\ Window \cap Finalizer = {} /\ None \notin Window \cup Finalizer
    /\ MaxActs \in Nat

VARIABLES
    marker,    \* cancel-finalizers: the finalizers it addresses
    owner,     \* cancel-finalizers-owner: who wrote it, in which handover
    bound,     \* does its stamp match the marker's?
    fin,       \* fin[f]: what finalizer f is doing
    child,     \* child[w]: the finalizer w has launched
    lock,      \* who holds shutdown-finalizer.lock
    alive,     \* windows that are open
    leader,    \* the window with the background role
    opened,    \* windows that have the repository open
    wanted,    \* wanted[w]: an arm that is asked for, and its guard
    arm,       \* arm[w]: the arm under way
    aim,       \* aim[w]: by handover, the finalizers existing at its stamp
    quit,      \* quit[w]: how far "quit to apply" has got
    veto,      \* windows with the quit-veto timer armed
    helper,    \* is an apply helper waiting for Cursor to exit?
    failed,    \* is there a helper's failure nobody has read?
    off,       \* has the user switched synchronization off?
    offStep,   \* offStep[w]: how far w has got in obeying
    abandoned, \* history: why nobody will replace a finalizer that is gone
    overlooked,\* history: who left a finalizer running that was to go
    acts

files == <<marker, owner, bound>>
processes == <<fin, child, lock>>
windows == <<alive, leader, opened, abandoned>>
arming == <<wanted, arm>>
quitting == <<quit, veto, helper, failed>>
switching == <<off, offStep, overlooked>>
vars == <<files, processes, windows, arming, aim, quitting, switching, acts>>

(* "role" is the arm an activation waits for, "retry" one with its guard   *)
(* that a timer or the end of another arm starts.                          *)
Guards == {"role", "retry", "always"}
Slots == {"arm", "off", "quit"}
NoOwner == [by |-> None, slot |-> "arm"]
Idle == [step |-> "idle", guard |-> "always", held |-> None,
         seen |-> None, polled |-> FALSE, stalled |-> FALSE]

NothingYet ==
    /\ marker = {} /\ owner = NoOwner /\ bound = FALSE
    /\ fin = [f \in Finalizer |-> "none"]
    /\ child = [w \in Window |-> None] /\ lock = None
    /\ alive = Window /\ arm = [w \in Window |-> Idle]
    /\ aim = [w \in Window |-> [s \in Slots |-> {}]]
    /\ quit = [w \in Window |-> "no"] /\ veto = {}
    /\ helper = FALSE /\ failed = FALSE
    /\ off = "no" /\ offStep = [w \in Window |-> "no"]
    /\ abandoned = {} /\ overlooked = {} /\ acts = 0

Init ==
    /\ NothingYet /\ leader = None /\ opened = {}
    /\ wanted = [w \in Window |-> "no"]

set(f, w, v) == f' = [f EXCEPT ![w] = v]
Acts == acts < MaxActs /\ acts' = acts + 1
Existing == {f \in Finalizer : fin[f] # "none"}
Enabled(w) == ~(off = "disabled" /\ offStep[w] # "no")
GuardHolds(w, guard) ==
    guard = "always" \/ (leader = w /\ offStep[w] = "no")

-----------------------------------------------------------------------------
(* The finalizer (run, waitForCursorExit).                                 *)

(* isFinalizerCancelled.  A dead window's restart is void, its quit is not.*)
Cancelled(f) ==
    /\ f \in marker
    /\ bound => owner.by \in alive \/ owner.slot = "quit"

(* The process ends; its lock is free, and nobody refers to it any more.   *)
ends(f, next) ==
    /\ fin' = [fin EXCEPT ![f] = "none"]
    /\ child' = [w \in Window |-> IF child[w] = f THEN None ELSE child[w]]
    /\ lock' = IF lock = f THEN None ELSE lock
    /\ marker' = marker \ {f}
    /\ aim' = [w \in Window |-> [s \in Slots |-> aim[w][s] \ {f}]]
    /\ arm' = [w \in Window |->
          [next[w] EXCEPT !.held = IF @ = f THEN None ELSE @,
                          !.polled = @ /\ next[w].seen # f,
                          !.seen = IF @ = f THEN None ELSE @]]
    /\ UNCHANGED <<owner, bound>>

Boot(f) ==
    /\ fin[f] = "booting"
    /\ IF lock = None
       THEN /\ set(fin, f, "waiting") /\ lock' = f
            /\ UNCHANGED <<child, files, aim, arm>>
       ELSE ends(f, arm)
    /\ UNCHANGED <<windows, wanted, quitting, switching, acts>>

(* Anything that goes wrong in it leaves a failure to read.                *)
Fails(f) ==
    /\ fin[f] \in {"booting", "waiting"} /\ Acts
    /\ ends(f, arm) /\ failed' = TRUE
    /\ UNCHANGED <<windows, wanted, quit, veto, helper, switching>>

StandDown(f) ==
    /\ fin[f] = "waiting" /\ Cancelled(f)
    /\ ends(f, arm)
    /\ UNCHANGED <<windows, wanted, quitting, switching, acts>>

Poll(f) ==
    /\ fin[f] = "waiting" /\ ~Cancelled(f)
    /\ set(fin, f, "listing")
    /\ arm' = [w \in Window |-> [arm[w] EXCEPT !.polled = @ \/ arm[w].seen = f]]
    /\ UNCHANGED <<files, child, lock, windows, wanted, aim, quitting, switching, acts>>

Listed(f) ==
    /\ fin[f] = "listing"
    /\ set(fin, f, IF alive = {} THEN "exporting" ELSE "waiting")
    /\ UNCHANGED <<files, child, lock, windows, arming, aim, quitting, switching, acts>>

ExportEnds(f) ==
    /\ fin[f] = "exporting"
    /\ ends(f, arm)
    /\ UNCHANGED <<windows, wanted, quitting, switching, acts>>

FinalizerStep(f) ==
    Boot(f) \/ StandDown(f) \/ Poll(f) \/ Listed(f) \/ ExportEnds(f)

-----------------------------------------------------------------------------
(* The cancel of one handover (writeCancelMarker): the stamp, the file     *)
(* that names the owner, the marker.                                       *)

stamped(w, s) == [aim EXCEPT ![w][s] = Existing]

writeOwner(w, s) ==
    /\ owner' = [by |-> w, slot |-> s] /\ bound' = FALSE
    /\ UNCHANGED marker

writeMarker(w, s) ==
    /\ marker' = aim[w][s]
    /\ bound' = (owner = [by |-> w, slot |-> s])
    /\ set(aim, w, [aim[w] EXCEPT ![s] = {}])
    /\ UNCHANGED owner

(* Two such operations on files in a row are over before another window    *)
(* has started a process.                                                  *)
Filing(w) ==
    \/ arm[w].step \in {"owner", "marker", "lateOwner", "lateMarker", "removeOwner"}
    \/ quit[w] \in {"owner", "marker"} \/ offStep[w] \in {"owner", "marker"}

-----------------------------------------------------------------------------
(* Arming (startFinalizerOnce, restartFinalizer, startFinalizer).          *)

at(w, step) == w \in alive /\ arm[w].step = step
goto(w, step) == arm' = [arm EXCEPT ![w].step = step]

(* A window that finds the disconnect marker leaves the repository and     *)
(* cancels once more (disconnectedElsewhere).                              *)
leaves(w) ==
    /\ leader' = IF leader = w THEN None ELSE leader
    /\ opened' = opened \ {w}
    /\ aim' = stamped(w, "off")
    /\ set(offStep, w, "owner")
    /\ UNCHANGED <<alive, abandoned, off, overlooked>>

Begin(w) ==
    /\ at(w, "idle") /\ wanted[w] # "no"
    /\ set(wanted, w, "no")
    /\ IF ~GuardHolds(w, wanted[w]) \/ w \notin opened
       THEN UNCHANGED <<arm, windows, aim, switching>>
       ELSE IF off = "disconnected"
       THEN leaves(w) /\ UNCHANGED arm
       ELSE IF ~Enabled(w)
       THEN UNCHANGED <<arm, windows, aim, switching>>
       ELSE /\ set(arm, w, [Idle EXCEPT !.step = "owner", !.guard = wanted[w],
                                        !.held = lock])
            /\ aim' = stamped(w, "arm")
            /\ abandoned' = {}
            /\ UNCHANGED <<alive, leader, opened, switching>>
    /\ UNCHANGED <<files, processes, quitting, acts>>

CancelOwner(w) ==
    /\ \/ at(w, "owner") /\ goto(w, "marker")
       \/ at(w, "lateOwner") /\ goto(w, "lateMarker")
    /\ writeOwner(w, "arm")
    /\ UNCHANGED <<processes, windows, wanted, aim, quitting, switching, acts>>

CancelMarker(w) ==
    /\ \/ at(w, "marker") /\ goto(w, "wait")
       \/ at(w, "lateMarker") /\ set(arm, w, Idle)
    /\ writeMarker(w, "arm")
    /\ UNCHANGED <<processes, windows, wanted, quitting, switching, acts>>

(* waitForFinalizersToExit: first its own child, then the lock.            *)
Probe(w) ==
    /\ at(w, "wait") /\ child[w] = None /\ lock = None
    /\ lock' = w
    /\ set(arm, w, [Idle EXCEPT !.step = "probe", !.guard = arm[w].guard])
    /\ UNCHANGED <<fin, child, files, windows, wanted, aim, quitting, switching, acts>>

Probed(w) ==
    /\ at(w, "probe")
    /\ lock' = None /\ goto(w, "remove")
    /\ UNCHANGED <<fin, child, files, windows, wanted, aim, quitting, switching, acts>>

(* A holder that took the lock after the stamp was taken is watched for a  *)
(* second, in which it polls the marker at least once.                     *)
Watch(w) ==
    /\ at(w, "wait") /\ child[w] = None
    /\ lock \in Finalizer /\ lock \notin {arm[w].held, arm[w].seen}
    /\ arm' = [arm EXCEPT ![w].seen = lock, ![w].polled = FALSE]
    /\ UNCHANGED <<processes, files, windows, wanted, aim, quitting, switching, acts>>

FaultyAdopt(w) ==                      \* adopted at first sight
    /\ at(w, "wait") /\ child[w] = None
    /\ lock # None /\ lock = arm[w].seen
    /\ set(arm, w, Idle)
    /\ UNCHANGED <<processes, files, windows, wanted, aim, quitting, switching, acts>>

Adopt(w) ==
    /\ at(w, "wait") /\ child[w] = None
    /\ lock # None /\ lock = arm[w].seen /\ arm[w].polled
    /\ set(arm, w, Idle)
    /\ UNCHANGED <<processes, files, windows, wanted, aim, quitting, switching, acts>>

(* Thirty seconds pass over a holder that is exporting, or that neither    *)
(* stands down nor may be adopted.                                         *)
Stall(w) ==
    LET f == IF child[w] # None THEN child[w] ELSE lock
    IN  /\ at(w, "wait") /\ f \in Finalizer
        /\ \/ fin[f] = "exporting"
           \/ fin[f] \in {"waiting", "listing"} /\ ~Cancelled(f)
              /\ f \in {child[w], arm[w].held}
        /\ arm' = [arm EXCEPT ![w].step = "check", ![w].stalled = TRUE]
        /\ UNCHANGED <<processes, files, windows, wanted, aim, quitting, switching, acts>>

RemoveMarker(w) ==
    /\ at(w, "remove") /\ goto(w, "removeOwner")
    /\ marker' = {} /\ bound' = FALSE
    /\ UNCHANGED <<owner, processes, windows, wanted, aim, quitting, switching, acts>>

(* The request's creation date is taken after the owner file is removed.   *)
RemoveOwner(w) ==
    /\ at(w, "removeOwner") /\ goto(w, "launch")
    /\ owner' = NoOwner /\ bound' = FALSE
    /\ Existing # Finalizer
    /\ LET f == CHOOSE g \in Finalizer : fin[g] = "none"
       IN  set(fin, f, "launching") /\ set(child, w, f)
    /\ UNCHANGED <<marker, lock, windows, wanted, aim, quitting, switching, acts>>

Launch(w) ==
    /\ at(w, "launch") /\ goto(w, "check")
    /\ \A v \in Window : ~Filing(v)
    /\ set(fin, child[w], "booting")
    /\ UNCHANGED <<files, child, lock, windows, wanted, aim, quitting, switching, acts>>

retry(w) ==
    wanted' = [wanted EXCEPT ![w] =
        IF @ # "no" \/ ~GuardHolds(w, arm[w].guard) THEN @
        ELSE IF arm[w].guard = "always" THEN "always" ELSE "retry"]

LaunchFails(w) ==
    /\ at(w, "launch") /\ Acts
    /\ ends(child[w], [arm EXCEPT ![w] = Idle])
    /\ retry(w)
    /\ UNCHANGED <<windows, quitting, switching>>

FaultyCheck(w) ==                      \* switched off meanwhile is not noticed
    /\ at(w, "check")
    /\ set(arm, w, Idle)
    /\ IF arm[w].stalled THEN retry(w) ELSE UNCHANGED wanted
    /\ UNCHANGED <<aim, switching, processes, files, windows, quitting, acts>>

(* The end of startFinalizerOnce: was synchronization switched off, here   *)
(* or in another window, while the arm was waiting?                        *)
Check(w) ==
    /\ at(w, "check")
    /\ IF ~GuardHolds(w, arm[w].guard)
       THEN /\ set(arm, w, Idle)
            /\ overlooked' = IF off = "no" THEN overlooked ELSE overlooked \cup {"arm"}
            /\ UNCHANGED <<wanted, windows, aim, off, offStep>>
       ELSE IF ~Enabled(w) \/ w \notin opened
       THEN /\ goto(w, "lateOwner") /\ aim' = stamped(w, "arm")
            /\ UNCHANGED <<wanted, windows, switching>>
       ELSE IF off = "disconnected"
       THEN set(arm, w, Idle) /\ leaves(w) /\ UNCHANGED wanted
       ELSE /\ set(arm, w, Idle)
            /\ IF arm[w].stalled THEN retry(w) ELSE UNCHANGED wanted
            /\ UNCHANGED <<windows, aim, switching>>
    /\ UNCHANGED <<processes, files, quitting, acts>>

ArmStep(w) ==
    \/ Begin(w) \/ CancelOwner(w) \/ CancelMarker(w)
    \/ Probe(w) \/ Probed(w) \/ Watch(w) \/ Adopt(w) \/ Stall(w)
    \/ RemoveMarker(w) \/ RemoveOwner(w) \/ Launch(w) \/ Check(w)

(* A command that changed the workspace mappings (refreshWorkspaceMapping- *)
(* Consumers); it has opened the repository.                               *)
Command(w) ==
    /\ w \in alive /\ Acts /\ off # "disconnected"
    /\ opened' = opened \cup {w}
    /\ set(wanted, w, "always")
    /\ UNCHANGED <<alive, leader, abandoned, arm, aim, processes, files, quitting, switching>>

(* The elected window opens the repository and arms.  Disconnecting has    *)
(* deleted the key, so that only an open repository stays open.            *)
Elect(w) ==
    /\ leader = None /\ w \in alive /\ offStep[w] = "no"
    /\ off = "disconnected" => w \in opened
    /\ leader' = w /\ opened' = opened \cup {w}
    /\ set(wanted, w, IF arm[w].step = "idle" THEN "role" ELSE "retry")
    /\ UNCHANGED <<alive, abandoned, arm, aim, processes, files, quitting, switching, acts>>

-----------------------------------------------------------------------------
(* Quit to apply (applyAndRestart, restoreAndRestart, launchApplyHelper).  *)

QuitToApply(w) ==
    /\ w \in alive \cap opened /\ Enabled(w) /\ off # "disconnected" /\ Acts
    /\ ~helper /\ veto = {} /\ \A v \in Window : quit[v] = "no"
    /\ set(quit, w, "owner") /\ aim' = stamped(w, "quit")
    /\ UNCHANGED <<files, processes, windows, arming, veto, helper, failed, switching>>

QuitOwner(w) ==
    /\ quit[w] = "owner" /\ set(quit, w, "marker") /\ writeOwner(w, "quit")
    /\ UNCHANGED <<processes, windows, arming, aim, veto, helper, failed, switching, acts>>

QuitMarker(w) ==
    /\ quit[w] = "marker" /\ set(quit, w, "launch") /\ writeMarker(w, "quit")
    /\ UNCHANGED <<processes, windows, arming, veto, helper, failed, switching, acts>>

QuitLaunch(w) ==
    /\ quit[w] = "launch" /\ set(quit, w, "save") /\ helper' = TRUE
    /\ UNCHANGED <<files, processes, windows, arming, aim, veto, failed, switching, acts>>

(* saveNamedEditors returns and the timers are armed; the quit may then be *)
(* vetoed for ever.                                                        *)
QuitAsked(w) ==
    /\ quit[w] = "save" /\ set(quit, w, "no") /\ veto' = veto \cup {w}
    /\ UNCHANGED <<files, processes, windows, arming, aim, helper, failed, switching, acts>>

(* The launch or the saving throws.                                        *)
QuitFails(w) ==
    /\ quit[w] \in {"launch", "save"} /\ Acts
    /\ set(quit, w, "no") /\ set(wanted, w, "always")
    /\ UNCHANGED <<files, processes, windows, arm, aim, veto, helper, failed, switching>>

(* It applies what is queued when Cursor has gone, or gives up after three *)
(* minutes; the veto timers run longer.                                    *)
HelperEnds ==
    /\ helper /\ helper' = FALSE
    /\ failed' = (failed \/ alive # {})
    /\ UNCHANGED <<files, processes, windows, arming, aim, quit, veto, switching, acts>>

FaultyQuitVetoed(w) ==                 \* the finalizer is not armed again
    /\ w \in veto /\ ~helper
    /\ veto' = veto \ {w} /\ failed' \in {FALSE, failed}
    /\ UNCHANGED <<wanted, files, processes, windows, arm, aim, quit, helper, switching, acts>>

(* An apply's check also reads the helper's failure, a restore's does not. *)
QuitVetoed(w) ==
    /\ w \in veto /\ ~helper
    /\ veto' = veto \ {w} /\ failed' \in {FALSE, failed}
    /\ set(wanted, w, "always")
    /\ UNCHANGED <<files, processes, windows, arm, aim, quit, helper, switching, acts>>

(* The leader's next cycle reads the failure (consumeHelperResults), or    *)
(* finds the disconnect marker (performSync).                              *)
ReadFailure(w) ==
    /\ leader = w /\ failed /\ offStep[w] = "no" /\ off # "disconnected"
    /\ failed' = FALSE /\ set(wanted, w, "always")
    /\ UNCHANGED <<files, processes, windows, arm, aim, quit, veto, helper, switching, acts>>

FindDisconnected(w) ==
    /\ leader = w /\ off = "disconnected" /\ offStep[w] = "no"
    /\ leaves(w)
    /\ UNCHANGED <<files, processes, arming, quitting, acts>>

QuitStep(w) ==
    QuitOwner(w) \/ QuitMarker(w) \/ QuitLaunch(w) \/ QuitAsked(w) \/ QuitVetoed(w)

-----------------------------------------------------------------------------
(* Switching off: the setting, which every window sees some time, or a     *)
(* disconnect, which the others find out from the marker it leaves.        *)

Disable ==
    /\ off = "no" /\ Acts /\ off' = "disabled"
    /\ UNCHANGED <<files, processes, windows, arming, aim, quitting, offStep, overlooked>>

Disconnect(w) ==
    /\ off = "no" /\ offStep[w] = "no" /\ w \in alive \cap opened /\ Acts
    /\ \A v \in Window : offStep[v] = "no"
    /\ set(offStep, w, "leaving")
    /\ UNCHANGED <<files, processes, windows, arming, aim, quitting, off, overlooked>>

SeeDisabled(w) ==
    /\ off = "disabled" /\ w \in alive /\ offStep[w] = "no"
    /\ set(offStep, w, "stopping")
    /\ UNCHANGED <<files, processes, windows, arming, aim, quitting, off, overlooked, acts>>

(* The coordinator's stop waits for an activation that is arming.          *)
stopped(w) == arm[w].step = "idle" \/ arm[w].guard # "role"

StopForDisable(w) ==
    /\ offStep[w] = "stopping" /\ stopped(w)
    /\ set(offStep, w, "owner") /\ aim' = stamped(w, "off")
    /\ leader' = IF leader = w THEN None ELSE leader
    /\ UNCHANGED <<alive, opened, abandoned, off, overlooked, files, processes, arming, quitting, acts>>

(* The cancel and the disconnect marker are written one after the other;   *)
(* nothing as long as a launch fits between them.                          *)
StopForDisconnect(w) ==
    /\ offStep[w] = "leaving" /\ stopped(w)
    /\ set(offStep, w, "done") /\ off' = "disconnected"
    /\ opened' = opened \ {w}
    /\ leader' = IF leader = w THEN None ELSE leader
    /\ marker' = Existing /\ owner' = [by |-> w, slot |-> "off"] /\ bound' = TRUE
    /\ UNCHANGED <<alive, abandoned, aim, overlooked, processes, arming, quitting, acts>>

OffOwner(w) ==
    /\ offStep[w] = "owner" /\ set(offStep, w, "marker") /\ writeOwner(w, "off")
    /\ UNCHANGED <<processes, windows, arming, aim, quitting, off, overlooked, acts>>

OffMarker(w) ==
    /\ offStep[w] = "marker" /\ set(offStep, w, "done") /\ writeMarker(w, "off")
    /\ UNCHANGED <<processes, windows, arming, quitting, off, overlooked, acts>>

OffStep(w) ==
    \/ SeeDisabled(w) \/ StopForDisable(w) \/ StopForDisconnect(w)
    \/ OffOwner(w) \/ OffMarker(w)

-----------------------------------------------------------------------------
(* A window closes or crashes at any step; a finalizer it has not yet      *)
(* given the key ends with it.  A follower that was to arm one, or dies in *)
(* a handover, is not replaced unless a finalizer waits on that was told to*)
(* stand down by its restart alone, with the owner file there to tell: the *)
(* session has to wait for the next arm.                                   *)
Leaving(w) ==
    \/ quit[w] \in {"owner", "marker", "launch"} \/ wanted[w] # "no"
    \/ /\ arm[w].step \notin {"idle", "check"}
       /\ \/ \E v \in Window \ {w} : arm[v].step = "removeOwner"
          \/ \A f \in Finalizer : fin[f] \in {"waiting", "listing"} =>
                f \in marker /\ (bound => owner.by # w \/ owner.slot = "quit")

Close(w) ==
    LET orphan == child[w] # None /\ fin[child[w]] = "launching"
        without == [arm EXCEPT ![w] = Idle]
    IN  /\ w \in alive /\ Acts
        /\ alive' = alive \ {w} /\ opened' = opened \ {w}
        /\ leader' = IF leader = w THEN None ELSE leader
        /\ fin' = IF orphan THEN [fin EXCEPT ![child[w]] = "none"] ELSE fin
        /\ set(child, w, None) /\ arm' = without
        /\ lock' = IF lock = w THEN None ELSE lock
        /\ owner' = IF owner.by = w THEN [owner EXCEPT !.by = None] ELSE owner
        /\ marker' = IF orphan THEN marker \ {child[w]} ELSE marker
        /\ aim' = [v \in Window |-> [s \in Slots |->
                      IF v = w THEN {}
                      ELSE IF orphan THEN aim[v][s] \ {child[w]} ELSE aim[v][s]]]
        /\ set(wanted, w, "no") /\ set(quit, w, "no") /\ veto' = veto \ {w}
        /\ set(offStep, w, "no")
        /\ overlooked' = IF offStep[w] = "no" \/ Existing = {} THEN overlooked
                         ELSE overlooked \cup {"window"}
        /\ UNCHANGED <<bound, helper, failed, off>>
        /\ abandoned' = IF alive = {w} THEN {}
                        ELSE IF w # leader /\ Leaving(w) THEN abandoned \cup {"died"}
                        ELSE abandoned

(* A window opens, with the repository closed.  It reads any failure left  *)
(* by a helper first, and cannot arm for it.                               *)
Open(w) ==
    /\ w \notin alive
    /\ alive' = alive \cup {w} /\ failed' = FALSE
    /\ abandoned' = IF failed /\ alive # {} THEN abandoned \cup {"read"} ELSE abandoned
    /\ UNCHANGED <<leader, opened, files, processes, arming, aim, quit, veto, helper, switching, acts>>

User(w) ==
    Command(w) \/ QuitToApply(w) \/ Disconnect(w) \/ Close(w) \/ Open(w)

Next ==
    \/ \E f \in Finalizer : FinalizerStep(f) \/ Fails(f)
    \/ \E w \in Window :
          \/ ArmStep(w) \/ LaunchFails(w) \/ Elect(w)
          \/ QuitStep(w) \/ QuitFails(w) \/ ReadFailure(w) \/ FindDisconnected(w)
          \/ OffStep(w) \/ User(w)
    \/ HelperEnds \/ Disable

Spec == Init /\ [][Next]_vars

(* Processes and promises go on, timers fire; users need not act.          *)
Fairness ==
    /\ \A f \in Finalizer : WF_vars(FinalizerStep(f))
    /\ \A w \in Window :
          /\ WF_vars(ArmStep(w)) /\ WF_vars(QuitStep(w)) /\ WF_vars(OffStep(w))
          /\ WF_vars(ReadFailure(w) \/ FindDisconnected(w)) /\ WF_vars(Elect(w))
    /\ WF_vars(HelperEnds)
LiveSpec == Spec /\ Fairness

-----------------------------------------------------------------------------
(* The type of the state; and the finalizer that waits or exports is the   *)
(* one that holds the lock, so that there is never more than one.          *)
TypeOK ==
    /\ marker \subseteq Finalizer /\ bound \in BOOLEAN
    /\ owner \in [by : Window \cup {None}, slot : Slots]
    /\ fin \in [Finalizer -> {"none", "launching", "booting", "waiting", "listing", "exporting"}]
    /\ \A f \in Finalizer :
          lock = f <=> fin[f] \in {"waiting", "listing", "exporting"}
    /\ child \in [Window -> Finalizer \cup {None}]
    /\ lock \in Finalizer \cup Window \cup {None}
    /\ alive \subseteq Window /\ opened \subseteq alive /\ leader \in alive \cup {None}
    /\ wanted \in [Window -> Guards \cup {"no"}]
    /\ arm \in [Window ->
          [step : {"idle", "owner", "marker", "wait", "probe", "remove",
                   "removeOwner", "launch", "check", "lateOwner", "lateMarker"},
           guard : Guards, held : Finalizer \cup Window \cup {None},
           seen : Finalizer \cup {None}, polled : BOOLEAN, stalled : BOOLEAN]]
    /\ aim \in [Window -> [Slots -> SUBSET Finalizer]]
    /\ quit \in [Window -> {"no", "owner", "marker", "launch", "save"}]
    /\ veto \subseteq alive /\ helper \in BOOLEAN /\ failed \in BOOLEAN
    /\ off \in {"no", "disabled", "disconnected"}
    /\ offStep \in [Window -> {"no", "stopping", "leaving", "owner", "marker", "done"}]
    /\ abandoned \subseteq {"died", "read"} /\ overlooked \subseteq {"arm", "window"} /\ acts \in 0..MaxActs

(* A finalizer waits for the session's end and will not stand down.        *)
Covered == \E f \in Finalizer :
    lock = f /\ fin[f] \in {"waiting", "listing"} /\ ~Cancelled(f)

(* Once users leave it alone, a session with synchronization on gets a     *)
(* finalizer and keeps it, whatever windows, finalizers and helpers did to *)
(* one another before (restartFinalizer, isFinalizerCancelled).            *)
SessionIsCovered ==
    <>[](off = "no" /\ alive # {} /\ abandoned = {}) => <>[]Covered

(* No finalizer survives the user switching synchronization off, even one  *)
(* that was being armed meanwhile (startFinalizerOnce's last check).  Two  *)
(* exceptions: an arm of a leader that has lost the role, and a window     *)
(* that dies before its cancel is obeyed, which its death makes void.      *)
OffIsHonoured ==
    <>[](off # "no" /\ alive = Window /\ overlooked = {}) => <>[](Existing = {})

(* What CHANGELOG.md says: an arm re-checks on completion and cancels what *)
(* it has just installed.  startFinalizerOnce returns before that check    *)
(* when its guard has turned false, which switching off makes it do.       *)
OffOverridesArm ==
    <>[](off # "no" /\ alive = Window /\ "window" \notin overlooked)
        => <>[](Existing = {})
=============================================================================
