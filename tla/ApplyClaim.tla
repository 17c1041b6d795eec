------------------------------ MODULE ApplyClaim ------------------------------
(***************************************************************************)
(* Who may launch a helper that waits for Cursor to quit: the claim file   *)
(* apply-in-progress.json, Restart to Apply, Restore Backup and the        *)
(* consumption of helper results (src/src/sync/manager.ts, launcher.ts).   *)
(*                                                                         *)
(* Several windows share the file and nothing locks it.  A read that is    *)
(* followed at once by a write or removal is one step; what takes longer,  *)
(* the preparation above all, is not.  A claim ages out after its TTL, but *)
(* not while the launch it was stamped for and that helper's wait last     *)
(* (CURSOR_EXIT_WAIT_MS < APPLY_IN_PROGRESS_TTL_MS).                       *)
(***************************************************************************)
EXTENDS Naturals

CONSTANTS
    Host,            \* the extension hosts, one per window
    MaxClaims        \* bound

VARIABLES
    claimFile,       \* [nonce, by, fresh]; nonce 0: no file
    step, nonce,     \* per window: the command's step and its claim
    active,          \* per window: activeApplyClaim
    veto,            \* per window: the claim its veto timer will clear, or 0
    waiting,         \* claims whose helper waits for Cursor to exit
    reports,         \* claims whose helper has left a result
    issued

vars == <<claimFile, step, nonce, active, veto, waiting, reports, issued>>

NoFile == [nonce |-> 0, by |-> "dead", fresh |-> FALSE]

Init ==
    /\ claimFile = NoFile
    /\ step = [h \in Host |-> "idle"] /\ nonce = [h \in Host |-> 0]
    /\ active = [h \in Host |-> 0] /\ veto = [h \in Host |-> 0]
    /\ waiting = {} /\ reports = {} /\ issued = 0

-----------------------------------------------------------------------------
(* The claim.                                                              *)

(* markApplyInProgress                                                     *)
Stamp(h, n) == claimFile' = [nonce |-> n, by |-> h, fresh |-> TRUE]

(* clearApplyInProgress(nonce)                                             *)

Clear(h, n) ==
    IF claimFile.nonce \notin {0, n} THEN UNCHANGED <<claimFile, active>>
    ELSE /\ claimFile' = NoFile
         /\ active' = [active EXCEPT ![h] = IF @ = n THEN 0 ELSE @]

(* clearApplyInProgressUnlessForeign                                       *)
ClearUnlessForeign(h) ==
    IF \/ claimFile.by \notin {h, "dead"}
       \/ claimFile.nonce # 0 /\ claimFile.nonce = active[h]
    THEN UNCHANGED <<claimFile, active>>
    ELSE claimFile' = NoFile /\ active' = [active EXCEPT ![h] = 0]

-----------------------------------------------------------------------------
(* Restart to Apply prepares for as long as it takes before it launches;   *)
(* Restore Backup launches at once.                                        *)

Begin(h, restore) ==
    /\ step[h] = "idle" /\ issued < MaxClaims
    /\ ~claimFile.fresh                     \* applyAlreadyInProgress
    /\ issued' = issued + 1
    /\ Stamp(h, issued')
    /\ active' = [active EXCEPT ![h] = issued']
    /\ nonce' = [nonce EXCEPT ![h] = issued']
    /\ step' = [step EXCEPT ![h] = IF restore THEN "launch" ELSE "prepare"]
    /\ UNCHANGED <<veto, waiting, reports>>

(* The claim is checked and stamped again; a prepared apply may also turn  *)
(* out to be empty, or its repository to have been replaced.               *)
FaultySuperseded(h) == FALSE
Superseded(h) == claimFile.nonce \notin {0, nonce[h]}

Prepared(h) ==
    /\ step[h] = "prepare"
    /\ \/ /\ Superseded(h) /\ step' = [step EXCEPT ![h] = "release"]
          /\ UNCHANGED <<claimFile, active>>
       \/ /\ ~Superseded(h) /\ Stamp(h, nonce[h])
          /\ active' = [active EXCEPT ![h] = nonce[h]]
          /\ step' = [step EXCEPT ![h] = "launch"]
    /\ UNCHANGED <<nonce, veto, waiting, reports, issued>>

Abandons(h) ==
    /\ step[h] \in {"prepare", "launch"} /\ step' = [step EXCEPT ![h] = "release"]
    /\ UNCHANGED <<claimFile, nonce, active, veto, waiting, reports, issued>>

Released(h) ==
    /\ step[h] = "release" /\ step' = [step EXCEPT ![h] = "idle"]
    /\ Clear(h, nonce[h]) /\ nonce' = [nonce EXCEPT ![h] = 0]
    /\ UNCHANGED <<veto, waiting, reports, issued>>

(* The helper waits; the timer of an earlier launch is replaced.           *)
Launched(h) ==
    /\ step[h] = "launch" /\ step' = [step EXCEPT ![h] = "idle"]
    /\ waiting' = waiting \cup {nonce[h]}
    /\ veto' = [veto EXCEPT ![h] = nonce[h]] /\ nonce' = [nonce EXCEPT ![h] = 0]
    /\ UNCHANGED <<claimFile, active, reports, issued>>

(* Cursor is closed, or the helper gives up: it leaves a result.           *)
Reported(n) ==
    /\ n \in waiting /\ waiting' = waiting \ {n} /\ reports' = reports \cup {n}
    /\ UNCHANGED <<claimFile, step, nonce, active, veto, issued>>

-----------------------------------------------------------------------------
(* The quit was vetoed: the timer fires after the helper has given up.     *)
QuitVetoed(h) ==
    /\ veto[h] # 0 /\ veto[h] \notin waiting
    /\ Clear(h, veto[h]) /\ veto' = [veto EXCEPT ![h] = 0]
    /\ UNCHANGED <<step, nonce, waiting, reports, issued>>

(* consumeHelperResults, by whichever window comes first, however late.    *)
Consumed(h, n) ==
    /\ n \in reports /\ reports' = reports \ {n}
    /\ ClearUnlessForeign(h)
    /\ UNCHANGED <<step, nonce, veto, waiting, issued>>

AgesOut ==
    /\ claimFile.fresh /\ claimFile.nonce \notin waiting
    /\ \A h \in Host : step[h] = "launch" => nonce[h] # claimFile.nonce
    /\ claimFile' = [claimFile EXCEPT !.fresh = FALSE]
    /\ UNCHANGED <<step, nonce, active, veto, waiting, reports, issued>>

(* Windows die.  When all have, Cursor has quit, and so ends every wait.   *)
Dies(gone) ==
    /\ gone = Host \/ \A h \in gone : veto[h] \notin waiting
    /\ claimFile' = IF claimFile.by \in gone THEN [claimFile EXCEPT !.by = "dead"] ELSE claimFile
    /\ step' = [h \in Host |-> IF h \in gone THEN "idle" ELSE step[h]]
    /\ nonce' = [h \in Host |-> IF h \in gone THEN 0 ELSE nonce[h]]
    /\ active' = [h \in Host |-> IF h \in gone THEN 0 ELSE active[h]]
    /\ veto' = [h \in Host |-> IF h \in gone THEN 0 ELSE veto[h]]
    /\ IF gone = Host THEN waiting' = {} /\ reports' = reports \cup waiting
       ELSE UNCHANGED <<waiting, reports>>
    /\ UNCHANGED issued

-----------------------------------------------------------------------------
Next ==
    \/ \E h \in Host :
          \/ \E restore \in BOOLEAN : Begin(h, restore)
          \/ Prepared(h) \/ Abandons(h) \/ Released(h) \/ Launched(h)
          \/ QuitVetoed(h) \/ \E n \in reports : Consumed(h, n)
    \/ \E n \in waiting : Reported(n)
    \/ AgesOut
    \/ \E gone \in (SUBSET Host) \ {{}} : Dies(gone)

Spec == Init /\ [][Next]_vars

-----------------------------------------------------------------------------
(* Two helpers never wait for the same quit; each would take the other for *)
(* a Cursor that is still open (the comment at manager.ts:1702).           *)
OneHelperWaits == \A m, n \in waiting : m = n

(* The fresh claim of a live window is erased or replaced by that window   *)
(* only: neither a veto timer nor the late result of an earlier apply does *)
(* (the comment at manager.ts:2060).                                       *)
ClaimIsItsOwners ==
    [][claimFile.fresh /\ claimFile.by # "dead" /\ claimFile'.nonce # claimFile.nonce
          => \/ veto[claimFile.by] = claimFile.nonce
             \/ nonce[claimFile.by] = claimFile.nonce /\ step[claimFile.by] = "release"]_vars
=============================================================================
