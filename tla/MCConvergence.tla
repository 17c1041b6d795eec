---------------------------- MODULE MCConvergence ----------------------------
(***************************************************************************)
(* What everything must come to: the devices of a repository to the same   *)
(* versions (SharedRepository), and one device to what it has received     *)
(* (OfflineApply).  They share no state here; a behaviour is one of one of *)
(* them, chosen at the start, so that their states add up.                 *)
(***************************************************************************)
EXTENDS OfflineApply

CONSTANTS N, MaxEvents, MaxCheckpoints

VARIABLES
    part,
    log, cps, present, gone, cpPresent, cpGone, localCp, acked, st

folderVars == <<log, cps, present, gone, cpPresent, cpGone, localCp, acked, st>>

S == INSTANCE SharedRepository

MCInit == part \in {"folder", "device"} /\ Init /\ S!Init

MCNext ==
    \/ part = "folder" /\ S!Next /\ UNCHANGED <<part, vars>>
    \/ part = "device" /\ Next /\ UNCHANGED <<part, folderVars>>

(* The bounds of the device are not all reached together: two acts, or one *)
(* and a fault.  Only the environment reaches them.                        *)
FewActs == acts + faults <= 2

(* The fairness of each machine.                                           *)
MCSpec ==
    /\ MCInit /\ [][MCNext]_<<part, vars, folderVars>>
    /\ \A d \in S!Devices : /\ WF_folderVars(part = "folder" /\ S!Provider(d))
                            /\ WF_folderVars(part = "folder" /\ S!Device(d))
    /\ SF_vars(part = "device" /\ HelperStart /\ mode = "final")
    /\ WF_vars(part = "device" /\ HelperStep) /\ WF_vars(part = "device" /\ HostSave)
    /\ WF_vars(part = "device" /\ \E r \in Resource : HostApply(r, TRUE))
    /\ SF_vars(part = "device" /\ HostScan({}, FALSE, {}, <<>>))
    /\ SF_vars(part = "device" /\ CloseCursor("final"))
    /\ WF_vars(part = "device" /\ OpenCursor /\ pc = "idle")

(* Devices that all keep running end with the same tips.                   *)
Convergence == S!Convergence
=============================================================================
