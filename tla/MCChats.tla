------------------------------- MODULE MCChats -------------------------------
(***************************************************************************)
(* What is done about a damaged chat: it is repaired from its history      *)
(* (ChatRepair), and its text is kept where it cannot be (RecoveryCatalog). *)
(* The two share no state; a behaviour is one of one machine, chosen at    *)
(* the start, so that their states add up and do not multiply.             *)
(***************************************************************************)
EXTENDS ChatRepair, TLC

CONSTANTS N, MaxRetained, MaxChats, MaxProbes, MaxEntries, MaxFiles, MaxCost, MaxLosses

(* Messages are numbered; None is neither a chat nor an entry.             *)
ASSUME ChatsAssumption ==
    /\ IsFiniteSet(Keys) /\ Keys \subseteq Nat \ {0} /\ \A k \in Keys : 1..k \subseteq Keys
    /\ {N, MaxCost, MaxProbes} \subseteq Nat
    /\ None \notin [rows : [Keys -> Nat], refs : SUBSET Keys]
    /\ None \notin [core : Nat, damage : Nat]
    /\ None \notin [status : {"ready", "changed", "unknown", "skipped-body", "skipped-limit"},
                    core : Nat, damage : Nat]

VARIABLES
    part,
    db, kind, cost, catalog, files, at, changed, snap, pos, last, examined, probed,
    broken, full, told, input, opening, writes, losses

catalogVars == <<db, kind, cost, catalog, files, at, changed, snap, pos, last, examined,
                 probed, broken, full, told, input, opening, writes, losses>>

R == INSTANCE RecoveryCatalog WITH changes <- writes, faults <- losses, MaxFaults <- MaxLosses

MCInit ==
    /\ part \in {"repair", "catalog", "open"}
    /\ Init /\ R!Init
    /\ part # "repair" => blobs = [d \in Devices |-> {1}]
                          /\ rows = [d \in Devices |-> [k \in Keys |-> 1 + k]]
    /\ part # "catalog" => kind = [c \in R!Chat |-> "readable"] /\ cost = [c \in R!Chat |-> 1]
                           /\ \A c \in R!Chat \ {1} : db[c] = R!Content(0, 0)
    /\ part = "repair" => db[1] = R!Content(0, 0)

\* An opening reads what a build leaves behind; while the catalog is built
\* with chats of every sort, none is opened.
MCNext ==
    \/ part = "repair" /\ Next /\ UNCHANGED <<part, catalogVars>>
    \/ part = "catalog" /\ (R!CursorWrites \/ R!LosesFile \/ R!Build) /\ UNCHANGED <<part, vars>>
    \/ part = "open" /\ R!Next /\ UNCHANGED <<part, vars>>

MCSpec == MCInit /\ [][MCNext]_<<part, vars, catalogVars>>

Symmetry == Permutations(Devices)

(* A build that reports no limit and no change has missed no damaged chat. *)
CompleteMissesNothing == R!CompleteMissesNothing
(* A verified artifact stays in the catalog until a newer one replaces it. *)
ReadyIsKept == R!ReadyIsKept
=============================================================================
