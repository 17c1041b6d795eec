------------------------------ MODULE MCContent ------------------------------
(***************************************************************************)
(* What becomes of the user's content, machine by machine: the cycles and  *)
(* the helper of one computer, git as the carrier, and forks between two   *)
(* devices, of a resource and of a chat.  They share no state here; a      *)
(* behaviour is one of one machine, chosen at the start, so that their     *)
(* states add up and do not multiply.                                      *)
(***************************************************************************)
EXTENDS OfflineApply, TLC

CONSTANTS
    Clone, File, MaxRoots, MaxTurns,
    Key, Kind, MaxEdits, MaxVersions, MaxChatEdits, MaxChatVersions

(* The kinds of resource whose forks are merged; None is no content.       *)
ASSUME ForkAssumption ==
    /\ Kind \subseteq {"rows", "notes", "state", "json", "text", "targets"}
    /\ None \notin [op : {"put", "delete"}, rows : [Key -> SUBSET Nat]]

VARIABLES
    part,
    remote, head, tracking, tree, merging, branch, step, pulled, rewrite, retried,
    roots, mine, pushed, pruned,
    kind, log, seen, here, at, edits, gone,
    chatLog, chatSeen, chatHere, chatAt, chatEdits, plan, checkpoint, prunedVersions

gitVars == <<remote, head, tracking, tree, merging, branch, step, pulled, rewrite,
             retried, roots, mine, pushed, pruned>>
forkVars == <<kind, log, seen, here, at, edits, gone>>
chatVars == <<chatLog, chatSeen, chatHere, chatAt, chatEdits, plan, checkpoint,
              prunedVersions>>

G == INSTANCE GitTransport WITH Device <- Clone, pc <- step, RestoreMayFail <- FALSE
M == INSTANCE ContentMerge WITH local <- here, OverOwnMerge <- FALSE
C == INSTANCE ChatFork WITH log <- chatLog, seen <- chatSeen, local <- chatHere,
                            at <- chatAt, edits <- chatEdits, pruned <- prunedVersions,
                            MaxEdits <- MaxChatEdits, MaxVersions <- MaxChatVersions

MCInit ==
    /\ part \in {"apply", "git", "fork", "chat"}
    /\ Init /\ G!Init /\ M!Init /\ C!Init
    /\ part # "fork" => log = <<>> /\ kind = CHOOSE k \in Kind : TRUE
    /\ part # "chat" => chatLog[1].content.blobs = {}

Only(p) ==
    /\ UNCHANGED part
    /\ p # "apply" => UNCHANGED vars
    /\ p # "git" => UNCHANGED gitVars
    /\ p # "fork" => UNCHANGED forkVars
    /\ p # "chat" => UNCHANGED chatVars

MCNext ==
    \/ part = "apply" /\ Next /\ Only("apply")
    \/ part = "git" /\ G!Next /\ Only("git")
    \/ part = "fork" /\ M!Next /\ Only("fork")
    \/ part = "chat" /\ C!Next /\ Only("chat")

MCSpec == MCInit /\ [][MCNext]_<<part, vars, gitVars, forkVars, chatVars>>

Symmetry == Permutations(Content \ {Initial}) \cup Permutations(Clone)
                \cup Permutations(File) \cup Permutations(Key)

(* A file reported as pushed stays at the remote until it is pruned.       *)
PushedIsKept == G!PushedIsKept

(* No automatic merge drops an entry nobody replaced or deleted.           *)
EntriesSurvive == M!EntriesSurvive

(* A settled chat shows what its latest writer saw.                        *)
LatestIsShown == C!LatestIsShown
=============================================================================
