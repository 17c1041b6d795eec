----------------------------- MODULE GitTransport -----------------------------
(***************************************************************************)
(* A repository folder carried by git instead of a file-sync service       *)
(* (platform/git.ts and the manager's git windows): clones that pull, then *)
(* commit and push, and the rewriting of the history after a prune.        *)
(*                                                                         *)
(* The files are immutable event and object files, each added by one       *)
(* device.  A commit is known by the root of its history and by how often  *)
(* each file has been added or deleted since: one commit is an ancestor of *)
(* another when it counts no more, a merge counts the greater of the two,  *)
(* and a file is there when its count is odd.  git itself is external; its *)
(* commands are modelled by what they do to these.                         *)
(***************************************************************************)
EXTENDS Naturals, FiniteSets

CONSTANTS
    Device, File,
    None,
    MaxRoots, MaxTurns,     \* bounds: squashes; changes counted for one file
    RestoreMayFail          \* may restoreMissingTrackedFiles be cut short?

VARIABLES
    remote,        \* the branch at origin
    head, tracking,\* per clone: its branch, and origin's as last fetched
    tree,          \* per clone: the files in the working tree
    merging,       \* per clone: MERGE_HEAD
    branch,        \* per clone: "main", or the temporary squash branch
    pc,            \* per clone: the step of the git window
    pulled,        \* clones whose window has pulled
    rewrite,       \* clones whose window is to squash the history
    retried,       \* clones whose window recovers a rejected push
    roots,
    mine,          \* per device: the files it has added
    pushed,        \* history: files a window has reported as pushed
    pruned         \* history: files pruned

clone == <<head, tracking, tree, merging, branch>>
window == <<pc, pulled, rewrite, retried>>
vars == <<remote, clone, window, roots, mine, pushed, pruned>>

Commit == [root : Nat, turns : [File -> Nat]]

Files(c) == {f \in File : c.turns[f] % 2 = 1}
Ancestor(c, d) == c.root = d.root /\ \A f \in File : c.turns[f] <= d.turns[f]
Merged(c, d) ==
    [root |-> c.root,
     turns |-> [f \in File |-> IF c.turns[f] < d.turns[f] THEN d.turns[f] ELSE c.turns[f]]]

First == [root |-> 0, turns |-> [f \in File |-> 0]]

Init ==
    /\ remote = First
    /\ head = [d \in Device |-> First] /\ tracking = head
    /\ tree = [d \in Device |-> {}] /\ merging = [d \in Device |-> None]
    /\ branch = [d \in Device |-> "main"] /\ pc = [d \in Device |-> "absent"]
    /\ pulled = {} /\ rewrite = {} /\ retried = {} /\ roots = 0
    /\ mine = [d \in Device |-> {}] /\ pushed = {} /\ pruned = {}

-----------------------------------------------------------------------------
goto(d, step) == pc' = [pc EXCEPT ![d] = step]

(* cloneRepository, through a staging directory that is renamed when it is *)
(* whole; a folder that is initialized adopts origin's branch instead.     *)
Join(d) ==
    /\ pc[d] = "absent" /\ goto(d, "idle")
    /\ head' = [head EXCEPT ![d] = remote] /\ tracking' = [tracking EXCEPT ![d] = remote]
    /\ tree' = [tree EXCEPT ![d] = Files(remote)]
    /\ UNCHANGED <<remote, merging, branch, pulled, rewrite, retried, roots, mine, pushed, pruned>>

(* What the git window carries, written at any time, window or not.        *)
Publish(d, f) ==
    /\ pc[d] \in {"idle", "active"}
    /\ f \notin pruned \cup pushed \cup UNION {tree[e] : e \in Device}
    /\ tree' = [tree EXCEPT ![d] = @ \cup {f}]
    /\ mine' = [mine EXCEPT ![d] = @ \cup {f}]
    /\ UNCHANGED <<remote, head, tracking, merging, branch, window, roots, pushed, pruned>>

(* pruneWithGates: every device has acknowledged what goes.                *)
Prune(d, f) ==
    /\ \/ pc[d] = "active" /\ d \in pulled /\ rewrite' = rewrite \cup {d}
       \/ pc[d] = "idle" /\ UNCHANGED rewrite
    /\ f \in pushed /\ \A e \in Device : pc[e] # "absent" => f \in tree[e]
    /\ tree' = [tree EXCEPT ![d] = @ \ {f}] /\ pruned' = pruned \cup {f}
    /\ UNCHANGED <<remote, head, tracking, merging, branch, pc, pulled, retried, roots, mine, pushed>>

-----------------------------------------------------------------------------
(* openGitWindow: a background window need not pull.                       *)

OnBranch(d) == branch[d] = "main"             \* assertNotSquashBranch

OpenWindow(d) ==
    /\ pc[d] = "idle" /\ pulled' = pulled \ {d} /\ rewrite' = rewrite \ {d}
    /\ retried' = retried \ {d}
    /\ \/ OnBranch(d) /\ goto(d, "pull")
       \/ goto(d, "active")
    /\ UNCHANGED <<remote, clone, roots, mine, pushed, pruned>>

(* pullLatest: abortInterruptedMerge, fetch.                               *)
Fetch(d) ==
    /\ pc[d] = "pull" /\ tracking' = [tracking EXCEPT ![d] = remote]
    /\ merging' = [merging EXCEPT ![d] = None]
    /\ tree' = IF merging[d] = None THEN tree
               ELSE [tree EXCEPT ![d] =
                        (@ \ (Files(Merged(head[d], merging[d])) \ Files(head[d])))
                           \cup (Files(head[d]) \ Files(Merged(head[d], merging[d])))]
    /\ goto(d, "merge")
    /\ UNCHANGED <<remote, head, branch, pulled, rewrite, retried, roots, mine, pushed, pruned>>

Checkout(d, c) == (tree[d] \cup (Files(c) \ Files(head[d]))) \ (Files(head[d]) \ Files(c))

AfterPull(d, reset) ==
    /\ pulled' = pulled \cup {d}
    /\ goto(d, IF d \notin retried THEN "active" ELSE IF reset THEN "recommit" ELSE "retry")

Merge(d) ==
    /\ pc[d] = "merge" /\ head[d].root = tracking[d].root
    /\ LET c == Merged(head[d], tracking[d]) IN
       /\ tree' = [tree EXCEPT ![d] = Checkout(d, c)]
       /\ \/ /\ head' = [head EXCEPT ![d] = c] /\ AfterPull(d, FALSE) /\ UNCHANGED merging
          \/ /\ ~Ancestor(tracking[d], head[d])              \* it is interrupted
             /\ merging' = [merging EXCEPT ![d] = tracking[d]]
             /\ goto(d, "idle") /\ UNCHANGED <<head, pulled>>
    /\ UNCHANGED <<remote, tracking, branch, rewrite, retried, roots, mine, pushed, pruned>>

(* The histories are unrelated: reset --mixed leaves the tree alone.       *)
Reset(d) ==
    /\ pc[d] = "merge" /\ head[d].root # tracking[d].root
    /\ head' = [head EXCEPT ![d] = tracking[d]] /\ goto(d, "restore")
    /\ UNCHANGED <<remote, tracking, tree, merging, branch, pulled, rewrite, retried, roots, mine, pushed, pruned>>

(* restoreMissingTrackedFiles                                              *)
Restore(d) ==
    /\ pc[d] = "restore" /\ tree' = [tree EXCEPT ![d] = @ \cup Files(head[d])]
    /\ AfterPull(d, TRUE)
    /\ UNCHANGED <<remote, head, tracking, merging, branch, rewrite, retried, roots, mine, pushed, pruned>>

-----------------------------------------------------------------------------
(* commitGitWindow and commitAndPush.                                      *)

(* add -A, commit: whatever the tree holds; it concludes a merge.          *)
Recorded(d) ==
    LET base == IF merging[d] = None THEN head[d] ELSE Merged(head[d], merging[d])
    IN  [base EXCEPT !.turns = [f \in File |->
            IF (f \in tree[d]) = (f \in Files(base)) THEN @[f] ELSE @[f] + 1]]

CommitTree(d, from, to) ==
    /\ pc[d] = from /\ OnBranch(d) /\ \A f \in File : Recorded(d).turns[f] <= MaxTurns
    /\ head' = [head EXCEPT ![d] = Recorded(d)] /\ merging' = [merging EXCEPT ![d] = None]
    /\ goto(d, to)
    /\ UNCHANGED <<remote, tracking, tree, branch, pulled, rewrite, retried, roots, mine, pushed, pruned>>

StageAndCommit(d) == CommitTree(d, "active", "push")
Recommit(d) == CommitTree(d, "recommit", "retry")

(* A window of the temporary branch pushes to a branch of that name.       *)
Reported(d) == pushed' = pushed \cup Files(head[d])

FaultyFastForward(d) == TRUE                  \* push --force
FastForward(d) == Ancestor(remote, head[d])   \* the remote refuses anything else

Push(d) ==
    /\ pc[d] \in {"push", "retry"}
    /\ \/ /\ branch[d] = "main" /\ FastForward(d)
          /\ remote' = head[d] /\ tracking' = [tracking EXCEPT ![d] = head[d]]
          /\ Reported(d) /\ goto(d, IF d \in rewrite THEN "squash" ELSE "idle")
          /\ UNCHANGED retried
       \/ /\ branch[d] # "main" /\ Reported(d) /\ goto(d, "idle")
          /\ UNCHANGED <<remote, tracking, retried>>
       \/ /\ branch[d] = "main" /\ Ancestor(head[d], tracking[d])   \* nothing to push
          /\ pc[d] = "push"
          /\ goto(d, IF d \in rewrite THEN "squash" ELSE "idle")
          /\ UNCHANGED <<remote, tracking, pushed, retried>>
       \/ /\ branch[d] = "main" /\ ~FastForward(d) /\ pc[d] = "push"
          /\ ~Ancestor(head[d], tracking[d])
          /\ retried' = retried \cup {d} /\ goto(d, "pull")
          /\ UNCHANGED <<remote, tracking, pushed>>
    /\ UNCHANGED <<head, tree, merging, branch, pulled, rewrite, roots, mine, pruned>>

-----------------------------------------------------------------------------
(* squashHistory.                                                          *)

(* checkout --orphan, add -A, commit: main stays where it is till the end. *)
Orphan(d) ==
    /\ pc[d] = "squash" /\ roots < MaxRoots
    /\ branch' = [branch EXCEPT ![d] = "temporary"] /\ goto(d, "rename")
    /\ UNCHANGED <<remote, head, tracking, tree, merging, pulled, rewrite, retried, roots, mine, pushed, pruned>>

(* branch -M                                                               *)
RenameBranch(d) ==
    /\ pc[d] = "rename" /\ branch' = [branch EXCEPT ![d] = "main"]
    /\ roots' = roots + 1
    /\ head' = [head EXCEPT ![d] = [root |-> roots + 1,
                   turns |-> [f \in File |-> IF f \in tree[d] THEN 1 ELSE 0]]]
    /\ goto(d, "force")
    /\ UNCHANGED <<remote, tracking, tree, merging, pulled, rewrite, retried, mine, pushed, pruned>>

(* push --force-with-lease: only over what was last fetched or pushed.     *)
ForcePush(d) ==
    /\ pc[d] = "force" /\ goto(d, "idle")
    /\ IF remote = tracking[d]
       THEN remote' = head[d] /\ tracking' = [tracking EXCEPT ![d] = head[d]]
       ELSE UNCHANGED <<remote, tracking>>
    /\ UNCHANGED <<head, tree, merging, branch, pulled, rewrite, retried, roots, mine, pushed, pruned>>

-----------------------------------------------------------------------------
(* A command fails, times out or the window dies: the next one starts anew.*)
(* A failing squash goes back to main; one that dies leaves its branch.    *)
Stops(d) ==
    /\ pc[d] \notin {"absent", "idle"} /\ goto(d, "idle")
    /\ pc[d] = "restore" => RestoreMayFail
    /\ \/ UNCHANGED branch
       \/ pc[d] = "rename" /\ branch' = [branch EXCEPT ![d] = "main"]
    /\ UNCHANGED <<remote, head, tracking, tree, merging, pulled, rewrite, retried, roots, mine, pushed, pruned>>

(* "run git checkout main in the repository folder to recover"             *)
UserChecksOut(d) ==
    /\ pc[d] = "idle" /\ branch[d] # "main" /\ branch' = [branch EXCEPT ![d] = "main"]
    /\ UNCHANGED <<remote, head, tracking, tree, merging, window, roots, mine, pushed, pruned>>

Next ==
    \E d \in Device :
        \/ \E f \in File : Publish(d, f) \/ Prune(d, f)
        \/ Join(d) \/ OpenWindow(d) \/ Fetch(d) \/ Merge(d) \/ Reset(d) \/ Restore(d)
        \/ StageAndCommit(d) \/ Recommit(d) \/ Push(d)
        \/ Orphan(d) \/ RenameBranch(d) \/ ForcePush(d)
        \/ Stops(d) \/ UserChecksOut(d)

Spec == Init /\ [][Next]_vars

-----------------------------------------------------------------------------
(* A file that a window has reported as pushed stays at the remote until   *)
(* it is pruned: no rewrite of the history, no recovery from one, no race  *)
(* of two devices drops or deletes it (pullLatest, squashHistory).         *)
PushedIsKept == pushed \ pruned \subseteq Files(remote)

(* What a device has added is in its working tree until it is pruned: its  *)
(* unpushed work outlives merges, rewrites of the history, interruptions   *)
(* and recoveries, and so does what it has pushed (usage.md:59).           *)
OwnWorkStays == \A d \in Device : mine[d] \ pruned \subseteq tree[d]
=============================================================================
