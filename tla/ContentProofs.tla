--------------------------- MODULE ContentProofs ---------------------------
(***************************************************************************)
(* What is proved of the machines that MCContent puts side by side: of the *)
(* Git transport, for any number of clones, files and rewrites of the      *)
(* history; of forks and their merges, for any number of entries, edits    *)
(* and versions; and of what the cycles and the helper of a computer write *)
(* over, for any number of resources, edits, versions and faults.          *)
(***************************************************************************)
EXTENDS MCContent, FiniteSetTheorems, SequenceTheorems, WellFoundedInduction, TLAPS

-----------------------------------------------------------------------------
(* GitTransport, as long as the restore after a rewrite is not cut short.  *)
(*                                                                         *)
(* The argument: a file that is not pruned is never deleted by a commit,   *)
(* because every file of a branch is in the working tree (TreesInv), but   *)
(* for the moment between the adoption of a rewritten history and the      *)
(* restore.  So it is counted at most once (CountsInv), and a fast-forward *)
(* of the remote keeps it.  A forced push replaces the history that the    *)
(* window has last seen, and only a window that has merged what it has     *)
(* seen rewrites the history (SquashInv).                                  *)


GitTypeInv ==
    /\ remote \in G!Commit
    /\ head \in [Clone -> G!Commit] /\ tracking \in [Clone -> G!Commit]
    /\ tree \in [Clone -> SUBSET File]
    /\ merging \in [Clone -> G!Commit \cup {None}]
    /\ branch \in [Clone -> {"main", "temporary"}]
    /\ step \in [Clone -> {"absent", "idle", "pull", "merge", "restore", "active", "push",
                          "recommit", "retry", "squash", "rename", "force"}]
    /\ roots \in Nat

(* A file that is not pruned has been added once at most, by one device.   *)
AtMostOnce(c) == \A f \in File \ pruned : c.turns[f] <= 1

CountsInv ==
    /\ AtMostOnce(remote)
    /\ \A d \in Clone :
           /\ AtMostOnce(head[d]) /\ AtMostOnce(tracking[d])
           /\ merging[d] # None => AtMostOnce(merging[d])

(* What is committed, or being merged, is in the working tree.             *)
TreesInv ==
    \A d \in Clone :
        /\ step[d] # "restore" => G!Files(head[d]) \ pruned \subseteq tree[d]
        /\ merging[d] # None => G!Files(merging[d]) \ pruned \subseteq tree[d]
        /\ step[d] \in {"absent", "merge"} => merging[d] = None

(* The branch of d has all that it has last seen of origin's.              *)
Covers(d) == G!Files(tracking[d]) \ pruned \subseteq G!Files(head[d])

(* A window that may rewrite the history has merged what it has fetched,   *)
(* and only the rewriting itself leaves the branch.                        *)
SquashInv ==
    /\ rewrite \subseteq pulled
    /\ \A d \in Clone :
           /\ branch[d] # "main" => step[d] \in {"idle", "active", "rename"}
           /\ step[d] \in {"squash", "rename", "force"} => d \in pulled
           /\ step[d] = "restore" => Covers(d)
           /\ d \in pulled /\ step[d] \in {"active", "push", "retry", "recommit",
                                         "squash", "rename", "force"}
              => Covers(d)

GitInv == GitTypeInv /\ CountsInv /\ TreesInv /\ SquashInv /\ G!PushedIsKept

-----------------------------------------------------------------------------
(* Commits.                                                                *)

(* A file counted at most once is there when it is counted.                *)
LEMMA FilesAre ==
    ASSUME NEW c \in G!Commit, AtMostOnce(c), NEW f \in File \ pruned
    PROVE  c.turns[f] \in {0, 1} /\ (f \in G!Files(c) <=> c.turns[f] = 1)
<1>1. c.turns[f] \in Nat /\ c.turns[f] <= 1
  BY DEF G!Commit, AtMostOnce
<1> QED BY <1>1 DEF G!Files

(* A merge has the files of both.                                          *)
LEMMA MergedIs ==
    ASSUME NEW c \in G!Commit, NEW e \in G!Commit, AtMostOnce(c), AtMostOnce(e)
    PROVE  /\ G!Merged(c, e) \in G!Commit /\ AtMostOnce(G!Merged(c, e))
           /\ G!Files(G!Merged(c, e)) \ pruned = (G!Files(c) \cup G!Files(e)) \ pruned
<1>1. PICK m : m = G!Merged(c, e)
  OBVIOUS
<1>2. /\ m.root = c.root
      /\ m = [root |-> c.root, turns |-> m.turns]
      /\ m.turns = [f \in File |-> IF c.turns[f] < e.turns[f] THEN e.turns[f] ELSE c.turns[f]]
  BY <1>1 DEF G!Merged
<1>3. m \in G!Commit
  <2>1. m.turns \in [File -> Nat] /\ m.root \in Nat
    BY <1>2 DEF G!Commit
  <2> QED BY <1>2, <2>1 DEF G!Commit
<1>4. AtMostOnce(m)
  BY <1>2 DEF AtMostOnce
<1>5. ASSUME NEW f \in File \ pruned
      PROVE  f \in G!Files(m) <=> f \in G!Files(c) \/ f \in G!Files(e)
  <2>1. /\ c.turns[f] \in {0, 1} /\ (f \in G!Files(c) <=> c.turns[f] = 1)
        /\ e.turns[f] \in {0, 1} /\ (f \in G!Files(e) <=> e.turns[f] = 1)
        /\ f \in G!Files(m) <=> m.turns[f] = 1
    BY <1>3, <1>4, FilesAre
  <2>2. m.turns[f] = IF c.turns[f] < e.turns[f] THEN e.turns[f] ELSE c.turns[f]
    BY <1>2
  <2> QED BY <2>1, <2>2
<1>6. \A x : x \in G!Files(m) \/ x \in G!Files(c) \/ x \in G!Files(e) => x \in File
  BY DEF G!Files
<1> QED BY <1>1, <1>3, <1>4, <1>5, <1>6

(* The commit of a tree that has the files of its parents has the tree's.  *)
LEMMA RecordedIs ==
    ASSUME GitTypeInv, CountsInv, TreesInv, NEW d \in Clone, step[d] # "restore"
    PROVE  /\ G!Recorded(d) \in G!Commit /\ AtMostOnce(G!Recorded(d))
           /\ G!Files(G!Recorded(d)) \ pruned = tree[d] \ pruned
<1>1. PICK base : base = IF merging[d] = None THEN head[d] ELSE G!Merged(head[d], merging[d])
  OBVIOUS
<1>2. base \in G!Commit /\ AtMostOnce(base) /\ G!Files(base) \ pruned \subseteq tree[d]
  <2>1. CASE merging[d] = None
    BY <1>1, <2>1 DEF GitTypeInv, CountsInv, TreesInv
  <2>2. CASE merging[d] # None
    <3>1. /\ head[d] \in G!Commit /\ merging[d] \in G!Commit
          /\ AtMostOnce(head[d]) /\ AtMostOnce(merging[d])
          /\ G!Files(head[d]) \ pruned \subseteq tree[d]
          /\ G!Files(merging[d]) \ pruned \subseteq tree[d]
      BY <2>2 DEF GitTypeInv, CountsInv, TreesInv
    <3> QED BY <1>1, <2>2, <3>1, MergedIs
  <2> QED BY <2>1, <2>2
<1>3. PICK c : c = G!Recorded(d)
  OBVIOUS
<1>4. c = [base EXCEPT !.turns = [f \in File |->
               IF (f \in tree[d]) = (f \in G!Files(base)) THEN base.turns[f]
               ELSE base.turns[f] + 1]]
  BY <1>1, <1>3 DEF G!Recorded
<1>5. PICK turns : turns = [f \in File |->
               IF (f \in tree[d]) = (f \in G!Files(base)) THEN base.turns[f]
               ELSE base.turns[f] + 1]
  OBVIOUS
<1>6. turns \in [File -> Nat]
  BY <1>2, <1>5 DEF G!Commit
<1>7. c \in G!Commit /\ c.turns = turns
  BY <1>2, <1>4, <1>5, <1>6 DEF G!Commit
<1>8. ASSUME NEW f \in File \ pruned
      PROVE  c.turns[f] \in {0, 1} /\ (c.turns[f] = 1 <=> f \in tree[d])
  <2>1. base.turns[f] \in {0, 1} /\ (f \in G!Files(base) <=> base.turns[f] = 1)
    BY <1>2, FilesAre
  <2>2. f \in G!Files(base) => f \in tree[d]
    BY <1>2
  <2>3. CASE f \in G!Files(base)
    BY <1>5, <1>7, <2>1, <2>2, <2>3
  <2>4. CASE f \notin G!Files(base) /\ f \in tree[d]
    BY <1>5, <1>7, <2>1, <2>4
  <2>5. CASE f \notin G!Files(base) /\ f \notin tree[d]
    BY <1>5, <1>7, <2>1, <2>5
  <2> QED BY <2>3, <2>4, <2>5
<1>9. AtMostOnce(c)
  BY <1>8 DEF AtMostOnce
<1>10. \A x : x \in G!Files(c) \/ x \in tree[d] => x \in File
  BY DEF G!Files, GitTypeInv
<1>11. \A f \in File \ pruned : f \in G!Files(c) <=> f \in tree[d]
  BY <1>7, <1>8, <1>9, FilesAre
<1> QED BY <1>3, <1>7, <1>9, <1>10, <1>11


-----------------------------------------------------------------------------
(* The steps of a device.                                                  *)

(* A clone has what is at the remote.                                      *)
LEMMA JoinInv ==
    ASSUME GitInv, NEW d \in Clone, G!Join(d)
    PROVE  GitInv'
<1>0. GitTypeInv /\ CountsInv /\ TreesInv /\ SquashInv /\ G!PushedIsKept
  BY DEF GitInv
<1>1. GitTypeInv'
  <2>1. G!Files(remote) \in SUBSET File
    BY DEF G!Files
  <2> QED BY <1>0, <2>1 DEF G!Join, G!goto, GitTypeInv
<1>2. CountsInv'
  BY <1>0 DEF G!Join, GitTypeInv, CountsInv, AtMostOnce
<1>3. TreesInv'
  <2>1. pruned' = pruned /\ merging' = merging
    BY DEF G!Join
  <2>2. head'[d] = remote /\ tree'[d] = G!Files(remote)
    BY <1>0 DEF G!Join, GitTypeInv
  <2>3. \A e \in Clone : e # d => head'[e] = head[e] /\ tree'[e] = tree[e] /\ step'[e] = step[e]
    BY <1>0 DEF G!Join, G!goto, GitTypeInv
  <2>4. merging[d] = None
    BY <1>0 DEF G!Join, TreesInv
  <2>5. step'[d] = "idle"
    BY <1>0 DEF G!Join, G!goto, GitTypeInv
  <2> QED BY <1>0, <2>1, <2>2, <2>3, <2>4, <2>5 DEF TreesInv, G!Files
<1>4. SquashInv'
  BY <1>0 DEF G!Join, G!goto, GitTypeInv, SquashInv, Covers, G!Files
<1>5. G!PushedIsKept'
  BY <1>0 DEF G!Join, G!PushedIsKept, G!Files
<1> QED BY <1>1, <1>2, <1>3, <1>4, <1>5 DEF GitInv

(* A new file is in no commit yet.                                         *)
LEMMA PublishInv ==
    ASSUME GitInv, NEW d \in Clone, NEW f \in File, G!Publish(d, f)
    PROVE  GitInv'
<1>0. GitTypeInv /\ CountsInv /\ TreesInv /\ SquashInv /\ G!PushedIsKept
  BY DEF GitInv
<1>1. GitTypeInv'
  BY <1>0 DEF G!Publish, G!window, GitTypeInv
<1>2. CountsInv'
  BY <1>0 DEF G!Publish, CountsInv, AtMostOnce
<1>3. TreesInv'
  BY <1>0 DEF G!Publish, G!window, GitTypeInv, TreesInv, G!Files
<1>4. SquashInv'
  BY <1>0 DEF G!Publish, G!window, SquashInv, Covers, G!Files
<1>5. G!PushedIsKept'
  BY <1>0 DEF G!Publish, G!PushedIsKept, G!Files
<1> QED BY <1>1, <1>2, <1>3, <1>4, <1>5 DEF GitInv

(* What is pruned need not be kept, in the tree or anywhere.               *)
LEMMA PruneInv ==
    ASSUME GitInv, NEW d \in Clone, NEW f \in File, G!Prune(d, f)
    PROVE  GitInv'
<1>0. GitTypeInv /\ CountsInv /\ TreesInv /\ SquashInv /\ G!PushedIsKept
  BY DEF GitInv
<1>1. GitTypeInv'
  BY <1>0 DEF G!Prune, GitTypeInv
<1>2. CountsInv'
  BY <1>0 DEF G!Prune, CountsInv, AtMostOnce
<1>3. TreesInv'
  BY <1>0 DEF G!Prune, GitTypeInv, TreesInv, G!Files
<1>4. SquashInv'
  BY <1>0 DEF G!Prune, SquashInv, Covers, G!Files
<1>5. G!PushedIsKept'
  BY <1>0 DEF G!Prune, G!PushedIsKept, G!Files
<1> QED BY <1>1, <1>2, <1>3, <1>4, <1>5 DEF GitInv

(* A window starts anew.                                                   *)
LEMMA OpenWindowInv ==
    ASSUME GitInv, NEW d \in Clone, G!OpenWindow(d)
    PROVE  GitInv'
<1>0. GitTypeInv /\ CountsInv /\ TreesInv /\ SquashInv /\ G!PushedIsKept
  BY DEF GitInv
<1>1. GitTypeInv'
  BY <1>0 DEF G!OpenWindow, G!goto, G!clone, GitTypeInv
<1>2. CountsInv'
  BY <1>0 DEF G!OpenWindow, G!clone, CountsInv, AtMostOnce
<1>3. TreesInv'
  BY <1>0 DEF G!OpenWindow, G!goto, G!clone, GitTypeInv, TreesInv, G!Files
<1>4. SquashInv'
  <2>1. step' = [step EXCEPT ![d] = step'[d]] /\ step'[d] \in {"pull", "active"}
    BY <1>0 DEF G!OpenWindow, G!goto, GitTypeInv
  <2>2. step'[d] = "pull" => branch[d] = "main"
    BY <2>1 DEF G!OpenWindow, G!OnBranch, G!goto, GitInv, GitTypeInv
  <2>3. /\ pulled' = pulled \ {d} /\ rewrite' = rewrite \ {d} /\ pruned' = pruned
        /\ head' = head /\ tracking' = tracking /\ branch' = branch
    BY DEF G!OpenWindow, G!clone
  <2>4. \A e \in Clone : Covers(e)' <=> Covers(e)
    BY <2>3 DEF Covers, G!Files
  <2> QED BY <1>0, <2>1, <2>2, <2>3, <2>4 DEF SquashInv, GitTypeInv
<1>5. G!PushedIsKept'
  BY <1>0 DEF G!OpenWindow, G!PushedIsKept, G!Files
<1> QED BY <1>1, <1>2, <1>3, <1>4, <1>5 DEF GitInv

(* Aborting a merge takes from the tree only what the branch has not.      *)
LEMMA FetchInv ==
    ASSUME GitInv, NEW d \in Clone, G!Fetch(d)
    PROVE  GitInv'
<1>0. GitTypeInv /\ CountsInv /\ TreesInv /\ SquashInv /\ G!PushedIsKept
  BY DEF GitInv
<1>1. /\ tree' \in [Clone -> SUBSET File]
      /\ \A e \in Clone : e # d => tree'[e] = tree[e]
      /\ tree[d] \cap G!Files(head[d]) \subseteq tree'[d]
  <2>1. CASE merging[d] = None
    BY <1>0, <2>1 DEF G!Fetch, GitTypeInv
  <2>2. CASE merging[d] # None
    <3>1. PICK lost, back : /\ lost = G!Files(G!Merged(head[d], merging[d])) \ G!Files(head[d])
                            /\ back = G!Files(head[d]) \ G!Files(G!Merged(head[d], merging[d]))
      OBVIOUS
    <3>2. tree' = [tree EXCEPT ![d] = (@ \ lost) \cup back]
      BY <2>2, <3>1 DEF G!Fetch
    <3>3. lost \subseteq File /\ back \subseteq File /\ lost \cap G!Files(head[d]) = {}
      BY <3>1 DEF G!Files
    <3> QED BY <1>0, <3>2, <3>3 DEF GitTypeInv
  <2> QED BY <2>1, <2>2
<1>2. GitTypeInv'
  BY <1>0, <1>1 DEF G!Fetch, G!goto, GitTypeInv
<1>3. CountsInv'
  BY <1>0 DEF G!Fetch, GitTypeInv, CountsInv, AtMostOnce
<1>4. TreesInv'
  <2>1. /\ step[d] = "pull" /\ merging'[d] = None /\ head' = head /\ pruned' = pruned
        /\ \A e \in Clone : e # d => merging'[e] = merging[e] /\ step'[e] = step[e]
    BY <1>0 DEF G!Fetch, G!goto, GitTypeInv
  <2> QED BY <1>0, <1>1, <2>1 DEF TreesInv, G!Files
<1>5. SquashInv'
  <2>1. step' = [step EXCEPT ![d] = "merge"] /\ tracking' = [tracking EXCEPT ![d] = remote]
        /\ step[d] = "pull" /\ UNCHANGED <<head, branch, pulled, rewrite, pruned>>
    BY DEF G!Fetch, G!goto
  <2>2. \A e \in Clone : e # d => (Covers(e)' <=> Covers(e))
    BY <1>0, <2>1 DEF Covers, G!Files, GitTypeInv
  <2> QED BY <1>0, <2>1, <2>2 DEF SquashInv, GitTypeInv
<1>6. G!PushedIsKept'
  BY <1>0 DEF G!Fetch, G!PushedIsKept, G!Files
<1> QED BY <1>2, <1>3, <1>4, <1>5, <1>6 DEF GitInv

(* A merge has what both had, in the branch and in the tree; one that is   *)
(* interrupted, in the tree.                                               *)
LEMMA MergeInv ==
    ASSUME GitInv, NEW d \in Clone, G!Merge(d)
    PROVE  GitInv'
<1>0. GitTypeInv /\ CountsInv /\ TreesInv /\ SquashInv /\ G!PushedIsKept
  BY DEF GitInv
<1>1. PICK c : c = G!Merged(head[d], tracking[d])
  OBVIOUS
<1>2. /\ c \in G!Commit /\ AtMostOnce(c)
      /\ G!Files(c) \ pruned = (G!Files(head[d]) \cup G!Files(tracking[d])) \ pruned
  BY <1>0, <1>1, MergedIs DEF GitTypeInv, CountsInv
<1>3. PICK t : t = G!Checkout(d, c)
  OBVIOUS
<1>4. t \in SUBSET File /\ G!Files(c) \ pruned \subseteq t
  <2>1. G!Files(c) \subseteq File /\ tree[d] \subseteq File /\ G!Files(head[d]) \subseteq File
    BY <1>0 DEF G!Files, GitTypeInv
  <2>2. G!Files(head[d]) \ pruned \subseteq tree[d]
    BY <1>0 DEF G!Merge, TreesInv
  <2> QED BY <1>2, <1>3, <2>1, <2>2 DEF G!Checkout
<1>5. /\ step[d] = "merge" /\ tree' = [tree EXCEPT ![d] = t]
      /\ \/ /\ head' = [head EXCEPT ![d] = c] /\ merging' = merging
            /\ pulled' = pulled \cup {d}
            /\ \E to \in {"active", "retry"} : step' = [step EXCEPT ![d] = to]
         \/ /\ head' = head /\ merging' = [merging EXCEPT ![d] = tracking[d]]
            /\ pulled' = pulled /\ step' = [step EXCEPT ![d] = "idle"]
      /\ UNCHANGED <<remote, tracking, branch, rewrite, roots, pushed, pruned>>
  BY <1>1, <1>3 DEF G!Merge, G!AfterPull, G!goto
<1>6. GitTypeInv'
  BY <1>0, <1>2, <1>4, <1>5 DEF GitTypeInv
<1>7. CountsInv'
  BY <1>0, <1>2, <1>5 DEF GitTypeInv, CountsInv, AtMostOnce
<1>8. TreesInv'
  <2>1. /\ tree'[d] = t /\ head'[d] \in {c, head[d]} /\ merging'[d] \in {merging[d], tracking[d]}
        /\ \A e \in Clone : e # d => /\ tree'[e] = tree[e] /\ head'[e] = head[e]
                                      /\ merging'[e] = merging[e] /\ step'[e] = step[e]
        /\ step'[d] \in {"active", "retry", "idle"}
    BY <1>0, <1>5 DEF GitTypeInv
  <2>2. G!Files(head[d]) \ pruned \subseteq t /\ G!Files(tracking[d]) \ pruned \subseteq t
    BY <1>2, <1>4
  <2>3. merging'[d] # None => merging'[d] = tracking[d] \/ merging[d] # None
    BY <2>1
  <2>4. merging[d] # None => G!Files(merging[d]) \ pruned \subseteq t
    BY <1>0, <1>5 DEF TreesInv
  <2> QED BY <1>0, <1>4, <1>5, <2>1, <2>2, <2>3, <2>4 DEF TreesInv, G!Files
<1>9. SquashInv'
  <2>1. \A e \in Clone : e # d => (Covers(e)' <=> Covers(e))
    BY <1>0, <1>5 DEF Covers, G!Files, GitTypeInv
  <2>2. head'[d] = c => Covers(d)'
    BY <1>2, <1>5 DEF Covers, G!Files
  <2>3. head'[d] = c \/ step'[d] = "idle"
    BY <1>0, <1>5 DEF GitTypeInv
  <2> QED BY <1>0, <1>5, <2>1, <2>2, <2>3 DEF SquashInv, GitTypeInv
<1>10. G!PushedIsKept'
  BY <1>0, <1>5 DEF G!PushedIsKept, G!Files
<1> QED BY <1>6, <1>7, <1>8, <1>9, <1>10 DEF GitInv

(* The branch adopts a history it has no commit of; the tree lags behind.  *)
LEMMA ResetInv ==
    ASSUME GitInv, NEW d \in Clone, G!Reset(d)
    PROVE  GitInv'
<1>0. GitTypeInv /\ CountsInv /\ TreesInv /\ SquashInv /\ G!PushedIsKept
  BY DEF GitInv
<1>1. GitTypeInv'
  BY <1>0 DEF G!Reset, G!goto, GitTypeInv
<1>2. CountsInv'
  BY <1>0 DEF G!Reset, GitTypeInv, CountsInv, AtMostOnce
<1>3. TreesInv'
  BY <1>0 DEF G!Reset, G!goto, GitTypeInv, TreesInv, G!Files
<1>4. SquashInv'
  BY <1>0 DEF G!Reset, G!goto, GitTypeInv, SquashInv, Covers, G!Files
<1>5. G!PushedIsKept'
  BY <1>0 DEF G!Reset, G!PushedIsKept, G!Files
<1> QED BY <1>1, <1>2, <1>3, <1>4, <1>5 DEF GitInv

(* The tree has what the adopted history has.                              *)
LEMMA RestoreInv ==
    ASSUME GitInv, NEW d \in Clone, G!Restore(d)
    PROVE  GitInv'
<1>0. GitTypeInv /\ CountsInv /\ TreesInv /\ SquashInv /\ G!PushedIsKept
  BY DEF GitInv
<1>1. PICK t : t = tree[d] \cup G!Files(head[d])
  OBVIOUS
<1>2. t \in SUBSET File
  BY <1>0, <1>1 DEF GitTypeInv, G!Files
<1>3. /\ step[d] = "restore" /\ tree' = [tree EXCEPT ![d] = t]
      /\ pulled' = pulled \cup {d}
      /\ \E to \in {"active", "recommit"} : step' = [step EXCEPT ![d] = to]
      /\ UNCHANGED <<remote, head, tracking, merging, branch, rewrite, roots, pushed, pruned>>
  BY <1>1 DEF G!Restore, G!AfterPull, G!goto
<1>4. GitTypeInv'
  BY <1>0, <1>2, <1>3 DEF GitTypeInv
<1>5. CountsInv'
  BY <1>0, <1>3 DEF CountsInv, AtMostOnce
<1>6. TreesInv'
  <2>1. /\ tree'[d] = t /\ \A e \in Clone : e # d => tree'[e] = tree[e] /\ step'[e] = step[e]
        /\ step'[d] \in {"active", "recommit"}
    BY <1>0, <1>3 DEF GitTypeInv
  <2> QED BY <1>0, <1>1, <1>3, <2>1 DEF TreesInv, G!Files
<1>7. SquashInv'
  <2>1. \A e \in Clone : Covers(e)' <=> Covers(e)
    BY <1>3 DEF Covers, G!Files
  <2> QED BY <1>0, <1>3, <2>1 DEF SquashInv, GitTypeInv
<1>8. G!PushedIsKept'
  BY <1>0, <1>3 DEF G!PushedIsKept, G!Files
<1> QED BY <1>4, <1>5, <1>6, <1>7, <1>8 DEF GitInv

(* A commit has what the tree has, and so what the branch had.             *)
LEMMA CommitInv ==
    ASSUME GitInv, NEW d \in Clone,
           NEW from \in {"active", "recommit"}, NEW to \in {"push", "retry"},
           G!CommitTree(d, from, to)
    PROVE  GitInv'
<1>0. GitTypeInv /\ CountsInv /\ TreesInv /\ SquashInv /\ G!PushedIsKept
  BY DEF GitInv
<1>1. PICK c : c = G!Recorded(d)
  OBVIOUS
<1>2. /\ step[d] = from /\ branch[d] = "main"
      /\ head' = [head EXCEPT ![d] = c] /\ merging' = [merging EXCEPT ![d] = None]
      /\ step' = [step EXCEPT ![d] = to]
      /\ UNCHANGED <<remote, tracking, tree, branch, pulled, rewrite, roots, pushed, pruned>>
  BY <1>1 DEF G!CommitTree, G!OnBranch, G!goto
<1>3. c \in G!Commit /\ AtMostOnce(c) /\ G!Files(c) \ pruned = tree[d] \ pruned
  BY <1>0, <1>1, <1>2, RecordedIs
<1>4. G!Files(head[d]) \ pruned \subseteq G!Files(c)
  BY <1>0, <1>2, <1>3 DEF TreesInv
<1>5. GitTypeInv'
  BY <1>0, <1>2, <1>3 DEF GitTypeInv
<1>6. CountsInv'
  BY <1>0, <1>2, <1>3 DEF GitTypeInv, CountsInv, AtMostOnce
<1>7. TreesInv'
  <2>1. /\ head'[d] = c /\ merging'[d] = None /\ step'[d] = to
        /\ \A e \in Clone : e # d => head'[e] = head[e] /\ merging'[e] = merging[e] /\ step'[e] = step[e]
    BY <1>0, <1>2 DEF GitTypeInv
  <2> QED BY <1>0, <1>2, <1>3, <2>1 DEF TreesInv, G!Files
<1>8. SquashInv'
  <2>1. \A e \in Clone : e # d => (Covers(e)' <=> Covers(e))
    BY <1>0, <1>2 DEF Covers, G!Files, GitTypeInv
  <2>2. Covers(d) => Covers(d)'
    BY <1>0, <1>2, <1>4 DEF Covers, G!Files, GitTypeInv
  <2> QED BY <1>0, <1>2, <2>1, <2>2 DEF SquashInv, GitTypeInv
<1>9. G!PushedIsKept'
  BY <1>0, <1>2 DEF G!PushedIsKept, G!Files
<1> QED BY <1>5, <1>6, <1>7, <1>8, <1>9 DEF GitInv

(* A push that is accepted leaves nothing behind that is not pruned.       *)
LEMMA PushInv ==
    ASSUME GitInv, NEW d \in Clone, G!Push(d)
    PROVE  GitInv'
<1>0. GitTypeInv /\ CountsInv /\ TreesInv /\ SquashInv /\ G!PushedIsKept
  BY DEF GitInv
<1>1. /\ branch[d] = "main"
      /\ \E to \in {"squash", "idle", "pull"} :
             /\ step' = [step EXCEPT ![d] = to]
             /\ to = "squash" => d \in rewrite
      /\ UNCHANGED <<head, tree, merging, branch, pulled, rewrite, roots, pruned>>
      /\ \/ /\ G!FastForward(d) /\ remote' = head[d] /\ tracking' = [tracking EXCEPT ![d] = head[d]]
            /\ pushed' = pushed \cup G!Files(head[d])
         \/ remote' = remote /\ tracking' = tracking /\ pushed' = pushed
  BY <1>0 DEF G!Push, SquashInv, G!Reported, G!goto
<1>2. step[d] \in {"push", "retry"}
  BY DEF G!Push
<1>3. GitTypeInv'
  BY <1>0, <1>1 DEF GitTypeInv
<1>4. CountsInv'
  BY <1>0, <1>1 DEF GitTypeInv, CountsInv, AtMostOnce
<1>5. TreesInv'
  <2>1. /\ step'[d] \in {"squash", "idle", "pull"}
        /\ \A e \in Clone : e # d => step'[e] = step[e]
    BY <1>0, <1>1 DEF GitTypeInv
  <2> QED BY <1>0, <1>1, <1>2, <2>1 DEF TreesInv, G!Files
<1>6. SquashInv'
  <2>1. \A e \in Clone : e # d => (Covers(e)' <=> Covers(e))
    BY <1>0, <1>1 DEF Covers, G!Files, GitTypeInv
  <2>2. Covers(d) => Covers(d)'
    BY <1>0, <1>1 DEF Covers, G!Files, GitTypeInv
  <2>3. /\ step'[d] \in {"squash", "idle", "pull"} /\ (step'[d] = "squash" => d \in rewrite)
        /\ \A e \in Clone : e # d => step'[e] = step[e]
    BY <1>0, <1>1 DEF GitTypeInv
  <2> QED BY <1>0, <1>1, <1>2, <2>1, <2>2, <2>3 DEF SquashInv
<1>7. G!PushedIsKept'
  <2>1. CASE G!FastForward(d) /\ remote' = head[d] /\ pushed' = pushed \cup G!Files(head[d])
    <3>1. ASSUME NEW f \in File \ pruned, f \in G!Files(remote) PROVE f \in G!Files(head[d])
      <4>1. /\ remote \in G!Commit /\ head[d] \in G!Commit
            /\ AtMostOnce(remote) /\ AtMostOnce(head[d])
        BY <1>0 DEF GitTypeInv, CountsInv
      <4>2. remote.turns[f] = 1 /\ head[d].turns[f] \in {0, 1}
        BY <3>1, <4>1, FilesAre
      <4>3. remote.turns[f] <= head[d].turns[f]
        BY <2>1 DEF G!FastForward, G!Ancestor
      <4> QED BY <4>1, <4>2, <4>3, FilesAre
    <3>2. G!Files(remote) \subseteq File
      BY DEF G!Files
    <3>3. pushed' \ pruned' \subseteq G!Files(head[d])
      BY <1>0, <1>1, <2>1, <3>1, <3>2 DEF G!PushedIsKept
    <3> QED BY <2>1, <3>3 DEF G!PushedIsKept, G!Files
  <2>2. CASE remote' = remote /\ pushed' = pushed
    BY <1>0, <1>1, <2>2 DEF G!PushedIsKept, G!Files
  <2> QED BY <1>1, <2>1, <2>2
<1> QED BY <1>3, <1>4, <1>5, <1>6, <1>7 DEF GitInv

(* The orphan commit is made aside of the branch.                          *)
LEMMA OrphanInv ==
    ASSUME GitInv, NEW d \in Clone, G!Orphan(d)
    PROVE  GitInv'
<1>0. GitTypeInv /\ CountsInv /\ TreesInv /\ SquashInv /\ G!PushedIsKept
  BY DEF GitInv
<1>1. GitTypeInv'
  BY <1>0 DEF G!Orphan, G!goto, GitTypeInv
<1>2. CountsInv'
  BY <1>0 DEF G!Orphan, CountsInv, AtMostOnce
<1>3. TreesInv'
  BY <1>0 DEF G!Orphan, G!goto, GitTypeInv, TreesInv, G!Files
<1>4. SquashInv'
  BY <1>0 DEF G!Orphan, G!goto, GitTypeInv, SquashInv, Covers, G!Files
<1>5. G!PushedIsKept'
  BY <1>0 DEF G!Orphan, G!PushedIsKept, G!Files
<1> QED BY <1>1, <1>2, <1>3, <1>4, <1>5 DEF GitInv

(* The new history has what the tree has.                                  *)
LEMMA RenameBranchInv ==
    ASSUME GitInv, NEW d \in Clone, G!RenameBranch(d)
    PROVE  GitInv'
<1>0. GitTypeInv /\ CountsInv /\ TreesInv /\ SquashInv /\ G!PushedIsKept
  BY DEF GitInv
<1>1. PICK c : c = [root |-> roots + 1, turns |-> [f \in File |-> IF f \in tree[d] THEN 1 ELSE 0]]
  OBVIOUS
<1>2. /\ step[d] = "rename" /\ branch' = [branch EXCEPT ![d] = "main"] /\ roots' = roots + 1
      /\ head' = [head EXCEPT ![d] = c] /\ step' = [step EXCEPT ![d] = "force"]
      /\ UNCHANGED <<remote, tracking, tree, merging, pulled, rewrite, pushed, pruned>>
  BY <1>1 DEF G!RenameBranch, G!goto
<1>3. c \in G!Commit /\ AtMostOnce(c) /\ G!Files(c) = tree[d]
  <2>1. c \in G!Commit
    BY <1>0, <1>1 DEF GitTypeInv, G!Commit
  <2>2. \A f \in File : c.turns[f] = IF f \in tree[d] THEN 1 ELSE 0
    BY <1>1
  <2>3. AtMostOnce(c)
    BY <2>2 DEF AtMostOnce
  <2>4. tree[d] \subseteq File
    BY <1>0 DEF GitTypeInv
  <2> QED BY <2>1, <2>2, <2>3, <2>4 DEF G!Files
<1>4. GitTypeInv'
  BY <1>0, <1>2, <1>3 DEF GitTypeInv
<1>5. CountsInv'
  BY <1>0, <1>2, <1>3 DEF GitTypeInv, CountsInv, AtMostOnce
<1>6. TreesInv'
  <2>1. /\ head'[d] = c /\ step'[d] = "force"
        /\ \A e \in Clone : e # d => head'[e] = head[e] /\ step'[e] = step[e]
    BY <1>0, <1>2 DEF GitTypeInv
  <2> QED BY <1>0, <1>2, <1>3, <2>1 DEF TreesInv, G!Files
<1>7. SquashInv'
  <2>1. \A e \in Clone : e # d => (Covers(e)' <=> Covers(e))
    BY <1>0, <1>2 DEF Covers, G!Files, GitTypeInv
  <2>2. Covers(d)'
    <3>1. Covers(d) /\ G!Files(head[d]) \ pruned \subseteq tree[d]
      BY <1>0, <1>2 DEF SquashInv, TreesInv
    <3>2. head'[d] = c /\ tracking' = tracking /\ pruned' = pruned
      BY <1>0, <1>2 DEF GitTypeInv
    <3> QED BY <1>3, <3>1, <3>2 DEF Covers, G!Files
  <2> QED BY <1>0, <1>2, <2>1, <2>2 DEF SquashInv, GitTypeInv
<1>8. G!PushedIsKept'
  BY <1>0, <1>2 DEF G!PushedIsKept, G!Files
<1> QED BY <1>4, <1>5, <1>6, <1>7, <1>8 DEF GitInv

(* What is replaced at the remote is what the window has last seen there.  *)
LEMMA ForcePushInv ==
    ASSUME GitInv, NEW d \in Clone, G!ForcePush(d)
    PROVE  GitInv'
<1>0. GitTypeInv /\ CountsInv /\ TreesInv /\ SquashInv /\ G!PushedIsKept
  BY DEF GitInv
<1>1. /\ step[d] = "force" /\ step' = [step EXCEPT ![d] = "idle"]
      /\ UNCHANGED <<head, tree, merging, branch, pulled, rewrite, roots, pushed, pruned>>
      /\ \/ /\ remote = tracking[d] /\ remote' = head[d]
            /\ tracking' = [tracking EXCEPT ![d] = head[d]]
         \/ remote' = remote /\ tracking' = tracking
  BY DEF G!ForcePush, G!goto
<1>2. GitTypeInv'
  BY <1>0, <1>1 DEF GitTypeInv
<1>3. CountsInv'
  BY <1>0, <1>1 DEF GitTypeInv, CountsInv, AtMostOnce
<1>4. TreesInv'
  BY <1>0, <1>1 DEF GitTypeInv, TreesInv, G!Files
<1>5. SquashInv'
  <2>1. \A e \in Clone : e # d => (Covers(e)' <=> Covers(e))
    BY <1>0, <1>1 DEF Covers, G!Files, GitTypeInv
  <2> QED BY <1>0, <1>1, <2>1 DEF SquashInv, GitTypeInv
<1>6. G!PushedIsKept'
  <2>1. CASE remote = tracking[d] /\ remote' = head[d]
    <3>1. Covers(d)
      BY <1>0, <1>1 DEF SquashInv
    <3>2. pushed \ pruned \subseteq G!Files(head[d])
      BY <1>0, <2>1, <3>1 DEF G!PushedIsKept, Covers
    <3> QED BY <1>1, <2>1, <3>2 DEF G!PushedIsKept, G!Files
  <2>2. CASE remote' = remote
    BY <1>0, <1>1, <2>2 DEF G!PushedIsKept, G!Files
  <2> QED BY <1>1, <2>1, <2>2
<1> QED BY <1>2, <1>3, <1>4, <1>5, <1>6 DEF GitInv

(* A window that stops anywhere but between the adoption of a history and  *)
(* the restore leaves what the branch has in the tree.                     *)
LEMMA StopsInv ==
    ASSUME GitInv, NEW d \in Clone, G!Stops(d) \/ G!UserChecksOut(d)
    PROVE  GitInv'
<1>0. GitTypeInv /\ CountsInv /\ TreesInv /\ SquashInv /\ G!PushedIsKept
  BY DEF GitInv
<1>1. /\ step[d] \notin {"absent", "restore"} /\ step' = [step EXCEPT ![d] = "idle"]
      /\ branch' \in {branch, [branch EXCEPT ![d] = "main"]}
      /\ UNCHANGED <<remote, head, tracking, tree, merging, pulled, rewrite, roots, pushed, pruned>>
  BY <1>0 DEF G!Stops, G!UserChecksOut, G!window, G!goto, GitTypeInv
<1>2. GitTypeInv'
  BY <1>0, <1>1 DEF GitTypeInv
<1>3. CountsInv'
  BY <1>0, <1>1 DEF CountsInv, AtMostOnce
<1>4. TreesInv'
  BY <1>0, <1>1 DEF GitTypeInv, TreesInv, G!Files
<1>5. SquashInv'
  <2>1. \A e \in Clone : Covers(e)' <=> Covers(e)
    BY <1>1 DEF Covers, G!Files
  <2> QED BY <1>0, <1>1, <2>1 DEF SquashInv, GitTypeInv
<1>6. G!PushedIsKept'
  BY <1>0, <1>1 DEF G!PushedIsKept, G!Files
<1> QED BY <1>2, <1>3, <1>4, <1>5, <1>6 DEF GitInv

-----------------------------------------------------------------------------
(* The invariant, and the theorem.                                         *)

(* Nothing has been carried yet.                                           *)
LEMMA GitInitInv ==
    ASSUME G!Init
    PROVE  GitInv
<1>1. G!First \in G!Commit /\ AtMostOnce(G!First) /\ G!Files(G!First) = {}
  BY DEF G!First, G!Commit, AtMostOnce, G!Files
<1>2. GitTypeInv
  BY <1>1 DEF G!Init, GitTypeInv
<1>3. CountsInv
  BY <1>1 DEF G!Init, CountsInv
<1>4. TreesInv
  BY <1>1 DEF G!Init, TreesInv
<1>5. SquashInv
  BY <1>1 DEF G!Init, SquashInv, Covers
<1>6. G!PushedIsKept
  BY DEF G!Init, G!PushedIsKept
<1> QED BY <1>2, <1>3, <1>4, <1>5, <1>6 DEF GitInv

(* Every step keeps the invariant.                                         *)
LEMMA GitNextInv ==
    ASSUME GitInv, G!Next
    PROVE  GitInv'
<1> SUFFICES ASSUME NEW d \in Clone,
                    \/ \E f \in File : G!Publish(d, f) \/ G!Prune(d, f)
                    \/ G!Join(d) \/ G!OpenWindow(d) \/ G!Fetch(d) \/ G!Merge(d) \/ G!Reset(d) \/ G!Restore(d)
                    \/ G!StageAndCommit(d) \/ G!Recommit(d) \/ G!Push(d)
                    \/ G!Orphan(d) \/ G!RenameBranch(d) \/ G!ForcePush(d)
                    \/ G!Stops(d) \/ G!UserChecksOut(d)
             PROVE  GitInv'
  BY DEF G!Next
<1>1. CASE \E f \in File : G!Publish(d, f) \/ G!Prune(d, f)
  BY <1>1, PublishInv, PruneInv
<1>2. CASE G!Join(d) \/ G!OpenWindow(d) \/ G!Fetch(d) \/ G!Merge(d) \/ G!Reset(d) \/ G!Restore(d)
  BY <1>2, JoinInv, OpenWindowInv, FetchInv, MergeInv, ResetInv, RestoreInv
<1>3. CASE G!StageAndCommit(d) \/ G!Recommit(d)
  BY <1>3, CommitInv DEF G!StageAndCommit, G!Recommit
<1>4. CASE G!Push(d) \/ G!Orphan(d) \/ G!RenameBranch(d) \/ G!ForcePush(d)
  BY <1>4, PushInv, OrphanInv, RenameBranchInv, ForcePushInv
<1>5. CASE G!Stops(d) \/ G!UserChecksOut(d)
  BY <1>5, StopsInv
<1> QED BY <1>1, <1>2, <1>3, <1>4, <1>5

(* The other machines leave the clones alone.                              *)
LEMMA GitMoves ==
    ASSUME [MCNext]_<<part, vars, gitVars, forkVars, chatVars>>
    PROVE  [G!Next]_gitVars
BY DEF MCNext, Only

(* What the step lemmas show, of the specification.                        *)
LEMMA GitInvariance == MCSpec => []GitInv
<1>1. MCInit => GitInv
  BY GitInitInv DEF MCInit
<1>2. GitInv /\ [MCNext]_<<part, vars, gitVars, forkVars, chatVars>> => GitInv'
  <2>1. CASE G!Next
    BY <2>1, GitNextInv
  <2>2. ASSUME GitInv, UNCHANGED gitVars PROVE GitInv'
    <3>1. GitTypeInv' /\ CountsInv'
      BY <2>2 DEF gitVars, GitInv, GitTypeInv, CountsInv, AtMostOnce
    <3>2. TreesInv' /\ G!PushedIsKept'
      BY <2>2 DEF gitVars, GitInv, TreesInv, G!PushedIsKept, G!Files
    <3>3. SquashInv'
      BY <2>2 DEF gitVars, GitInv, SquashInv, Covers, G!Files
    <3> QED BY <3>1, <3>2, <3>3 DEF GitInv
  <2> QED BY <2>1, <2>2, GitMoves
<1> QED BY <1>1, <1>2, PTL DEF MCSpec

(* As long as the restore after the adoption of a rewritten history is not *)
(* cut short, a file that a window has reported as pushed stays at the     *)
(* remote until it is pruned (pullLatest, squashHistory).                  *)
THEOREM PushedStays == MCSpec => []PushedIsKept
<1>1. GitInv => PushedIsKept
  BY DEF GitInv, PushedIsKept
<1> QED BY <1>1, GitInvariance, PTL

-----------------------------------------------------------------------------
(* Histories of versions (Versions), of a resource or a chat: sn[d] are    *)
(* the versions of lg that d has accepted.                                 *)

(* The past of the version e: its parents and theirs.                      *)
PastIsOf(lg, e) ==
    /\ e.parents \subseteq e.past
    /\ \A p \in e.parents : lg[p].past \subseteq e.past
    /\ \A u \in e.past : u \in e.parents \/ \E p \in e.parents : u \in lg[p].past

Ancestry(lg) ==
    \A v \in DOMAIN lg :
        /\ PastIsOf(lg, lg[v])
        /\ \A u \in lg[v].past : u \in 1..(v - 1) /\ lg[u].past \subseteq lg[v].past

(* A device publishes later versions with later clocks.                    *)
Clocks(lg) ==
    \A v \in DOMAIN lg :
        /\ lg[v].lamport \in 1..v /\ lg[v].by \in {1, 2}
        /\ \A u \in 1..(v - 1) : lg[u].by = lg[v].by => lg[u].lamport < lg[v].lamport

Accepted(lg, sn) ==
    /\ sn \in [{1, 2} -> SUBSET (DOMAIN lg)]
    /\ \A d \in {1, 2} : \A v \in sn[d] : lg[v].past \subseteq sn[d]
    /\ \A v \in DOMAIN lg : v \in sn[lg[v].by]

History(lg, sn) == Ancestry(lg) /\ Clocks(lg) /\ Accepted(lg, sn)

Below(lg, v) == lg[v].past \cup {v}
TipsOf(lg, S) == {v \in S : \A u \in S : v \notin lg[u].past}
Newer(lg, u, v) ==
    \/ lg[u].lamport > lg[v].lamport
    \/ lg[u].lamport = lg[v].lamport /\ lg[u].by > lg[v].by

(* A set of numbers that is not empty has a least one.                     *)
LEMMA LeastIs ==
    ASSUME NEW S, S \subseteq Nat, S # {}
    PROVE  \E m \in S : \A k \in S : m <= k
<1> DEFINE D == OpToRel(<, Nat)
<1>1. IsWellFoundedOn(D, Nat)
  BY NatLessThanWellFounded
<1>2. \A y, x \in Nat : y < x => <<y, x>> \in D
  BY DEF OpToRel
<1>3. PICK x \in S : \A y \in S : ~ (<<y, x>> \in D)
  <2> HIDE DEF D
  <2> QED BY <1>1, WFMin
<1> HIDE DEF D
<1>4. \A y \in S : ~ (y < x)
  BY <1>2, <1>3
<1> QED BY <1>3, <1>4

(* A bounded one has a greatest one.                                       *)
LEMMA GreatestIs ==
    ASSUME NEW n \in Nat, NEW S, S \subseteq 0..n, S # {}
    PROVE  \E m \in S : \A k \in S : k <= m
<1>1. PICK R : R = {n - k : k \in S}
  OBVIOUS
<1>2. R \subseteq Nat /\ R # {}
  <2>1. \A k \in S : k \in 0..n /\ n - k \in Nat
    OBVIOUS
  <2> QED BY <1>1, <2>1
<1>3. PICK r \in R : \A k \in R : r <= k
  BY <1>2, LeastIs
<1>4. PICK m \in S : r = n - m
  BY <1>1, <1>3
<1>5. ASSUME NEW k \in S PROVE k <= m
  <2>1. r <= n - k
    BY <1>1, <1>3
  <2>2. k \in 0..n /\ m \in 0..n
    OBVIOUS
  <2> QED BY <1>4, <2>1, <2>2
<1> QED BY <1>5

(* A version is a tip or below one.                                        *)
LEMMA TipAbove ==
    ASSUME NEW n \in Nat, NEW lg, DOMAIN lg = 1..n, Ancestry(lg),
           NEW S \in SUBSET (1..n), NEW v \in S
    PROVE  \E t \in TipsOf(lg, S) : v \in Below(lg, t)
<1>1. PICK Up : Up = {u \in S : v \in Below(lg, u)}
  OBVIOUS
<1>2. Up \subseteq 0..n /\ v \in Up
  <2>1. Up \subseteq 1..n /\ v \in Up
    BY <1>1 DEF Below
  <2>2. \A k \in 1..n : k \in 0..n
    OBVIOUS
  <2> QED BY <2>1, <2>2
<1>3. PICK m \in Up : \A k \in Up : k <= m
  <2>1. Up # {}
    BY <1>2
  <2> QED BY <1>2, <2>1, GreatestIs
<1>4. ASSUME NEW u \in S, m \in lg[u].past PROVE FALSE
  <2>1. m \in 1..(u - 1) /\ lg[m].past \subseteq lg[u].past
    BY <1>4 DEF Ancestry
  <2>2. v \in Below(lg, u)
    BY <1>1, <1>3, <1>4, <2>1 DEF Below
  <2>3. u <= m /\ u \in 1..n
    BY <1>1, <1>3, <2>2
  <2> QED BY <2>1, <2>3
<1> QED BY <1>1, <1>3, <1>4 DEF TipsOf

(* compareTips orders any versions.                                        *)
LEMMA NewestIs ==
    ASSUME NEW n \in Nat, NEW lg, DOMAIN lg = 1..n, Clocks(lg),
           NEW T \in SUBSET (1..n), T # {}
    PROVE  \E v \in T : \A u \in T \ {v} : Newer(lg, v, u)
<1>1. PICK L : L = {lg[v].lamport : v \in T}
  OBVIOUS
<1>2. L \subseteq 0..n /\ L # {}
  <2>1. ASSUME NEW v \in T PROVE lg[v].lamport \in 0..n
    BY DEF Clocks
  <2> QED BY <1>1, <2>1
<1>3. PICK l \in L : \A k \in L : k <= l
  BY <1>2, GreatestIs
<1>4. \A v \in T : lg[v].lamport <= l /\ lg[v].lamport \in 0..n
  BY <1>1, <1>2, <1>3
<1>5. ASSUME NEW u \in T, NEW v \in T, u # v, lg[u].lamport = l, lg[v].lamport = l
      PROVE  lg[u].by # lg[v].by
  <2>1. CASE u < v
    BY <1>5, <2>1 DEF Clocks
  <2>2. CASE v < u
    BY <1>5, <2>2 DEF Clocks
  <2> QED BY <1>5, <2>1, <2>2
<1>6. PICK a \in T : lg[a].lamport = l
  BY <1>1, <1>3
<1>7. \A v \in T : lg[v].by \in {1, 2}
  BY DEF Clocks
<1>8. CASE \E b \in T : lg[b].lamport = l /\ lg[b].by = 2
  <2>1. PICK b \in T : lg[b].lamport = l /\ lg[b].by = 2
    BY <1>8
  <2>2. ASSUME NEW u \in T \ {b} PROVE Newer(lg, b, u)
    <3>1. u \in T /\ lg[u].lamport <= l /\ lg[u].lamport \in 0..n /\ l \in 0..n
      BY <1>2, <1>4
    <3>2. lg[u].lamport = l => lg[u].by = 1
      BY <1>5, <1>7, <2>1, <3>1
    <3> QED BY <2>1, <3>1, <3>2 DEF Newer
  <2> QED BY <2>2
<1>9. CASE ~ \E b \in T : lg[b].lamport = l /\ lg[b].by = 2
  <2>1. ASSUME NEW u \in T \ {a} PROVE Newer(lg, a, u)
    <3>1. u \in T /\ lg[u].lamport <= l /\ lg[u].lamport \in 0..n /\ l \in 0..n
      BY <1>2, <1>4
    <3>2. lg[u].lamport # l
      BY <1>5, <1>6, <1>7, <1>9, <3>1
    <3> QED BY <1>6, <3>1, <3>2 DEF Newer
  <2> QED BY <2>1
<1> QED BY <1>8, <1>9

(* d publishes e after what it has accepted; L are the clocks of that.     *)
Publishes(lg, sn, d, e, L, lg2, sn2) ==
    /\ e.by = d /\ e.parents \subseteq sn[d] /\ PastIsOf(lg, e)
    /\ \A l \in L : l = 0 \/ \E v \in sn[d] : l = lg[v].lamport
    /\ 0 \in L /\ \A v \in sn[d] : lg[v].lamport \in L
    /\ e.lamport = 1 + M!Max(L)
    /\ lg2 = Append(lg, e) /\ sn2 = [sn EXCEPT ![d] = @ \cup {Len(lg) + 1}]

(* What a publication makes of the history.                                *)
LEMMA PublishedIs ==
    ASSUME NEW S, NEW lg \in Seq(S), NEW sn, History(lg, sn),
           NEW d \in {1, 2}, NEW e \in S, NEW L, NEW lg2, NEW sn2,
           Publishes(lg, sn, d, e, L, lg2, sn2)
    PROVE  /\ lg2 \in Seq(S) /\ History(lg2, sn2)
           /\ Len(lg) \in Nat /\ DOMAIN lg = 1..Len(lg) /\ DOMAIN lg2 = 1..(Len(lg) + 1)
           /\ \A v \in 1..Len(lg) : lg2[v] = lg[v]
           /\ lg2[Len(lg) + 1] = e
           /\ e.past \subseteq 1..Len(lg)
<1> USE DEF Publishes
<1>1. PICK n \in Nat : n = Len(lg)
  BY LenProperties
<1>2. /\ lg2 \in Seq(S) /\ DOMAIN lg = 1..n /\ DOMAIN lg2 = 1..(n + 1)
      /\ \A v \in 1..n : lg2[v] = lg[v]
      /\ lg2[n + 1] = e
  <2>1. lg2 \in Seq(S) /\ Len(lg2) = n + 1 /\ lg2[n + 1] = e
        /\ \A v \in 1..n : lg2[v] = lg[v]
    BY <1>1, AppendProperties
  <2> QED BY <1>1, <2>1, LenProperties
<1>3. /\ sn \in [{1, 2} -> SUBSET (1..n)]
      /\ \A c \in {1, 2} : \A v \in sn[c] : lg[v].past \subseteq sn[c]
      /\ \A v \in 1..n : lg[v].by \in {1, 2} /\ v \in sn[lg[v].by]
  BY <1>2 DEF History, Accepted, Clocks
<1>4. e.past \subseteq sn[d] /\ sn[d] \subseteq 1..n
  BY <1>3 DEF PastIsOf
<1>5. Ancestry(lg2)
  <2>1. ASSUME NEW v \in 1..n
        PROVE  /\ PastIsOf(lg, lg[v])
               /\ \A u \in lg[v].past : u \in 1..(v - 1) /\ u \in 1..n /\ lg[u].past \subseteq lg[v].past
    <3>1. v \in DOMAIN lg /\ Ancestry(lg)
      BY <1>2 DEF History
    <3>2. /\ PastIsOf(lg, lg[v])
          /\ \A u \in lg[v].past : u \in 1..(v - 1) /\ lg[u].past \subseteq lg[v].past
      BY <3>1 DEF Ancestry
    <3>3. \A u \in 1..(v - 1) : u \in 1..n
      OBVIOUS
    <3> QED BY <3>2, <3>3
  <2>2. ASSUME NEW v \in 1..n
        PROVE  /\ PastIsOf(lg2, lg2[v])
               /\ \A u \in lg2[v].past : u \in 1..(v - 1) /\ lg2[u].past \subseteq lg2[v].past
    <3>1. lg2[v] = lg[v]
      BY <1>2
    <3>2. \A p \in lg[v].parents : lg2[p] = lg[p]
      BY <1>2, <2>1 DEF PastIsOf
    <3>3. \A u \in lg[v].past : u \in 1..(v - 1) /\ lg2[u] = lg[u]
      BY <1>2, <2>1
    <3>4. PICK f : f = lg[v]
      OBVIOUS
    <3>6. PastIsOf(lg, f) /\ \A p \in f.parents : lg2[p] = lg[p]
      BY <2>1, <3>2, <3>4
    <3>7. PastIsOf(lg2, f)
      BY <3>6 DEF PastIsOf
    <3>5. \A u \in lg[v].past : u \in 1..(v - 1) /\ lg2[u].past \subseteq lg[v].past
      BY <2>1, <3>3
    <3> QED BY <3>1, <3>4, <3>5, <3>7
  <2>3. /\ PastIsOf(lg2, e)
        /\ \A u \in e.past : u \in 1..n /\ lg2[u].past \subseteq e.past
    <3>1. \A p \in e.parents : p \in 1..n /\ lg2[p] = lg[p]
      BY <1>2, <1>4 DEF PastIsOf
    <3>2. ASSUME NEW u \in e.past PROVE u \in 1..n /\ lg2[u] = lg[u]
      BY <1>2, <1>4
    <3>3. ASSUME NEW u \in e.past PROVE lg[u].past \subseteq e.past
      <4>1. CASE u \in e.parents
        BY <4>1 DEF PastIsOf
      <4>2. CASE u \notin e.parents
        <5>1. PICK p \in e.parents : u \in lg[p].past
          BY <4>2 DEF PastIsOf
        <5>2. lg[u].past \subseteq lg[p].past
          BY <2>1, <3>1, <5>1
        <5> QED BY <5>1, <5>2 DEF PastIsOf
      <4> QED BY <4>1, <4>2
    <3> QED BY <3>1, <3>2, <3>3 DEF PastIsOf
  <2>4. (n + 1) - 1 = n
    OBVIOUS
  <2>5. \A v \in 1..(n + 1) : v \in 1..n \/ v = n + 1
    OBVIOUS
  <2> QED BY <1>2, <2>2, <2>3, <2>4, <2>5 DEF Ancestry
<1>6. /\ e.lamport \in 1..(n + 1)
      /\ \A v \in sn[d] : lg[v].lamport < e.lamport
  <2>2. \A v \in 1..n : lg[v].lamport \in 0..n
    BY <1>2 DEF History, Clocks
  <2>1. \A l \in L : l \in 0..n
    BY <1>4, <2>2
  <2>3. L \subseteq 0..n /\ L # {}
    <3>1. 0 \in L
      OBVIOUS
    <3> QED BY <2>1, <3>1
  <2>4. \E m \in L : \A k \in L : k <= m
    BY <2>3, GreatestIs
  <2>5. \E m \in L : \A k \in L : m >= k
    BY <2>3, <2>4
  <2>6. PICK m : m = M!Max(L)
    OBVIOUS
  <2>7. m \in L /\ \A k \in L : m >= k
    BY <2>5, <2>6 DEF M!Max
  <2>8. e.lamport = 1 + m
    BY <2>6
  <2>9. m \in 0..n
    BY <2>3, <2>7
  <2>10. ASSUME NEW v \in sn[d] PROVE lg[v].lamport < e.lamport
    <3>1. lg[v].lamport \in L
      OBVIOUS
    <3>2. lg[v].lamport \in 0..n /\ m >= lg[v].lamport
      BY <2>3, <2>7, <3>1
    <3> QED BY <2>8, <2>9, <3>2
  <2> QED BY <2>8, <2>9, <2>10
<1>7. Clocks(lg2)
  <2>1. ASSUME NEW v \in 1..n
        PROVE  /\ lg2[v].lamport \in 1..v /\ lg2[v].by \in {1, 2}
               /\ \A u \in 1..(v - 1) : lg2[u].by = lg2[v].by => lg2[u].lamport < lg2[v].lamport
    <3>1. /\ lg[v].lamport \in 1..v /\ lg[v].by \in {1, 2}
          /\ \A u \in 1..(v - 1) : lg[u].by = lg[v].by => lg[u].lamport < lg[v].lamport
      BY <1>2 DEF History, Clocks
    <3>2. \A u \in 1..(v - 1) : lg2[u] = lg[u]
      BY <1>2
    <3> QED BY <1>2, <3>1, <3>2
  <2>2. ASSUME NEW u \in 1..n, lg2[u].by = d PROVE lg2[u].lamport < e.lamport
    <3>1. u \in sn[d] /\ lg2[u] = lg[u]
      BY <1>2, <1>3, <2>2
    <3> QED BY <1>6, <3>1
  <2>3. (n + 1) - 1 = n /\ \A v \in 1..(n + 1) : v \in 1..n \/ v = n + 1
    OBVIOUS
  <2>4. /\ e.lamport \in 1..(n + 1) /\ e.by \in {1, 2}
        /\ \A u \in 1..n : lg2[u].by = e.by => lg2[u].lamport < e.lamport
    BY <1>6, <2>2
  <2>5. ASSUME NEW v \in 1..(n + 1)
        PROVE  /\ lg2[v].lamport \in 1..v /\ lg2[v].by \in {1, 2}
               /\ \A u \in 1..(v - 1) : lg2[u].by = lg2[v].by => lg2[u].lamport < lg2[v].lamport
    <3>1. CASE v \in 1..n
      BY <2>1, <3>1
    <3>2. CASE v = n + 1
      <4>1. lg2[v] = e /\ 1..(v - 1) = 1..n
        BY <1>2, <2>3, <3>2
      <4> QED BY <2>4, <3>2, <4>1
    <3> QED BY <2>3, <3>1, <3>2
  <2> QED BY <1>2, <2>5 DEF Clocks
<1>8. Accepted(lg2, sn2)
  <2>1. /\ sn2 \in [{1, 2} -> SUBSET (1..(n + 1))]
        /\ sn2[d] = sn[d] \cup {n + 1}
        /\ \A c \in {1, 2} \ {d} : sn2[c] = sn[c]
    BY <1>1, <1>3
  <2>2. ASSUME NEW c \in {1, 2}, NEW v \in sn2[c] PROVE lg2[v].past \subseteq sn2[c]
    <3>1. CASE v \in sn[c]
      <4>1. v \in 1..n
        BY <1>3, <3>1
      <4>2. lg2[v] = lg[v] /\ lg[v].past \subseteq sn[c]
        BY <1>2, <1>3, <3>1, <4>1
      <4> QED BY <2>1, <4>2
    <3>2. CASE v \notin sn[c]
      <4>1. c = d /\ v = n + 1
        BY <2>1, <3>2
      <4> QED BY <1>2, <1>4, <2>1, <4>1
    <3> QED BY <3>1, <3>2
  <2>3. ASSUME NEW v \in 1..(n + 1) PROVE v \in sn2[lg2[v].by]
    <3>1. CASE v \in 1..n
      <4>1. lg2[v] = lg[v] /\ lg[v].by \in {1, 2} /\ v \in sn[lg[v].by]
        BY <1>2, <1>3, <3>1
      <4> QED BY <2>1, <4>1
    <3>2. CASE v \notin 1..n
      <4>1. v = n + 1
        BY <3>2
      <4> QED BY <1>2, <2>1, <4>1
    <3> QED BY <3>1, <3>2
  <2> QED BY <1>2, <2>1, <2>2, <2>3 DEF Accepted
<1>9. e.past \subseteq 1..n
  BY <1>4
<1> QED BY <1>1, <1>2, <1>5, <1>7, <1>8, <1>9 DEF History

(* A version is accepted after its parents.                                *)
LEMMA AcceptedIs ==
    ASSUME NEW n \in Nat, NEW lg, DOMAIN lg = 1..n, NEW sn, History(lg, sn),
           NEW d \in {1, 2}, NEW v \in DOMAIN lg, lg[v].parents \subseteq sn[d],
           NEW sn2, sn2 = [sn EXCEPT ![d] = @ \cup {v}]
    PROVE  History(lg, sn2)
<1>1. /\ sn \in [{1, 2} -> SUBSET (1..n)]
      /\ \A c \in {1, 2} : \A u \in sn[c] : lg[u].past \subseteq sn[c]
      /\ \A u \in 1..n : lg[u].by \in {1, 2} /\ u \in sn[lg[u].by]
  BY DEF History, Accepted, Clocks
<1>2. lg[v].past \subseteq sn[d]
  <2>1. PastIsOf(lg, lg[v])
    BY DEF History, Ancestry
  <2> QED BY <1>1, <2>1 DEF PastIsOf
<1>3. /\ sn2 \in [{1, 2} -> SUBSET (1..n)]
      /\ sn2[d] = sn[d] \cup {v} /\ \A c \in {1, 2} \ {d} : sn2[c] = sn[c]
  BY <1>1
<1>4. \A c \in {1, 2} : sn[c] \subseteq sn2[c]
  BY <1>3
<1>5. ASSUME NEW c \in {1, 2}, NEW u \in sn2[c] PROVE lg[u].past \subseteq sn2[c]
  <2>1. u \in sn[c] \/ (c = d /\ u = v)
    BY <1>3
  <2> QED BY <1>1, <1>2, <1>4, <2>1
<1>6. \A u \in 1..n : u \in sn2[lg[u].by]
  BY <1>1, <1>4
<1> QED BY <1>3, <1>5, <1>6 DEF History, Accepted
-----------------------------------------------------------------------------
(* ContentMerge: an automatic merge, a scan and a write keep what nobody   *)
(* replaced.                                                               *)
(*                                                                         *)
(* The argument: a version has, under every key, whatever any version it   *)
(* supersedes had and that is not gone (KeptInv).  A three-way merge keeps *)
(* this because its base is below both tips, so that an entry equal to the *)
(* base's holds nothing the other side lacks.  A scan keeps it because     *)
(* Cursor has what the projection (ProjectionInv) and the device's own     *)
(* scans (OwnInv) had, and these are the parents of what it publishes, for *)
(* a merge of its own is not superseded before it is written.              *)

ForkContent == [op : {"put", "delete"}, rows : [Key -> SUBSET Nat]]
ForkVersion ==
    [by : {1, 2}, content : ForkContent, how : {"scan", "merge"},
     parents : SUBSET Nat, past : SUBSET Nat, lamport : Nat]

(* e has all of c that is not in g.                                        *)
Keeps(c, e, g) == \A k \in Key : c.rows[k] \subseteq e.rows[k] \cup g

ForkTypeInv ==
    /\ kind \in Kind /\ edits \in Nat
    /\ log \in Seq(ForkVersion)
    /\ here \in [{1, 2} -> ForkContent]
    /\ at \in [{1, 2} -> [v : Nat, content : ForkContent \cup {None}]]

KeptInv ==
    \A v \in DOMAIN log :
        \A u \in log[v].past : Keeps(log[u].content, log[v].content, gone)

ProjectionInv ==
    \A d \in {1, 2} :
        \/ at[d].v = 0 /\ at[d].content = None
        \/ /\ at[d].v \in seen[d] /\ at[d].content = log[at[d].v].content
           /\ Keeps(at[d].content, here[d], gone)

OwnInv ==
    \A v \in DOMAIN log :
        log[v].how = "scan" => Keeps(log[v].content, here[log[v].by], gone)

ForkInv ==
    ForkTypeInv /\ History(log, seen) /\ KeptInv /\ ProjectionInv /\ OwnInv

(* What is kept in a version that is kept in another is kept there.        *)
LEMMA KeepsIsTransitive ==
    ASSUME NEW a, NEW b, NEW c, NEW g, NEW h, g \subseteq h,
           Keeps(a, b, g), Keeps(b, c, h)
    PROVE  Keeps(a, c, h)
BY DEF Keeps

(* One entry, merged with a base that both have.                           *)
LEMMA EntryMerged ==
    ASSUME ForkAssumption, kind \in Kind,
           NEW b \in SUBSET Nat, NEW p \in SUBSET Nat, NEW q \in SUBSET Nat,
           NEW g, b \subseteq p \cup g, b \subseteq q \cup g,
           NEW m, m = M!ThreeWay(b, p, q), m # None
    PROVE  m \in SUBSET Nat /\ p \subseteq m \cup g /\ q \subseteq m \cup g
<1>1. kind \in {"rows", "notes", "state", "json", "text", "targets"}
  BY DEF ForkAssumption
<1>2. ASSUME m = M!MergedRow(b, p, q)
      PROVE  m \in SUBSET Nat /\ p \subseteq m \cup g /\ q \subseteq m \cup g
  <2>1. \/ (p = q \/ q = b) /\ m = p
        \/ p = b /\ m = q
    BY <1>2 DEF M!MergedRow
  <2> QED BY <2>1
<1>3. CASE kind = "notes"
  <2>1. m = M!MergedNote(b, p, q)
    BY <1>3 DEF M!ThreeWay
  <2>2. \/ p = b /\ m = q
        \/ q = b /\ m = p
        \/ p = {} /\ m = q
        \/ q = {} /\ m = p
        \/ m = M!Elected(p, q)
    BY <2>1 DEF M!MergedNote
  <2>3. m = M!Elected(p, q) => (q \subseteq p /\ m = p) \/ (p \subseteq q /\ m = q)
    BY DEF M!Elected
  <2> QED BY <2>2, <2>3
<1>4. CASE kind = "targets"
  BY <1>4 DEF M!ThreeWay, M!Folders
<1>5. CASE kind \in {"rows", "state", "json", "text"}
  <2>1. m = M!MergedRow(b, p, q)
    BY <1>5 DEF M!ThreeWay, M!MergedValue, M!MergedProperty, M!MergedRegion
  <2> QED BY <1>2, <2>1
<1> QED BY <1>1, <1>3, <1>4, <1>5

(* One entry, merged without a base.                                       *)
LEMMA EntryUnited ==
    ASSUME kind \in {"rows", "notes", "targets"},
           NEW p \in SUBSET Nat, NEW q \in SUBSET Nat,
           NEW m, m = M!United(p, q), m # None
    PROVE  m \in SUBSET Nat /\ (kind # "rows" => p \subseteq m /\ q \subseteq m)
<1>1. CASE kind = "rows"
  BY <1>1 DEF M!United, M!UnitedRow
<1>2. CASE kind = "notes"
  <2>1. \/ p = {} /\ m = q
        \/ q = {} /\ m = p
        \/ m = M!Elected(p, q)
    BY <1>2 DEF M!United, M!UnitedNote
  <2>2. m = M!Elected(p, q) => (q \subseteq p /\ m = p) \/ (p \subseteq q /\ m = q)
    BY DEF M!Elected
  <2> QED BY <2>1, <2>2
<1>3. CASE kind = "targets"
  BY <1>3 DEF M!United, M!Folders
<1> QED BY <1>1, <1>2, <1>3

(* A content put together of entries.                                      *)
LEMMA WholeIs ==
    ASSUME NEW rows \in [Key -> (SUBSET Nat) \cup {None}], NEW c, c = M!Whole(rows), c # None
    PROVE  /\ c \in ForkContent /\ c.rows = rows
           /\ \A k \in Key : rows[k] # None
<1>1. \A k \in Key : rows[k] # None
  BY DEF M!Whole
<1>2. c = [op |-> "put", rows |-> rows]
  BY <1>1 DEF M!Whole, M!Put
<1>3. rows \in [Key -> SUBSET Nat]
  BY <1>1
<1> QED BY <1>1, <1>2, <1>3 DEF ForkContent

(* Two tips are the newest and the other one.                              *)
LEMMA TwoTips ==
    ASSUME NEW n \in Nat, NEW T \in SUBSET (1..n), Cardinality(T) = 2, NEW a \in T
    PROVE  (CHOOSE v \in T : v # a) \in T /\ T = {a, CHOOSE v \in T : v # a}
<1>1. IsFiniteSet(T)
  BY FS_Interval, FS_Subset, 1 \in Int, n \in Int
<1>2. IsFiniteSet(T \ {a}) /\ Cardinality(T \ {a}) = 1
  BY <1>1, FS_RemoveElement
<1>3. PICK b : T \ {a} = {b}
  BY <1>2, FS_Singleton
<1>4. b \in T /\ b # a /\ T = {a, b}
  BY <1>3
<1>5. (CHOOSE v \in T : v # a) = b
  BY <1>4
<1> QED BY <1>4, <1>5

(* The newest of some versions is one of them.                             *)
LEMMA NewestOf ==
    ASSUME NEW n \in Nat, DOMAIN log = 1..n, Clocks(log), NEW T \in SUBSET (1..n), T # {}
    PROVE  M!Newest(T) \in T
<1>1. \E v \in T : \A u \in T \ {v} : Newer(log, v, u)
  BY NewestIs
<1>2. \A u, v : M!Before(u, v) <=> Newer(log, u, v)
  BY DEF M!Before, Newer
<1>3. \E v \in T : \A u \in T \ {v} : M!Before(v, u)
  BY <1>1, <1>2
<1> QED BY <1>3 DEF M!Newest
(* What autoMergeConflicts publishes has all that its tips have, but for   *)
(* what may lose.                                                          *)
LEMMA ResolutionKeeps ==
    ASSUME ForkAssumption, ForkInv, NEW d \in {1, 2},
           NEW T, T = M!Tips(seen[d]), M!Conflict(T),
           NEW c, c = M!Resolution(T), c # None
    PROVE  /\ c \in ForkContent
           /\ ~M!MayLose(T) => \A t \in T : Keeps(log[t].content, c, gone)
<1>1. PICK n \in Nat : n = Len(log)
  BY LenProperties DEF ForkInv, ForkTypeInv
<1>2. /\ DOMAIN log = 1..n
      /\ \A v \in 1..n : log[v] \in ForkVersion
      /\ kind \in {"rows", "notes", "state", "json", "text", "targets"}
  BY <1>1, LenProperties, ElementOfSeq DEF ForkInv, ForkTypeInv, ForkAssumption
<1>3. \A v \in 1..n : log[v].content \in ForkContent /\ M!content(v) = log[v].content
  BY <1>2 DEF ForkVersion, M!content
<1>4. T \subseteq 1..n /\ T # {} /\ Clocks(log)
  BY <1>2 DEF ForkInv, History, Accepted, M!Tips, M!Conflict
<1>5. PICK a : a = M!Newest(T)
  OBVIOUS
<1>6. a \in T
  BY <1>2, <1>4, <1>5, NewestOf
<1>7. ASSUME c = M!LastWriter(T) PROVE c \in ForkContent
  <2>1. PICK puts : puts = {v \in T : M!content(v).op = "put"}
    OBVIOUS
  <2>2. PICK W : W = IF puts = {} THEN T ELSE puts
    OBVIOUS
  <2>3. M!Newest(W) \in W /\ W \subseteq T
    BY <1>2, <1>4, <2>1, <2>2, NewestOf
  <2>4. c = M!content(M!Newest(W))
    BY <1>7, <2>1, <2>2 DEF M!LastWriter
  <2> QED BY <1>3, <1>4, <2>3, <2>4
<1> M!Cardinality(T) = Cardinality(T)
  BY DEF M!Cardinality, Cardinality
<1>8. CASE kind = "state" /\ Cardinality(T) > 2
  <2>1. c = M!LastWriter(T) /\ M!MayLose(T)
    BY <1>8 DEF M!Resolution, M!MayLose
  <2> QED BY <1>7, <2>1
<1>9. CASE ~(kind = "state" /\ Cardinality(T) > 2)
  <2>1. Cardinality(T) = 2
    BY <1>9 DEF M!Resolution
  <2>2. PICK b : b = CHOOSE v \in T : v # a
    OBVIOUS
  <2>3. b \in T /\ T = {a, b}
    BY <1>4, <1>6, <2>1, <2>2, TwoTips
  <2>4. PICK p, q : p = log[a].content /\ q = log[b].content
    OBVIOUS
  <2>5. /\ p \in ForkContent /\ q \in ForkContent
        /\ p = M!content(a) /\ q = M!content(b)
    BY <1>3, <1>4, <1>6, <2>3, <2>4
  <2>6. \A k \in Key : p.rows[k] \in SUBSET Nat /\ q.rows[k] \in SUBSET Nat
    BY <2>5 DEF ForkContent
  <2>7. ASSUME NEW e, Keeps(p, e, gone), Keeps(q, e, gone)
        PROVE  \A t \in T : Keeps(log[t].content, e, gone)
    BY <2>3, <2>4, <2>7
  <2>8. CASE M!Common(T) = {}
    <3>1. c = M!BaseFree(T)
      BY <1>9, <2>1, <2>8 DEF M!Resolution
    <3>2. CASE kind = "state"
      BY <1>7, <3>1, <3>2 DEF M!BaseFree, M!MayLose
    <3>3. CASE kind # "state"
      <4>1. PICK rows : rows = [k \in Key |-> M!United(p.rows[k], q.rows[k])]
        OBVIOUS
      <4>2. c = M!Whole(rows) /\ kind \in {"rows", "notes", "targets"}
        BY <1>2, <1>5, <2>2, <2>5, <3>1, <3>3, <4>1 DEF M!BaseFree
      <4>3. \A k \in Key : rows[k] # None
        BY <4>2 DEF M!Whole
      <4>4. ASSUME NEW k \in Key
            PROVE  /\ rows[k] \in SUBSET Nat
                   /\ kind # "rows" => p.rows[k] \subseteq rows[k] /\ q.rows[k] \subseteq rows[k]
        <5>1. PICK m, x, y : x = p.rows[k] /\ y = q.rows[k] /\ m = M!United(x, y)
          OBVIOUS
        <5>2. m = rows[k] /\ m # None
          BY <4>1, <4>3, <5>1
        <5>3. x \in SUBSET Nat /\ y \in SUBSET Nat
          BY <2>6, <5>1
        <5>4. m = M!United(x, y)
          BY <5>1
        <5>5. m \in SUBSET Nat /\ (kind # "rows" => x \subseteq m /\ y \subseteq m)
          BY <4>2, <5>2, <5>3, <5>4, EntryUnited
        <5> QED BY <5>1, <5>2, <5>5
      <4>5. rows \in [Key -> (SUBSET Nat) \cup {None}]
        BY <4>1, <4>4
      <4>6. c \in ForkContent /\ c.rows = rows
        BY <4>2, <4>5, WholeIs
      <4>7. kind = "rows" => M!MayLose(T)
        BY <2>8 DEF M!MayLose
      <4>8. kind # "rows" => Keeps(p, c, gone) /\ Keeps(q, c, gone)
        BY <4>4, <4>6 DEF Keeps
      <4> QED BY <2>7, <4>6, <4>7, <4>8
    <3> QED BY <3>2, <3>3
  <2>9. CASE M!Common(T) # {}
    <3>1. PICK w : w = M!Newest(M!Common(T))
      OBVIOUS
    <3>2. w \in 1..n /\ w \in log[a].past /\ w \in log[b].past
      <4>1. M!Common(T) \subseteq 1..n
        BY <1>2 DEF M!Common
      <4>2. w \in M!Common(T)
        BY <1>2, <1>4, <2>9, <3>1, <4>1, NewestOf
      <4> QED BY <2>3, <4>1, <4>2 DEF M!Common
    <3>3. c = M!Based(T, w)
      BY <1>9, <2>1, <2>9, <3>1 DEF M!Resolution
    <3>4. PICK base : base = log[w].content
      OBVIOUS
    <3>5. base \in ForkContent /\ base = M!content(w)
      BY <1>3, <3>2, <3>4
    <3>6. Keeps(base, p, gone) /\ Keeps(base, q, gone)
      BY <1>2, <1>4, <2>3, <2>4, <3>2, <3>4 DEF ForkInv, KeptInv
    <3>7. PICK rows : rows = [k \in Key |-> M!ThreeWay(base.rows[k], p.rows[k], q.rows[k])]
      OBVIOUS
    <3>8. PICK merged : merged = M!Whole(rows)
      OBVIOUS
    <3>9. \/ q = base /\ c = p
          \/ p = base /\ c = q
          \/ c = p /\ kind = "state"
          \/ c = merged
      BY <1>5, <2>2, <2>5, <3>3, <3>5, <3>7, <3>8 DEF M!Based
    <3>10. Keeps(p, p, gone) /\ Keeps(q, q, gone)
      BY DEF Keeps
    <3>11. ASSUME c = merged PROVE c \in ForkContent /\ Keeps(p, c, gone) /\ Keeps(q, c, gone)
      <4>1. \A k \in Key : rows[k] # None
        BY <3>8, <3>11 DEF M!Whole
      <4>2. ASSUME NEW k \in Key
            PROVE  /\ rows[k] \in SUBSET Nat
                   /\ p.rows[k] \subseteq rows[k] \cup gone
                   /\ q.rows[k] \subseteq rows[k] \cup gone
        <5>1. PICK m, z, x, y : /\ z = base.rows[k] /\ x = p.rows[k] /\ y = q.rows[k]
                                /\ m = M!ThreeWay(z, x, y)
          OBVIOUS
        <5>2. m = rows[k] /\ m # None
          BY <3>7, <4>1, <5>1
        <5>3. /\ z \in SUBSET Nat /\ x \in SUBSET Nat /\ y \in SUBSET Nat
              /\ z \subseteq x \cup gone /\ z \subseteq y \cup gone
          BY <2>6, <3>5, <3>6, <5>1 DEF ForkContent, Keeps
        <5>4. kind \in Kind /\ m = M!ThreeWay(z, x, y)
          BY <5>1 DEF ForkInv, ForkTypeInv
        <5>5. m \in SUBSET Nat /\ x \subseteq m \cup gone /\ y \subseteq m \cup gone
          BY <5>2, <5>3, <5>4, EntryMerged
        <5> QED BY <5>1, <5>2, <5>5
      <4>3. rows \in [Key -> (SUBSET Nat) \cup {None}]
        BY <3>7, <4>2
      <4>4. c \in ForkContent /\ c.rows = rows
        BY <3>8, <3>11, <4>3, WholeIs
      <4> QED BY <4>2, <4>4 DEF Keeps
    <3>12. kind = "state" => M!MayLose(T)
      BY DEF M!MayLose
    <3> QED BY <2>5, <2>7, <3>6, <3>9, <3>10, <3>11, <3>12
  <2> QED BY <2>8, <2>9
<1> QED BY <1>8, <1>9

-----------------------------------------------------------------------------
(* The steps.                                                              *)

(* A version is published whose content has what its parents had.          *)
LEMMA PublishedKeeps ==
    ASSUME ForkAssumption, ForkInv, NEW d \in {1, 2}, NEW c \in ForkContent,
           NEW P \in SUBSET seen[d], NEW how \in {"scan", "merge"},
           M!publish(d, c, P, how),
           UNCHANGED <<kind, here>>, edits' \in Nat, gone \subseteq gone',
           \A p \in P : Keeps(log[p].content, c, gone'),
           how = "scan" => c = here[d],
           \/ UNCHANGED at
           \/ c = here[d] /\ at' = [at EXCEPT ![d] = [v |-> Len(log) + 1, content |-> c]]
    PROVE  ForkInv'
<1>1. PICK n \in Nat : n = Len(log)
  BY LenProperties DEF ForkInv, ForkTypeInv
<1>2. PICK e : e = [by |-> d, content |-> c, how |-> how, parents |-> P,
                    past |-> P \cup UNION {log[p].past : p \in P},
                    lamport |-> 1 + M!Max({0} \cup {log[v].lamport : v \in seen[d]})]
  OBVIOUS
<1>3. log' = Append(log, e) /\ seen' = [seen EXCEPT ![d] = @ \cup {Len(log) + 1}]
  BY <1>2 DEF M!publish
<1>4. /\ e.by = d /\ e.content = c /\ e.how = how /\ e.parents = P
      /\ PastIsOf(log, e)
      /\ e.lamport = 1 + M!Max({0} \cup {log[v].lamport : v \in seen[d]})
  <2>1. /\ e.by = d /\ e.content = c /\ e.how = how /\ e.parents = P
        /\ e.past = P \cup UNION {log[p].past : p \in P}
    BY <1>2
  <2>2. e.lamport = 1 + M!Max({0} \cup {log[v].lamport : v \in seen[d]})
    BY <1>2
  <2> QED BY <2>1, <2>2 DEF PastIsOf
<1>5. /\ DOMAIN log = 1..n
      /\ \A v \in 1..n : log[v] \in ForkVersion
      /\ seen \in [{1, 2} -> SUBSET (1..n)]
      /\ History(log, seen)
  BY <1>1, LenProperties, ElementOfSeq DEF ForkInv, ForkTypeInv, History, Accepted
<1>6. /\ log' \in Seq(ForkVersion \cup {e}) /\ History(log', seen')
      /\ DOMAIN log' = 1..(n + 1)
      /\ \A v \in 1..n : log'[v] = log[v]
      /\ log'[n + 1] = e
      /\ e.past \subseteq 1..n
  <2>1. log \in Seq(ForkVersion \cup {e})
    BY SeqMonotonic DEF ForkInv, ForkTypeInv
  <2>2. PICK S : S = ForkVersion \cup {e}
    OBVIOUS
  <2>3. log \in Seq(S) /\ e \in S
    BY <2>1, <2>2
  <2>4. PICK lg, sn, lg2, sn2 : lg = log /\ sn = seen /\ lg2 = log' /\ sn2 = seen'
    OBVIOUS
  <2>7. PICK L : L = {0} \cup {log[v].lamport : v \in seen[d]}
    OBVIOUS
  <2>8. lg \in Seq(S) /\ e \in S /\ History(lg, sn)
    BY <1>5, <2>3, <2>4
  <2>9. e.lamport = 1 + M!Max(L)
    BY <1>4, <2>7
  <2>10. /\ \A l \in L : l = 0 \/ \E v \in sn[d] : l = lg[v].lamport
         /\ 0 \in L /\ \A v \in sn[d] : lg[v].lamport \in L
    BY <2>4, <2>7
  <2>5. Publishes(lg, sn, d, e, L, lg2, sn2)
    BY <1>3, <1>4, <2>4, <2>9, <2>10 DEF Publishes
  <2>6. /\ lg2 \in Seq(S) /\ History(lg2, sn2)
        /\ DOMAIN lg2 = 1..(Len(lg) + 1)
        /\ \A v \in 1..Len(lg) : lg2[v] = lg[v]
        /\ lg2[Len(lg) + 1] = e
        /\ e.past \subseteq 1..Len(lg)
    BY <2>5, <2>8, PublishedIs
  <2> QED BY <1>1, <2>2, <2>4, <2>6
<1>7. e \in ForkVersion
  <2>1. e.lamport \in 1..(n + 1)
    BY <1>6 DEF History, Clocks
  <2>2. P \subseteq 1..n
    BY <1>5
  <2>3. e.past \subseteq 1..n
    BY <1>6
  <2>4. e = [by |-> e.by, content |-> e.content, how |-> e.how, parents |-> e.parents,
             past |-> e.past, lamport |-> e.lamport]
    BY <1>2
  <2>5. e.lamport \in Nat /\ e.parents \subseteq Nat /\ e.past \subseteq Nat
    BY <1>4, <2>1, <2>2, <2>3
  <2> QED BY <1>4, <2>4, <2>5 DEF ForkVersion
<1>8. \A v \in 1..(n + 1) : v \in 1..n \/ v = n + 1
  OBVIOUS
<1>9. ForkTypeInv'
  <2>1. log' \in Seq(ForkVersion)
    BY <1>3, <1>7, AppendProperties DEF ForkInv, ForkTypeInv
  <2>2. at' \in [{1, 2} -> [v : Nat, content : ForkContent \cup {None}]]
    BY <1>1 DEF ForkInv, ForkTypeInv
  <2> QED BY <2>1, <2>2 DEF ForkInv, ForkTypeInv
<1>10. \A a, b : Keeps(a, b, gone) => Keeps(a, b, gone')
  BY DEF Keeps
<1>11. KeptInv'
  <2>1. ASSUME NEW v \in 1..n, NEW u \in log[v].past
        PROVE  Keeps(log'[u].content, log'[v].content, gone')
    <3>1. u \in 1..n
      BY <1>5, <2>1 DEF History, Ancestry
    <3>2. Keeps(log[u].content, log[v].content, gone)
      BY <1>5, <2>1 DEF ForkInv, KeptInv
    <3> QED BY <1>6, <1>10, <3>1, <3>2
  <2>2. ASSUME NEW u \in e.past PROVE Keeps(log'[u].content, c, gone')
    <3>1. u \in 1..n /\ log'[u] = log[u]
      BY <1>6
    <3>2. CASE u \in P
      BY <3>1, <3>2
    <3>3. CASE u \notin P
      <4>1. PICK p \in P : u \in log[p].past
        BY <1>4, <3>3 DEF PastIsOf
      <4>2. p \in 1..n
        BY <1>5
      <4>3. Keeps(log[u].content, log[p].content, gone)
        BY <1>5, <4>1, <4>2 DEF ForkInv, KeptInv
      <4>4. Keeps(log[p].content, c, gone')
        OBVIOUS
      <4> QED BY <3>1, <4>3, <4>4, KeepsIsTransitive
    <3> QED BY <3>2, <3>3
  <2> QED BY <1>4, <1>6, <1>8, <2>1, <2>2 DEF KeptInv
<1>12. ProjectionInv'
  <2>1. ASSUME NEW b \in {1, 2}, at'[b] = at[b]
        PROVE  \/ at'[b].v = 0 /\ at'[b].content = None
               \/ /\ at'[b].v \in seen'[b] /\ at'[b].content = log'[at'[b].v].content
                  /\ Keeps(at'[b].content, here'[b], gone')
    <3>1. CASE at[b].v = 0 /\ at[b].content = None
      BY <2>1, <3>1
    <3>2. CASE ~(at[b].v = 0 /\ at[b].content = None)
      <4>1. /\ at[b].v \in seen[b] /\ at[b].content = log[at[b].v].content
            /\ Keeps(at[b].content, here[b], gone)
        BY <3>2 DEF ForkInv, ProjectionInv
      <4>2. seen[b] \subseteq seen'[b] /\ seen[b] \subseteq 1..n
        BY <1>3, <1>5
      <4>3. log'[at[b].v] = log[at[b].v]
        BY <1>6, <4>1, <4>2
      <4> QED BY <1>10, <2>1, <4>1, <4>2, <4>3
    <3> QED BY <3>1, <3>2
  <2>2. CASE UNCHANGED at
    BY <2>1, <2>2 DEF ProjectionInv
  <2>3. CASE c = here[d] /\ at' = [at EXCEPT ![d] = [v |-> Len(log) + 1, content |-> c]]
    <3>1. /\ \A b \in {1, 2} \ {d} : at'[b] = at[b]
          /\ at'[d] = [v |-> n + 1, content |-> c]
      BY <1>1, <2>3 DEF ForkInv, ForkTypeInv
    <3>2. n + 1 \in seen'[d] /\ log'[n + 1].content = c
      BY <1>1, <1>3, <1>4, <1>5, <1>6
    <3>3. Keeps(c, here'[d], gone')
      BY <2>3 DEF Keeps
    <3>4. at'[d].v \in seen'[d] /\ at'[d].content = log'[at'[d].v].content
          /\ Keeps(at'[d].content, here'[d], gone')
      BY <3>1, <3>2, <3>3
    <3> QED BY <2>1, <3>1, <3>4 DEF ProjectionInv
  <2> QED BY <2>2, <2>3
<1>13. OwnInv'
  <2>1. ASSUME NEW v \in 1..n, log'[v].how = "scan"
        PROVE  Keeps(log'[v].content, here'[log'[v].by], gone')
    <3>1. log'[v] = log[v]
      BY <1>6
    <3>2. Keeps(log[v].content, here[log[v].by], gone)
      BY <1>5, <2>1, <3>1 DEF ForkInv, OwnInv
    <3> QED BY <1>10, <3>1, <3>2
  <2>2. how = "scan" => Keeps(c, here'[d], gone')
    BY DEF Keeps
  <2> QED BY <1>4, <1>6, <1>8, <2>1, <2>2 DEF OwnInv
<1> QED BY <1>6, <1>9, <1>11, <1>12, <1>13 DEF ForkInv
(* What Cursor has is replaced; nothing is published.                      *)
LEMMA LocalKeeps ==
    ASSUME ForkInv, UNCHANGED <<kind, log, seen, at>>, edits' \in Nat, gone \subseteq gone',
           here' \in [{1, 2} -> ForkContent],
           \A d \in {1, 2} : Keeps(here[d], here'[d], gone')
    PROVE  ForkInv'
<1>1. \A a, b : Keeps(a, b, gone) => Keeps(a, b, gone')
  BY DEF Keeps
<1>2. ForkTypeInv' /\ History(log, seen)' /\ KeptInv'
  BY <1>1 DEF ForkInv, ForkTypeInv, KeptInv
<1>3. ASSUME NEW a, NEW d \in {1, 2}, Keeps(a, here[d], gone) PROVE Keeps(a, here'[d], gone')
  BY <1>3, KeepsIsTransitive
<1>4. ProjectionInv'
  BY <1>3 DEF ForkInv, ProjectionInv
<1>5. OwnInv'
  <2>1. \A v \in DOMAIN log : log[v].by \in {1, 2}
    BY DEF ForkInv, History, Clocks
  <2> QED BY <1>3, <2>1 DEF ForkInv, OwnInv
<1> QED BY <1>2, <1>4, <1>5 DEF ForkInv

(* What is counted as dropped is what the result lacks.                    *)
LEMMA DroppedIs ==
    ASSUME NEW T, NEW c, NEW t \in T
    PROVE  Keeps(log[t].content, c, gone \cup M!Dropped(T, c))
<1> SUFFICES ASSUME NEW k \in Key, NEW x \in log[t].content.rows[k], x \notin c.rows[k]
             PROVE  x \in M!Dropped(T, c)
  BY DEF Keeps
<1>1. x \in M!content(t).rows[k] \ c.rows[k]
  BY DEF M!content
<1>2. x \in M!Missing(M!content(t), c)
  BY <1>1 DEF M!Missing
<1> QED BY <1>2 DEF M!Dropped

(* An automatic merge publishes the resolution over every tip.             *)
LEMMA AutoMergeKeeps ==
    ASSUME ForkAssumption, ForkInv, NEW d \in {1, 2}, M!AutoMerge(d)
    PROVE  ForkInv'
<1>1. PICK T : T = M!Tips(seen[d])
  OBVIOUS
<1>2. PICK c : c = M!Resolution(T)
  OBVIOUS
<1>3. /\ M!Conflict(T) /\ c # None
      /\ M!publish(d, c, T, "merge")
      /\ gone' = gone \cup (IF M!MayLose(T) THEN M!Dropped(T, c) ELSE {})
      /\ UNCHANGED <<kind, here, at, edits>>
  BY <1>1, <1>2 DEF M!AutoMerge
<1>4. c \in ForkContent /\ (~M!MayLose(T) => \A t \in T : Keeps(log[t].content, c, gone))
  BY <1>1, <1>2, <1>3, ResolutionKeeps
<1>5. T \in SUBSET seen[d]
  BY <1>1 DEF M!Tips
<1>6. ASSUME NEW t \in T PROVE Keeps(log[t].content, c, gone')
  <2>1. CASE M!MayLose(T)
    BY <1>3, <2>1, DroppedIs
  <2>2. CASE ~M!MayLose(T)
    BY <1>3, <1>4, <2>2
  <2> QED BY <2>1, <2>2
<1>7. edits' \in Nat /\ gone \subseteq gone'
  BY <1>3 DEF ForkInv, ForkTypeInv
<1> QED BY <1>3, <1>4, <1>5, <1>6, <1>7, PublishedKeeps

(* A manual choice gives up what it does not contain, knowingly.           *)
LEMMA ChooseKeeps ==
    ASSUME ForkAssumption, ForkInv, NEW d \in {1, 2}, NEW v \in DOMAIN log, M!Choose(d, v)
    PROVE  ForkInv'
<1>1. PICK T : T = M!Tips(seen[d])
  OBVIOUS
<1>2. PICK c : c = M!content(v)
  OBVIOUS
<1>3. /\ M!publish(d, c, T, "merge") /\ edits' = edits + 1
      /\ gone' = gone \cup M!Dropped(T, c)
      /\ UNCHANGED <<kind, here, at>>
  BY <1>1, <1>2 DEF M!Choose
<1>4. c \in ForkContent
  <2>1. log[v] \in ForkVersion
    BY LenProperties, ElementOfSeq DEF ForkInv, ForkTypeInv
  <2> QED BY <1>2, <2>1 DEF ForkVersion, M!content
<1>5. T \in SUBSET seen[d]
  BY <1>1 DEF M!Tips
<1>6. \A t \in T : Keeps(log[t].content, c, gone')
  BY <1>3, DroppedIs
<1>7. edits' \in Nat /\ gone \subseteq gone'
  BY <1>3 DEF ForkInv, ForkTypeInv
<1> QED BY <1>3, <1>4, <1>5, <1>6, <1>7, PublishedKeeps

(* A scan publishes what the user wrote over what it was written on.       *)
LEMMA ScanKeeps ==
    ASSUME ForkAssumption, ForkInv, NEW d \in {1, 2}, M!Scan(d)
    PROVE  ForkInv'
<1>1. PICK T : T = M!Tips(seen[d])
  OBVIOUS
<1>2. PICK c : c = here[d]
  OBVIOUS
<1>3. PICK P : P = M!Parents(d, T, c)
  OBVIOUS
<1>4. /\ M!publish(d, c, P, "scan")
      /\ ~\E t \in T : M!Conflict(T) /\ log[t].by = d /\ log[t].how = "merge"
      /\ \/ UNCHANGED at
         \/ at' = [at EXCEPT ![d] = [v |-> Len(log) + 1, content |-> c]]
      /\ UNCHANGED <<kind, here, edits, gone>>
  BY <1>1, <1>2, <1>3 DEF M!Scan
<1>5. c \in ForkContent
  BY <1>2 DEF ForkInv, ForkTypeInv
<1>6. T \subseteq seen[d] /\ seen[d] \subseteq DOMAIN log
  BY <1>1 DEF M!Tips, ForkInv, History, Accepted
<1>7. \A v \in DOMAIN log : log[v] \in ForkVersion /\ log[v].content # None
  <2>1. \A v \in DOMAIN log : log[v] \in ForkVersion
    BY LenProperties, ElementOfSeq DEF ForkInv, ForkTypeInv
  <2>2. None \notin ForkContent
    BY DEF ForkContent, ForkAssumption
  <2> QED BY <2>1, <2>2 DEF ForkVersion
<1>8. ASSUME NEW p \in P PROVE p \in seen[d] /\ Keeps(log[p].content, c, gone)
  <2>1. \/ p \in T /\ M!content(p) = at[d].content
        \/ p = at[d].v /\ p # 0
        \/ p \in T /\ M!Conflict(T) /\ log[p].by = d
    BY <1>3 DEF M!Parents
  <2>2. CASE p \in T /\ M!content(p) = at[d].content
    <3>1. p \in DOMAIN log /\ at[d].content = log[p].content /\ at[d].content # None
      BY <1>6, <1>7, <2>2 DEF M!content
    <3>2. Keeps(at[d].content, here[d], gone)
      BY <3>1 DEF ForkInv, ProjectionInv
    <3> QED BY <1>2, <1>6, <2>2, <3>1, <3>2
  <2>3. CASE p = at[d].v /\ p # 0
    BY <1>2, <2>3 DEF ForkInv, ProjectionInv
  <2>4. CASE p \in T /\ M!Conflict(T) /\ log[p].by = d
    <3>1. log[p].how = "scan"
      BY <1>4, <1>6, <1>7, <2>4 DEF ForkVersion
    <3>2. Keeps(log[p].content, here[d], gone)
      BY <1>6, <2>4, <3>1 DEF ForkInv, OwnInv
    <3> QED BY <1>2, <1>6, <2>4, <3>2
  <2> QED BY <2>1, <2>2, <2>3, <2>4
<1>9. P \in SUBSET seen[d] /\ \A p \in P : Keeps(log[p].content, c, gone')
  BY <1>4, <1>8
<1>10. edits' \in Nat /\ gone \subseteq gone'
  BY <1>4 DEF ForkInv, ForkTypeInv
<1> QED BY <1>2, <1>4, <1>5, <1>9, <1>10, PublishedKeeps

(* A scan that finds a version recognizes it as projected.                 *)
LEMMA RecognizeKeeps ==
    ASSUME ForkInv, NEW d \in {1, 2}, M!Recognize(d)
    PROVE  ForkInv'
<1>1. PICK same : same = {t \in M!Tips(seen[d]) : M!content(t) = here[d]}
  OBVIOUS
<1>2. PICK w : w = M!Newest(same)
  OBVIOUS
<1>3. /\ same # {} /\ at' = [at EXCEPT ![d] = [v |-> w, content |-> here[d]]]
      /\ UNCHANGED <<kind, log, seen, here, edits, gone>>
  BY <1>1, <1>2 DEF M!Recognize
<1>4. PICK n \in Nat : n = Len(log)
  BY LenProperties DEF ForkInv, ForkTypeInv
<1>5. DOMAIN log = 1..n /\ seen[d] \subseteq 1..n
  BY <1>4, LenProperties DEF ForkInv, ForkTypeInv, History, Accepted
<1>6. same \in SUBSET (1..n) /\ same \subseteq seen[d]
  BY <1>1, <1>5 DEF M!Tips
<1>7. w \in same
  BY <1>2, <1>3, <1>5, <1>6, NewestOf DEF ForkInv, History
<1>8. w \in Nat /\ w \in seen[d] /\ log[w].content = here[d]
  BY <1>1, <1>6, <1>7 DEF M!content
<1>9. PICK r : r = [v |-> w, content |-> here[d]]
  OBVIOUS
<1>10. r \in [v : Nat, content : ForkContent \cup {None}]
  BY <1>8, <1>9 DEF ForkInv, ForkTypeInv
<1>11. /\ at'[d] = r /\ \A b \in {1, 2} \ {d} : at'[b] = at[b]
       /\ at' \in [{1, 2} -> [v : Nat, content : ForkContent \cup {None}]]
  BY <1>3, <1>9, <1>10 DEF ForkInv, ForkTypeInv
<1>12. ForkTypeInv' /\ History(log, seen)' /\ KeptInv' /\ OwnInv'
  BY <1>3, <1>11 DEF ForkInv, ForkTypeInv, KeptInv, OwnInv
<1>13. Keeps(here[d], here[d], gone)
  BY DEF Keeps
<1>14. ProjectionInv'
  <2>1. /\ at'[d].v \in seen'[d] /\ at'[d].content = log'[at'[d].v].content
        /\ Keeps(at'[d].content, here'[d], gone')
    BY <1>3, <1>8, <1>9, <1>11, <1>13
  <2>2. \A b \in {1, 2} \ {d} :
           \/ at'[b].v = 0 /\ at'[b].content = None
           \/ /\ at'[b].v \in seen'[b] /\ at'[b].content = log'[at'[b].v].content
              /\ Keeps(at'[b].content, here'[b], gone')
    BY <1>3, <1>11 DEF ForkInv, ProjectionInv
  <2> QED BY <2>1, <2>2 DEF ProjectionInv
<1> QED BY <1>12, <1>14 DEF ForkInv

(* A version is written back over what was published only.                 *)
LEMMA ApplyKeeps ==
    ASSUME ForkInv, NEW d \in {1, 2}, M!Apply(d)
    PROVE  ForkInv'
<1>1. PICK a : a = M!Active(d)
  OBVIOUS
<1>2. PICK c : c = M!content(a)
  OBVIOUS
<1>3. /\ a # 0 /\ at' = [at EXCEPT ![d] = [v |-> a, content |-> c]]
      /\ \/ here[d] = c /\ UNCHANGED here
         \/ here' = [here EXCEPT ![d] = M!Written(d, c)]
      /\ UNCHANGED <<kind, log, seen, edits, gone>>
  BY <1>1, <1>2 DEF M!Apply
<1>4. PICK n \in Nat : n = Len(log)
  BY LenProperties DEF ForkInv, ForkTypeInv
<1>5. /\ DOMAIN log = 1..n /\ seen[d] \in SUBSET (1..n)
      /\ \A v \in 1..n : log[v] \in ForkVersion /\ log[v].content \in ForkContent
  <2>1. DOMAIN log = 1..n /\ \A v \in 1..n : log[v] \in ForkVersion
    BY <1>4, LenProperties, ElementOfSeq DEF ForkInv, ForkTypeInv
  <2>2. seen[d] \in SUBSET (1..n)
    BY <2>1 DEF ForkInv, History, Accepted
  <2> QED BY <2>1, <2>2 DEF ForkVersion
<1>6. PICK T : T = M!Tips(seen[d])
  OBVIOUS
<1>7. T \in SUBSET (1..n) /\ T \subseteq seen[d] /\ T = TipsOf(log, seen[d])
  BY <1>5, <1>6 DEF M!Tips, TipsOf
<1>8. a \in T /\ \A t \in T : M!content(t) = M!content(a)
  <2>1. T # {} /\ ~M!Conflict(T) /\ a = M!Newest(T)
    BY <1>1, <1>3, <1>6 DEF M!Active
  <2>2. a \in T
    BY <1>5, <1>7, <2>1, NewestOf DEF ForkInv, History
  <2> QED BY <2>1, <2>2 DEF M!Conflict
<1>9. c \in ForkContent /\ c = log[a].content /\ \A t \in T : log[t].content = c
  BY <1>2, <1>5, <1>7, <1>8 DEF M!content
<1>10. here'[d] \in ForkContent /\ Keeps(c, here'[d], gone)
  <2>1. CASE here[d] = c /\ UNCHANGED here
    BY <1>9, <2>1 DEF Keeps
  <2>2. CASE here' = [here EXCEPT ![d] = M!Written(d, c)]
    <3>1. here'[d] = M!Written(d, c)
      BY <2>2 DEF ForkInv, ForkTypeInv
    <3>2. CASE kind # "rows"
      BY <1>9, <3>1, <3>2 DEF M!Written, Keeps
    <3>3. CASE kind = "rows"
      <4>1. PICK rows : rows = [k \in Key |-> IF c.rows[k] = {} THEN here[d].rows[k] ELSE c.rows[k]]
        OBVIOUS
      <4>2. here[d] \in ForkContent
        BY DEF ForkInv, ForkTypeInv
      <4>3. rows \in [Key -> SUBSET Nat]
        BY <1>9, <4>1, <4>2 DEF ForkContent
      <4>4. here'[d] = [op |-> "put", rows |-> rows]
        BY <3>1, <3>3, <4>1 DEF M!Written, M!Put
      <4>5. here'[d] \in ForkContent /\ here'[d].rows = rows
        BY <4>3, <4>4 DEF ForkContent
      <4> QED BY <4>1, <4>5 DEF Keeps
    <3> QED BY <3>2, <3>3
  <2> QED BY <1>3, <2>1, <2>2
<1>11. \A b \in {1, 2} \ {d} : here'[b] = here[b]
  BY <1>3 DEF ForkInv, ForkTypeInv
<1>12. here' \in [{1, 2} -> ForkContent]
  BY <1>3, <1>10, <1>11 DEF ForkInv, ForkTypeInv
<1>13. PICK r : r = [v |-> a, content |-> c]
  OBVIOUS
<1>14. r \in [v : Nat, content : ForkContent \cup {None}]
  BY <1>7, <1>8, <1>9, <1>13
<1>15. /\ at'[d] = r /\ \A b \in {1, 2} \ {d} : at'[b] = at[b]
       /\ at' \in [{1, 2} -> [v : Nat, content : ForkContent \cup {None}]]
  BY <1>3, <1>13, <1>14 DEF ForkInv, ForkTypeInv
<1>16. ForkTypeInv' /\ History(log, seen)' /\ KeptInv'
  BY <1>3, <1>12, <1>15 DEF ForkInv, ForkTypeInv, KeptInv
<1>17. ProjectionInv'
  <2>1. /\ at'[d].v \in seen'[d] /\ at'[d].content = log'[at'[d].v].content
        /\ Keeps(at'[d].content, here'[d], gone')
    BY <1>3, <1>7, <1>8, <1>9, <1>10, <1>13, <1>15
  <2>2. \A b \in {1, 2} \ {d} :
           \/ at'[b].v = 0 /\ at'[b].content = None
           \/ /\ at'[b].v \in seen'[b] /\ at'[b].content = log'[at'[b].v].content
              /\ Keeps(at'[b].content, here'[b], gone')
    BY <1>3, <1>11, <1>15 DEF ForkInv, ProjectionInv
  <2> QED BY <2>1, <2>2 DEF ProjectionInv
<1>18. OwnInv'
  <2>1. ASSUME NEW v \in 1..n, log[v].how = "scan", log[v].by = d
        PROVE  Keeps(log[v].content, here'[d], gone)
    <3>1. v \in seen[d] /\ Ancestry(log)
      BY <1>5, <2>1 DEF ForkInv, History, Accepted
    <3>2. PICK t \in T : v \in Below(log, t)
      BY <1>5, <1>7, <3>1, TipAbove
    <3>3. Keeps(log[v].content, c, gone)
      <4>1. log[t].content = c /\ t \in 1..n
        BY <1>7, <1>9
      <4>2. CASE v = t
        BY <4>1, <4>2 DEF Keeps
      <4>3. CASE v \in log[t].past
        BY <1>5, <4>1, <4>3 DEF ForkInv, KeptInv
      <4> QED BY <3>2, <4>2, <4>3 DEF Below
    <3> QED BY <1>10, <3>3, KeepsIsTransitive
  <2>2. ASSUME NEW v \in 1..n, log[v].how = "scan", log[v].by # d
        PROVE  Keeps(log[v].content, here'[log[v].by], gone)
    <3>1. log[v].by \in {1, 2} /\ Keeps(log[v].content, here[log[v].by], gone)
      BY <1>5, <2>2 DEF ForkInv, OwnInv, History, Clocks
    <3> QED BY <1>11, <2>2, <3>1
  <2> QED BY <1>3, <1>5, <2>1, <2>2 DEF OwnInv
<1> QED BY <1>16, <1>17, <1>18 DEF ForkInv

(* An edit replaces what its author has before him.                        *)
LEMMA EditKeeps ==
    ASSUME ForkInv, NEW d \in {1, 2}, NEW k \in Key,
           NEW how \in {"write", "append", "clear"}, M!Edit(d, k, how)
    PROVE  ForkInv'
<1>1. PICK old : old = here[d].rows[k]
  OBVIOUS
<1>2. PICK new : new = M!Edited(d, k, how)
  OBVIOUS
<1>3. PICK was : was = here[d].rows
  OBVIOUS
<1>4. PICK rows : rows = [was EXCEPT ![k] = new]
  OBVIOUS
<1>5. /\ edits' = edits + 1 /\ gone' = gone \cup (old \ new)
      /\ here' = [here EXCEPT ![d] = M!Put(rows)]
      /\ UNCHANGED <<kind, log, seen, at>>
  BY <1>1, <1>2, <1>3, <1>4 DEF M!Edit, ForkInv, ForkTypeInv
<1>6. was \in [Key -> SUBSET Nat] /\ here \in [{1, 2} -> ForkContent] /\ edits \in Nat
  BY <1>3 DEF ForkInv, ForkTypeInv, ForkContent
<1>7. new \in SUBSET Nat
  <2>1. new = {edits + 1} \/ new = here[d].rows[k] \cup {edits + 1} \/ new = {}
    BY <1>2 DEF M!Edited
  <2> QED BY <1>3, <1>6, <2>1
<1>8. PICK c : c = [op |-> "put", rows |-> rows]
  OBVIOUS
<1>9. c \in ForkContent /\ c.rows = rows /\ c = M!Put(rows)
  BY <1>4, <1>6, <1>7, <1>8 DEF ForkContent, M!Put
<1>10. here' \in [{1, 2} -> ForkContent] /\ here'[d] = c
       /\ \A b \in {1, 2} \ {d} : here'[b] = here[b]
  BY <1>5, <1>6, <1>9
<1>11. Keeps(here[d], c, gone')
  <2>1. ASSUME NEW j \in Key PROVE here[d].rows[j] \subseteq c.rows[j] \cup gone'
    <3>1. c.rows[j] = IF j = k THEN new ELSE was[j]
      BY <1>4, <1>6, <1>9
    <3> QED BY <1>1, <1>3, <1>5, <3>1
  <2> QED BY <2>1 DEF Keeps
<1>12. \A b \in {1, 2} : Keeps(here[b], here'[b], gone')
  BY <1>10, <1>11 DEF Keeps
<1>13. edits' \in Nat /\ gone \subseteq gone'
  BY <1>5, <1>6
<1> QED BY <1>5, <1>10, <1>12, <1>13, LocalKeeps

(* A deletion of the whole, likewise.                                      *)
LEMMA DeleteKeeps ==
    ASSUME ForkInv, NEW d \in {1, 2}, M!Delete(d)
    PROVE  ForkInv'
<1>1. PICK c : c = [op |-> "delete", rows |-> [k \in Key |-> {}]]
  OBVIOUS
<1>2. c \in ForkContent /\ c = M!Deleted
  <2>1. [k \in Key |-> {}] \in [Key -> SUBSET Nat]
    OBVIOUS
  <2> QED BY <1>1, <2>1 DEF ForkContent, M!Deleted, M!Empty
<1>3. /\ edits' = edits + 1 /\ gone' = gone \cup M!Ids(here[d])
      /\ here' = [here EXCEPT ![d] = c]
      /\ UNCHANGED <<kind, log, seen, at>>
  BY <1>2 DEF M!Delete
<1>4. /\ here' \in [{1, 2} -> ForkContent] /\ here'[d] = c
      /\ \A b \in {1, 2} \ {d} : here'[b] = here[b]
      /\ edits' \in Nat /\ gone \subseteq gone'
  BY <1>2, <1>3 DEF ForkInv, ForkTypeInv
<1>5. \A b \in {1, 2} : Keeps(here[b], here'[b], gone')
  BY <1>3, <1>4 DEF Keeps, M!Ids
<1> QED BY <1>3, <1>4, <1>5, LocalKeeps

(* The arrival of a version.                                               *)
LEMMA ReceiveKeeps ==
    ASSUME ForkInv, NEW d \in {1, 2}, M!Receive(d)
    PROVE  ForkInv'
<1>1. PICK v \in DOMAIN log : log[v].parents \subseteq seen[d]
                              /\ seen' = [seen EXCEPT ![d] = @ \cup {v}]
  BY DEF M!Receive, M!Accept
<1>2. UNCHANGED <<kind, log, here, at, edits, gone>>
  BY DEF M!Receive, M!Accept
<1>3. PICK n \in Nat : DOMAIN log = 1..n
  BY LenProperties DEF ForkInv, ForkTypeInv
<1>4. PICK sn2 : sn2 = seen'
  OBVIOUS
<1>5. History(log, sn2)
  BY <1>1, <1>3, <1>4, AcceptedIs DEF ForkInv
<1>6. \A b \in {1, 2} : seen[b] \subseteq seen'[b]
  BY <1>1 DEF ForkInv, History, Accepted
<1>7. ProjectionInv'
  BY <1>2, <1>6 DEF ForkInv, ProjectionInv
<1>8. ForkTypeInv' /\ KeptInv' /\ OwnInv'
  BY <1>2 DEF ForkInv, ForkTypeInv, KeptInv, OwnInv
<1> QED BY <1>2, <1>4, <1>5, <1>7, <1>8 DEF ForkInv
(* First contact, or a common version.                                     *)
LEMMA ForkInitInv ==
    ASSUME ForkAssumption, M!Init
    PROVE  ForkInv
<1>1. kind \in Kind /\ gone = {} /\ M!Device = {1, 2}
  BY DEF M!Init, M!Device
<1>2. CASE log = <<>>
  <2>1. /\ seen = [d \in {1, 2} |-> {}] /\ here = [d \in {1, 2} |-> M!Deleted]
        /\ at = [d \in {1, 2} |-> [v |-> 0, content |-> None]] /\ edits = 0
    BY <1>1, <1>2 DEF M!Init
  <2>2. PICK c : c = [op |-> "delete", rows |-> [k \in Key |-> {}]]
    OBVIOUS
  <2>3. c \in ForkContent /\ c = M!Deleted
    <3>1. [k \in Key |-> {}] \in [Key -> SUBSET Nat]
      OBVIOUS
    <3> QED BY <2>2, <3>1 DEF ForkContent, M!Deleted, M!Empty
  <2>4. log \in Seq(ForkVersion) /\ DOMAIN log = {}
    BY <1>2
  <2>5. ForkTypeInv
    BY <1>1, <2>1, <2>3, <2>4 DEF ForkTypeInv
  <2>6. History(log, seen) /\ KeptInv /\ OwnInv
    BY <2>1, <2>4 DEF History, Ancestry, Clocks, Accepted, KeptInv, OwnInv
  <2>7. ProjectionInv
    BY <2>1 DEF ProjectionInv
  <2> QED BY <2>5, <2>6, <2>7 DEF ForkInv
<1>3. CASE log # <<>>
  <2>1. PICK rows : rows = [k \in Key |-> {1}]
    OBVIOUS
  <2>2. PICK c : c = [op |-> "put", rows |-> rows]
    OBVIOUS
  <2>3. PICK e : e = [by |-> 1, content |-> c, how |-> "scan", parents |-> {},
                      past |-> {}, lamport |-> 1]
    OBVIOUS
  <2>4. /\ log = <<e>>
        /\ seen = [d \in {1, 2} |-> {1}] /\ here = [d \in {1, 2} |-> c]
        /\ at = [d \in {1, 2} |-> [v |-> 1, content |-> c]]
        /\ edits = 1
    BY <1>1, <1>3, <2>1, <2>2, <2>3 DEF M!Init, M!Put
  <2>5. c \in ForkContent
    <3>1. rows \in [Key -> SUBSET Nat]
      BY <2>1
    <3> QED BY <2>2, <3>1 DEF ForkContent
  <2>6. /\ e.by = 1 /\ e.content = c /\ e.how = "scan" /\ e.parents = {} /\ e.past = {}
        /\ e.lamport = 1 /\ e \in ForkVersion
    BY <2>3, <2>5 DEF ForkVersion
  <2>7. log \in Seq(ForkVersion) /\ DOMAIN log = 1..1 /\ log[1] = e
    BY <2>4, <2>6
  <2>8. 1..1 = {1}
    OBVIOUS
  <2>9. \A a : Keeps(a, a, gone)
    BY DEF Keeps
  <2>10. ForkTypeInv
    BY <1>1, <2>4, <2>5, <2>7 DEF ForkTypeInv
  <2>11. Ancestry(log) /\ Clocks(log)
    BY <2>6, <2>7, <2>8 DEF Ancestry, Clocks, PastIsOf
  <2>12. Accepted(log, seen)
    BY <2>4, <2>6, <2>7, <2>8 DEF Accepted
  <2>13. KeptInv /\ OwnInv
    BY <2>4, <2>6, <2>7, <2>8, <2>9 DEF KeptInv, OwnInv
  <2>14. ProjectionInv
    BY <2>4, <2>6, <2>7, <2>9 DEF ProjectionInv
  <2> QED BY <2>10, <2>11, <2>12, <2>13, <2>14 DEF History, ForkInv
<1> QED BY <1>2, <1>3

(* Each step keeps the invariant.                                          *)
LEMMA ForkNextInv ==
    ASSUME ForkAssumption, ForkInv, M!Next
    PROVE  ForkInv'
<1> SUFFICES ASSUME NEW d \in {1, 2},
                    \/ \E k \in Key, how \in {"write", "append", "clear"} : M!Edit(d, k, how)
                    \/ M!Delete(d)
                    \/ M!Receive(d) \/ M!Scan(d) \/ M!Recognize(d)
                    \/ M!AutoMerge(d) \/ M!Apply(d)
                    \/ \E v \in DOMAIN log : M!Choose(d, v)
             PROVE  ForkInv'
  BY DEF M!Next, M!Device
<1> QED BY EditKeeps, DeleteKeeps, ReceiveKeeps, ScanKeeps, RecognizeKeeps,
           AutoMergeKeeps, ApplyKeeps, ChooseKeeps

(* The other machines leave the fork alone.                                *)
LEMMA ForkMoves ==
    ASSUME [MCNext]_<<part, vars, gitVars, forkVars, chatVars>>
    PROVE  [M!Next]_forkVars
BY DEF MCNext, Only

(* So it holds throughout.                                                 *)
LEMMA ForkInvariance == MCSpec => []ForkInv
<1>1. MCInit => ForkInv
  BY ForkAssumption, ForkInitInv DEF MCInit
<1>2. ForkInv /\ [MCNext]_<<part, vars, gitVars, forkVars, chatVars>> => ForkInv'
  <2>1. ASSUME ForkInv, UNCHANGED forkVars PROVE ForkInv'
    BY <2>1 DEF forkVars, ForkInv, ForkTypeInv, KeptInv, ProjectionInv, OwnInv
  <2> QED BY <2>1, ForkAssumption, ForkNextInv, ForkMoves
<1> QED BY <1>1, <1>2, PTL DEF MCSpec

(* What a user wrote, and nobody who saw it replaced, is in a version that *)
(* no other one supersedes, or where it was written, for any number of     *)
(* versions, edits and keys: neither a merge of any kind nor a scan over a *)
(* stale projection drops it (autoMergeConflicts, parentsForLocalChange).  *)
THEOREM EntriesAreKept == MCSpec => []EntriesSurvive
<1>1. ASSUME ForkInv PROVE M!EntriesSurvive
  <2>1. PICK n \in Nat : DOMAIN log = 1..n
    BY <1>1, LenProperties DEF ForkInv, ForkTypeInv
  <2>2. PICK T : T = TipsOf(log, 1..n)
    OBVIOUS
  <2>3. T = M!Tips(DOMAIN log)
    BY <2>1, <2>2 DEF TipsOf, M!Tips
  <2>4. ASSUME NEW v \in 1..n, NEW id \in M!Ids(M!content(v)), id \notin gone
        PROVE  \E t \in T : id \in M!Ids(M!content(t))
    <3>1. PICK k \in Key : id \in log[v].content.rows[k]
      BY <2>4 DEF M!Ids, M!content
    <3>2. PICK t \in T : v \in Below(log, t)
      BY <1>1, <2>1, <2>2, TipAbove DEF ForkInv, History
    <3>3. id \in log[t].content.rows[k]
      <4>1. CASE v = t
        BY <3>1, <4>1
      <4>2. CASE v \in log[t].past
        <5>1. t \in DOMAIN log
          BY <2>1, <2>2 DEF TipsOf
        <5>2. Keeps(log[v].content, log[t].content, gone)
          BY <1>1, <4>2, <5>1 DEF ForkInv, KeptInv
        <5> QED BY <2>4, <3>1, <5>2 DEF Keeps
      <4> QED BY <3>2, <4>1, <4>2 DEF Below
    <3> QED BY <3>1, <3>3 DEF M!Ids, M!content
  <2> QED BY <2>1, <2>3, <2>4 DEF M!EntriesSurvive
<1>2. ForkInv => EntriesSurvive
  BY <1>1 DEF EntriesSurvive
<1> QED BY <1>2, ForkInvariance, PTL

-----------------------------------------------------------------------------
(* OfflineApply, as long as no setting is edited in the middle of a cycle. *)
(*                                                                         *)
(* The argument: what a cycle or the helper is about to overwrite is       *)
(* content that the log has, or the copy that is kept in spite of a        *)
(* tombstone (Safe), because a projection stands for a version of the log  *)
(* (Stands), and what the scan found neither there nor among the tips was  *)
(* published before.  In a cycle that is so for the settings that were     *)
(* scanned in time and not found edited (CycleInv); once Cursor is closed, *)
(* for what the final scan authorizes and could read (HelperInv), since a  *)
(* verified setting is in no conflict and so is not passed over (ScanInv). *)

LogVersion == [res : Resource, hash : Content \cup {Absent}, own : BOOLEAN,
               synth : BOOLEAN, parents : SUBSET Nat]

IsLog(L) ==
    /\ L \in Seq(LogVersion)
    /\ \A v \in DOMAIN L : L[v].parents \subseteq 1..(v - 1)

(* L2 has what L has, under the same names.                                *)
Grows(L, L2) ==
    /\ Len(L) \in Nat /\ Len(L2) \in Nat /\ Len(L) <= Len(L2)
    /\ DOMAIN L = 1..Len(L) /\ DOMAIN L2 = 1..Len(L2)
    /\ \A v \in 1..Len(L) : L2[v] = L[v]

Known(L, r, c) == \E v \in Of(L, r) : L[v].hash = c

(* What Cursor has for r may be overwritten.                               *)
Safe(r) == Known(versions, r, local[r]) \/ local[r] = mem.proj[r].kept

StandsFor(L, r, p) ==
    /\ p.v \in Of(L, r) /\ p.hash = L[p.v].hash
    /\ r \in Setting => p.kept = None

(* m's projections and queue speak of versions of L.                       *)
Stands(L, m) ==
    /\ \A r \in Resource : StandsFor(L, r, m.proj[r])
    /\ \A q \in m.pending : q.v \in DOMAIN L
    /\ m.seen <= Len(L)

(* Every element of a finite set is in its sequence.                       *)
LEMMA SetToSeqIs ==
    ASSUME NEW S, IsFiniteSet(S)
    PROVE  /\ SetToSeq(S) \in Seq(S)
           /\ \A x \in S : \E i \in DOMAIN SetToSeq(S) : SetToSeq(S)[i] = x
           /\ IsInjective(SetToSeq(S))
<1>1. PICK n \in Nat : n = Cardinality(S) /\ ExistsBijection(1..n, S)
  BY FS_CardinalityType
<1>2. \E f \in [1..n -> S] : IsInjective(f)
  BY <1>1 DEF ExistsBijection, Bijection, Injection
<1>3. PICK f : f = SetToSeq(S)
  OBVIOUS
<1>4. f \in [1..n -> S] /\ IsInjective(f)
  BY <1>1, <1>2, <1>3 DEF SetToSeq
<1>5. f \in Surjection(1..n, S)
  <2>1. f \in Injection(1..n, S)
    BY <1>4 DEF Injection
  <2>2. Cardinality(1..n) = n
    BY FS_Interval
  <2> QED BY <1>1, <2>1, <2>2, FS_Injection
<1> QED BY <1>3, <1>4, <1>5 DEF Surjection

(* F are the versions that W has for the resources of R.                   *)
Writes(L, R, W, F) ==
    /\ \A x \in F : \E r \in R : x = W[r]
    /\ \A r \in R : /\ W[r] \in F /\ W[r] \in LogVersion /\ W[r].res = r
                   /\ W[r].parents \subseteq DOMAIN L

(* What L2 has beyond L was written for the resources of R.                *)
Beyond(L, L2, R, W) ==
    \A v \in DOMAIN L2 : v > Len(L) => L2[v].res \in R /\ L2[v] = W[L2[v].res]

(* What is written for each resource of R becomes a version of the log.    *)
LEMMA ExtendedIs ==
    ASSUME OfflineAssumption, NEW L, IsLog(L), NEW R \in SUBSET Resource,
           NEW W, NEW F, Writes(L, R, W, F), NEW L2, L2 = L \o SetToSeq(F)
    PROVE  /\ IsLog(L2) /\ Grows(L, L2)
           /\ \A r \in R : \E v \in Of(L2, r) : v > Len(L)
           /\ Beyond(L, L2, R, W)
<1>0. /\ \A x \in F : \E r \in R : x = W[r]
      /\ \A r \in R : /\ W[r] \in F /\ W[r] \in LogVersion /\ W[r].res = r
                     /\ W[r].parents \subseteq DOMAIN L
  BY DEF Writes
<1>1. IsFiniteSet(F)
  <2>1. IsFiniteSet(R)
    BY FS_Subset DEF OfflineAssumption
  <2>2. PICK g : g = [r \in R |-> W[r]]
    OBVIOUS
  <2>3. g \in Surjection(R, F)
    BY <1>0, <2>2 DEF Surjection
  <2> QED BY <2>1, <2>3, FS_Surjection
<1>2. PICK s : s = SetToSeq(F)
  OBVIOUS
<1>3. /\ s \in Seq(LogVersion) /\ \A i \in DOMAIN s : s[i] \in F
      /\ \A x \in F : \E i \in DOMAIN s : s[i] = x
  <2>1. s \in Seq(F) /\ \A x \in F : \E i \in DOMAIN s : s[i] = x
    <3>1. /\ SetToSeq(F) \in Seq(F)
          /\ \A x \in F : \E i \in DOMAIN SetToSeq(F) : SetToSeq(F)[i] = x
      BY <1>1, SetToSeqIs
    <3> QED BY <1>2, <3>1
  <2>2. s \in [1..Len(s) -> F] /\ DOMAIN s = 1..Len(s) /\ Len(s) \in Nat
    BY <2>1, LenProperties
  <2>3. F \subseteq LogVersion
    BY <1>0
  <2> QED BY <2>1, <2>2, <2>3
<1>4. PICK n \in Nat, k \in Nat :
          /\ n = Len(L) /\ DOMAIN L = 1..n /\ k = Len(s) /\ DOMAIN s = 1..k
  BY <1>3, LenProperties DEF IsLog
<1>5. /\ L2 \in Seq(LogVersion) /\ Len(L2) = n + k /\ DOMAIN L2 = 1..(n + k)
      /\ \A v \in 1..n : L2[v] = L[v]
      /\ \A v \in 1..(n + k) : v > n => L2[v] = s[v - n]
  <2>1. PICK S : S = LogVersion
    OBVIOUS
  <2>2. L \in Seq(S) /\ s \in Seq(S) /\ L2 = L \o s
    BY <1>2, <1>3, <2>1 DEF IsLog
  <2>3. /\ L2 \in Seq(S) /\ Len(L2) = n + k
        /\ \A i \in 1..(n + k) : L2[i] = IF i <= n THEN L[i] ELSE s[i - n]
    <3>1. /\ L \o s \in Seq(S) /\ Len(L \o s) = Len(L) + Len(s)
          /\ \A i \in 1..Len(L) + Len(s) :
                 (L \o s)[i] = IF i <= Len(L) THEN L[i] ELSE s[i - Len(L)]
      BY <2>2, ConcatProperties
    <3> QED BY <1>4, <2>2, <3>1
  <2>4. DOMAIN L2 = 1..(n + k)
    BY <2>3, LenProperties
  <2>5. \A v \in 1..n : v \in 1..(n + k) /\ v <= n
    OBVIOUS
  <2>6. \A v \in 1..(n + k) : v > n => ~(v <= n)
    OBVIOUS
  <2> QED BY <2>1, <2>3, <2>4, <2>5, <2>6
<1>6. \A v \in 1..(n + k) : v > n => L2[v] \in F
  <2>1. ASSUME NEW v \in 1..(n + k), v > n PROVE L2[v] \in F
    <3>1. v - n \in 1..k
      BY <2>1
    <3>2. s[v - n] \in F
      BY <1>3, <1>4, <3>1
    <3> QED BY <1>5, <2>1, <3>2
  <2> QED BY <2>1
<1>7. \A v \in 1..(n + k) : v > n => L2[v].res \in R /\ L2[v] = W[L2[v].res]
  <2>1. \A x \in F : x.res \in R /\ x = W[x.res]
    BY <1>0
  <2> QED BY <1>6, <2>1
<1>8. IsLog(L2)
  <2>1. ASSUME NEW v \in 1..(n + k) PROVE L2[v].parents \subseteq 1..(v - 1)
    <3>1. CASE v > n
      <4>1. L2[v].parents \subseteq 1..n
        BY <1>0, <1>4, <1>7, <3>1
      <4>2. \A u \in 1..n : u \in 1..(v - 1)
        BY <3>1
      <4> QED BY <4>1, <4>2
    <3>2. CASE ~ (v > n)
      <4>1. v \in 1..n
        BY <3>2
      <4> QED BY <1>4, <1>5, <4>1 DEF IsLog
    <3> QED BY <3>1, <3>2
  <2> QED BY <1>5, <2>1 DEF IsLog
<1>9. ASSUME NEW r \in R PROVE \E v \in Of(L2, r) : v > Len(L)
  <2>1. PICK i \in 1..k : s[i] = W[r]
    BY <1>0, <1>3, <1>4
  <2>2. n + i \in 1..(n + k) /\ n + i > n /\ (n + i) - n = i
    OBVIOUS
  <2>3. L2[n + i] = W[r]
    BY <1>5, <2>1, <2>2
  <2>4. n + i \in Of(L2, r)
    BY <1>0, <1>5, <2>2, <2>3 DEF Of
  <2> QED BY <1>4, <2>2, <2>4
<1>10. Grows(L, L2)
  BY <1>4, <1>5 DEF Grows
<1>11. Beyond(L, L2, R, W)
  BY <1>4, <1>5, <1>7 DEF Beyond
<1> QED BY <1>8, <1>9, <1>10, <1>11

(* The same for one version.                                               *)
LEMMA AppendedIs ==
    ASSUME NEW L, IsLog(L), NEW e \in LogVersion, e.parents \subseteq DOMAIN L,
           NEW L2, L2 = Append(L, e)
    PROVE  /\ IsLog(L2) /\ Grows(L, L2) /\ Len(L2) = Len(L) + 1
           /\ Len(L2) \in Of(L2, e.res) /\ L2[Len(L2)] = e
<1>1. PICK n \in Nat : n = Len(L) /\ DOMAIN L = 1..n
  BY LenProperties DEF IsLog
<1>2. PICK S : S = LogVersion
  OBVIOUS
<1>3. /\ L2 \in Seq(S) /\ Len(L2) = n + 1
      /\ \A i \in 1..n : L2[i] = L[i]
      /\ L2[n + 1] = e
  BY <1>1, <1>2, AppendProperties DEF IsLog
<1>4. DOMAIN L2 = 1..(n + 1)
  BY <1>3, LenProperties
<1>5. ASSUME NEW v \in 1..(n + 1) PROVE L2[v].parents \subseteq 1..(v - 1)
  <2>1. CASE v = n + 1
    BY <1>1, <1>3, <2>1
  <2>2. CASE v \in 1..n
    BY <1>1, <1>3, <2>2 DEF IsLog
  <2>3. v = n + 1 \/ v \in 1..n
    OBVIOUS
  <2> QED BY <2>1, <2>2, <2>3
<1> QED BY <1>1, <1>2, <1>3, <1>4, <1>5 DEF IsLog, Grows, Of

(* The tips of a resource that has versions, and its active version.       *)
LEMMA ActiveIs ==
    ASSUME NEW L, IsLog(L), NEW r
    PROVE  /\ Tips(L, r) \subseteq Of(L, r) /\ Of(L, r) \subseteq DOMAIN L
           /\ Of(L, r) # {} => Tips(L, r) # {}
           /\ Of(L, r) # {} /\ ~Conflict(L, r) => Active(L, r) \in Tips(L, r)
           /\ Active(L, r) # 0 => Active(L, r) \in Tips(L, r) /\ ~Conflict(L, r)
<1>1. PICK n \in Nat : DOMAIN L = 1..n
  BY LenProperties DEF IsLog
<1>2. Tips(L, r) \subseteq Of(L, r) /\ Of(L, r) \subseteq 1..n
  BY <1>1 DEF Tips, Of
<1>3. \A k \in 1..n : k \in 0..n
  OBVIOUS
<1>4. ASSUME Of(L, r) # {} PROVE Tips(L, r) # {}
  <2>1. PICK m \in Of(L, r) : \A k \in Of(L, r) : k <= m
    BY <1>2, <1>3, <1>4, GreatestIs
  <2>2. ASSUME NEW u \in Of(L, r), m \in L[u].parents PROVE FALSE
    <3>1. m \in 1..(u - 1) /\ u \in 1..n
      BY <1>1, <1>2, <2>2 DEF IsLog
    <3> QED BY <2>1, <3>1
  <2> QED BY <2>1, <2>2 DEF Tips
<1>5. ASSUME Tips(L, r) # {}, ~Conflict(L, r) PROVE Active(L, r) \in Tips(L, r)
  <2>1. \E m \in Tips(L, r) : \A k \in Tips(L, r) : k <= m
    BY <1>2, <1>3, <1>5, GreatestIs
  <2> QED BY <1>5, <2>1 DEF Active
<1>6. Active(L, r) # 0 => Tips(L, r) # {} /\ ~Conflict(L, r)
  BY DEF Active
<1> QED BY <1>1, <1>2, <1>4, <1>5, <1>6

(* Tips with what Cursor has are versions with it.                         *)
LEMMA MatchingIs ==
    ASSUME NEW L, IsLog(L), NEW r, NEW c
    PROVE  /\ \A v \in Matching(L, r, c) : v \in Of(L, r) /\ v \in DOMAIN L /\ L[v].hash = c
           /\ Matching(L, r, c) # {} =>
                 (CHOOSE v \in Matching(L, r, c) : TRUE) \in Matching(L, r, c)
<1>1. \A v \in Matching(L, r, c) : v \in Tips(L, r) /\ L[v].hash = c
  BY DEF Matching
<1>2. Tips(L, r) \subseteq Of(L, r) /\ Of(L, r) \subseteq DOMAIN L
  BY ActiveIs
<1> QED BY <1>1, <1>2

(* A log grows, and nothing that was said of it is unsaid.                 *)
LEMMA GrowsIs ==
    ASSUME NEW L, NEW L2, Grows(L, L2)
    PROVE  /\ DOMAIN L \subseteq DOMAIN L2
           /\ \A v \in DOMAIN L : L2[v] = L[v]
           /\ \A r : Of(L, r) \subseteq Of(L2, r)
           /\ \A r, c : Known(L, r, c) => Known(L2, r, c)
           /\ \A m : m.seen \in Nat /\ Stands(L, m) => Stands(L2, m)
<1>1. DOMAIN L \subseteq DOMAIN L2 /\ \A v \in DOMAIN L : L2[v] = L[v]
  BY DEF Grows
<1>2. \A r : Of(L, r) \subseteq Of(L2, r)
  BY <1>1 DEF Of
<1>3. \A r : Of(L, r) \subseteq DOMAIN L
  BY DEF Of
<1>4. \A r, c : Known(L, r, c) => Known(L2, r, c)
  BY <1>1, <1>2, <1>3 DEF Known
<1>5. ASSUME NEW m, m.seen \in Nat, Stands(L, m) PROVE Stands(L2, m)
  <2>1. m.seen <= Len(L2)
    BY <1>5 DEF Stands, Grows
  <2>2. \A r \in Resource : StandsFor(L2, r, m.proj[r])
    BY <1>1, <1>2, <1>3, <1>5 DEF Stands, StandsFor
  <2> QED BY <1>1, <1>5, <2>1, <2>2 DEF Stands
<1> QED BY <1>1, <1>2, <1>4, <1>5

(* The part of a log that was read.                                        *)
LEMMA ReadIs ==
    ASSUME NEW L, IsLog(L), NEW L2, Grows(L, L2), NEW k \in Nat, k <= Len(L)
    PROVE  /\ SubSeq(L2, 1, k) = SubSeq(L, 1, k)
           /\ IsLog(SubSeq(L, 1, k)) /\ Grows(SubSeq(L, 1, k), L)
<1>1. PICK S : S = LogVersion
  OBVIOUS
<1>2. L \in Seq(S) /\ Len(L) \in Nat /\ DOMAIN L = 1..Len(L)
  BY <1>1, LenProperties DEF IsLog
<1>3. \A v \in 1..k : v \in 1..Len(L) /\ L[v] \in S /\ L2[v] = L[v]
  BY <1>2, ElementOfSeq DEF Grows
<1>4. PICK s : s = SubSeq(L, 1, k)
  OBVIOUS
<1>5. /\ s \in Seq(S) /\ Len(s) = k /\ \A v \in 1..k : s[v] = L[v]
  <2>1. /\ SubSeq(L, 1, k) \in Seq(S)
        /\ Len(SubSeq(L, 1, k)) = IF 1 <= k THEN k - 1 + 1 ELSE 0
    BY <1>3, SubSeqProperties
  <2>2. \A v \in 1..k : SubSeq(L, 1, k)[v] = L[v]
    BY <1>2, <1>3
  <2> QED BY <1>4, <2>1, <2>2
<1>6. DOMAIN s = 1..k
  BY <1>5, LenProperties
<1>7. SubSeq(L2, 1, k) = SubSeq(L, 1, k)
  BY <1>3
<1>8. IsLog(s)
  BY <1>1, <1>2, <1>3, <1>5, <1>6 DEF IsLog
<1>9. Grows(s, L)
  BY <1>2, <1>5, <1>6 DEF Grows
<1> QED BY <1>4, <1>7, <1>8, <1>9

Entries == [v : Nat, block : {"no", "failed", "transient"}]

(* The elements of Saved.                                                  *)
LEMMA SavedIs ==
    ASSUME NEW m \in Saved
    PROVE  /\ m = [proj |-> m.proj, pending |-> m.pending, seen |-> m.seen]
           /\ m.proj \in [Resource -> Projections] /\ m.seen \in Nat
           /\ m.pending \in SUBSET Entries
BY DEF Saved, Entries

(* A projection at a version, and one that keeps a copy.                   *)
LEMMA KeptIs ==
    ASSUME NEW L, IsLog(L), NEW r, NEW v \in Of(L, r),
           NEW k \in Content \cup {Absent, None}
    PROVE  /\ [At(L, v) EXCEPT !.kept = k] \in Projections
           /\ [At(L, v) EXCEPT !.kept = k].kept = k
           /\ r \notin Setting => StandsFor(L, r, [At(L, v) EXCEPT !.kept = k])
           /\ At(L, v) \in Projections /\ At(L, v).kept = None
           /\ StandsFor(L, r, At(L, v))
<1>1. v \in DOMAIN L /\ DOMAIN L = 1..Len(L) /\ Len(L) \in Nat
  BY LenProperties DEF Of, IsLog
<1>2. L[v] \in LogVersion
  BY <1>1, ElementOfSeq DEF IsLog
<1>3. L[v].hash \in Content \cup {Absent} /\ v \in Nat
  BY <1>1, <1>2 DEF LogVersion
<1>4. PICK h : h = L[v].hash
  OBVIOUS
<1>5. /\ At(L, v) = [v |-> v, hash |-> h, kept |-> None]
      /\ [At(L, v) EXCEPT !.kept = k] = [v |-> v, hash |-> h, kept |-> k]
  BY <1>4 DEF At
<1> QED BY <1>3, <1>4, <1>5 DEF Projections, StandsFor

(* r stands at a version of its own.                                       *)
LEMMA AtIs ==
    ASSUME NEW L, IsLog(L), NEW r, NEW v \in Of(L, r)
    PROVE  /\ At(L, v) \in Projections /\ At(L, v).kept = None
           /\ StandsFor(L, r, At(L, v))
<1>1. PICK k \in Content \cup {Absent, None} : k = None
  OBVIOUS
<1> QED BY KeptIs

(* r now stands at p.                                                      *)
LEMMA MarkIs ==
    ASSUME NEW L, NEW m \in Saved, Stands(L, m), NEW r \in Resource,
           NEW p \in Projections, StandsFor(L, r, p)
    PROVE  /\ Mark(m, r, p) \in Saved /\ Stands(L, Mark(m, r, p))
           /\ Mark(m, r, p).seen = m.seen
           /\ Mark(m, r, p).pending \subseteq m.pending
           /\ Mark(m, r, p).proj[r] = p
           /\ \A u \in Resource \ {r} : Mark(m, r, p).proj[u] = m.proj[u]
<1>1. PICK f, Q, k : m = [proj |-> f, pending |-> Q, seen |-> k]
  BY SavedIs
<1>2. m.proj = f /\ m.pending = Q /\ m.seen = k
  BY <1>1
<1>3. PICK Q2 : Q2 = {q \in Q : q.v \notin {p.v}}
  OBVIOUS
<1>4. Mark(m, r, p) = [proj |-> [f EXCEPT ![r] = p], pending |-> Q2, seen |-> k]
  <2>1. PICK m1 : m1 = [proj |-> f, pending |-> Q2, seen |-> k]
    OBVIOUS
  <2>2. Dequeue(m, {p.v}) = m1
    BY <1>1, <1>3, <2>1 DEF Dequeue
  <2>3. [m1 EXCEPT !.proj[r] = p] = [proj |-> [f EXCEPT ![r] = p], pending |-> Q2, seen |-> k]
    BY <2>1
  <2> QED BY <2>2, <2>3 DEF Mark
<1>5. f \in [Resource -> Projections] /\ k \in Nat /\ Q2 \subseteq Q
      /\ Q \in SUBSET Entries
  BY <1>2, <1>3, SavedIs
<1>6. PICK g : g = [f EXCEPT ![r] = p]
  OBVIOUS
<1>7. g \in [Resource -> Projections] /\ g[r] = p /\ \A u \in Resource \ {r} : g[u] = f[u]
  BY <1>5, <1>6
<1>8. PICK m2 : /\ m2 = Mark(m, r, p) /\ m2 = [proj |-> g, pending |-> Q2, seen |-> k]
                /\ m2.proj = g /\ m2.pending = Q2 /\ m2.seen = k
  <2>1. PICK m2 : m2 = [proj |-> g, pending |-> Q2, seen |-> k]
    OBVIOUS
  <2>2. m2.proj = g /\ m2.pending = Q2 /\ m2.seen = k
    BY <2>1
  <2>3. m2 = Mark(m, r, p)
    BY <1>4, <1>6, <2>1
  <2> QED BY <2>1, <2>2, <2>3
<1>9. m2 \in Saved
  BY <1>5, <1>7, <1>8 DEF Saved, Entries
<1>10. Stands(L, m2)
  BY <1>2, <1>5, <1>7, <1>8 DEF Stands
<1> QED BY <1>2, <1>5, <1>7, <1>8, <1>9, <1>10

-----------------------------------------------------------------------------
(* The invariant.                                                          *)

OfflineTypeInv ==
    /\ IsLog(versions) /\ local \in [Resource -> Content \cup {Absent}]
    /\ mem \in Saved /\ disk \in Saved
    /\ scan \in [Resource -> Content \cup {Absent, None}]

(* Both copies stand, and so do the tips to apply; only the helper         *)
(* verifies anything.                                                      *)
CopiesInv ==
    /\ Stands(versions, mem) /\ Stands(versions, disk)
    /\ \A r \in Resource : frozen[r] = 0 \/ frozen[r] \in Of(versions, r)
    /\ verified \subseteq DOMAIN versions
    /\ pc \in {"idle", "apply"} => verified = {}
    /\ pc = "idle" => mem = disk

(* In a cycle: settings that were scanned and not found edited.            *)
CycleInv ==
    pc = "apply" => \A r \in todo \cap Setting :
                        r \notin deferred /\ scan[r] = None => Safe(r)

(* Offline: what is verified, queued, and was read.                        *)
Scanned(v) ==
    /\ Res(v) \notin deferred /\ (pc = "scan" => Res(v) \notin todo)
    /\ \E q \in mem.pending : q.v = v

HelperInv ==
    pc \in {"scan", "settle", "page", "database", "files"} /\ cursor = "closed"
        => \A v \in verified : Scanned(v) => Safe(Res(v))

(* A verified setting that is still to be scanned is in no conflict.       *)
ScanInv ==
    pc = "scan" => \A v \in verified :
        Res(v) \in Setting \cap todo => ~Conflict(Read(mem), Res(v))

(* A page holds what may be written.                                       *)
PageInv ==
    pc \in {"database", "files"} =>
        \A v \in page : v \in verified /\ Res(v) \notin deferred
                        /\ \E q \in mem.pending : q.v = v

OfflineInv ==
    OfflineTypeInv /\ CopiesInv /\ CycleInv /\ HelperInv /\ ScanInv /\ PageInv

-----------------------------------------------------------------------------
(* The steps of the environment.                                           *)

(* A process that ends leaves what it has saved.                           *)
LEMMA RestKeeps ==
    ASSUME IsLog(versions'), local' \in [Resource -> Content \cup {Absent}],
           NEW d \in Saved, Stands(versions', d), Rest(d)
    PROVE  OfflineInv'
<1>1. /\ disk' = d /\ mem' = d /\ pc' = "idle" /\ verified' = {}
      /\ \A r \in Resource : frozen'[r] = 0
      /\ scan' \in [Resource -> Content \cup {Absent, None}]
  BY DEF Rest, Nothing, Nobody
<1>2. OfflineTypeInv' /\ CopiesInv'
  BY <1>1 DEF OfflineTypeInv, CopiesInv
<1>3. CycleInv' /\ HelperInv' /\ ScanInv' /\ PageInv'
  BY <1>1 DEF CycleInv, HelperInv, ScanInv, PageInv
<1> QED BY <1>2, <1>3 DEF OfflineInv

(* Edits, versions of other devices, Cursor opened and closed.             *)
LEMMA EnvironmentKeeps ==
    ASSUME OfflineInv, IsLog(versions'), Grows(versions, versions'),
           local' \in [Resource -> Content \cup {Absent}],
           UNCHANGED <<disk, mem, pc, frozen, todo, scan, deferred, verified, page>>,
           pc = "apply" => \A r \in Setting : local'[r] = local[r],
           cursor' = "closed" /\ pc # "idle" => cursor = "closed" /\ local' = local
    PROVE  OfflineInv'
<1>1. OfflineTypeInv'
  BY DEF OfflineInv, OfflineTypeInv
<1>2. /\ DOMAIN versions \subseteq DOMAIN versions'
      /\ \A v \in DOMAIN versions : versions'[v] = versions[v]
      /\ \A r : Of(versions, r) \subseteq Of(versions', r)
      /\ \A r, c : Known(versions, r, c) => Known(versions', r, c)
      /\ \A m : m.seen \in Nat /\ Stands(versions, m) => Stands(versions', m)
  BY GrowsIs
<1>3. CopiesInv'
  <2>1. Stands(versions', mem) /\ Stands(versions', disk)
    BY <1>2, SavedIs DEF OfflineInv, OfflineTypeInv, CopiesInv
  <2> QED BY <1>2, <2>1 DEF OfflineInv, CopiesInv
<1>4. \A v \in verified : Res(v)' = Res(v)
  BY <1>2 DEF OfflineInv, CopiesInv, Res
<1>5. CycleInv'
  BY <1>2 DEF OfflineInv, CycleInv, Safe
<1>6. HelperInv'
  BY <1>2, <1>4 DEF OfflineInv, HelperInv, Safe, Scanned
<1>7. Read(mem)' = Read(mem)
  BY ReadIs, SavedIs DEF OfflineInv, OfflineTypeInv, CopiesInv, Stands, Read
<1>8. ScanInv'
  BY <1>4, <1>7 DEF OfflineInv, ScanInv, Conflict
<1>9. PageInv'
  BY <1>4 DEF OfflineInv, PageInv
<1> QED BY <1>1, <1>3, <1>5, <1>6, <1>8, <1>9 DEF OfflineInv

(* Edits: no setting is edited in the middle of a cycle, nothing offline.  *)
LEMMA UserKeeps ==
    ASSUME OfflineInv, EditsDuringCycle = FALSE, NEW r \in Resource,
           NEW c \in Content \cup {Absent}, Edit(r, c)
    PROVE  OfflineInv'
<1>1. Grows(versions, versions') /\ IsLog(versions')
  BY LenProperties DEF OfflineInv, OfflineTypeInv, IsLog, Grows, Edit
<1>2. /\ local' = [local EXCEPT ![r] = c] /\ cursor = "open" /\ cursor' = cursor
      /\ UNCHANGED <<disk, mem, pc, frozen, todo, scan, deferred, verified, page>>
      /\ pc = "apply" => r \notin Setting
  BY DEF Edit, cycle, drain
<1>3. local' \in [Resource -> Content \cup {Absent}]
  BY <1>2 DEF OfflineInv, OfflineTypeInv
<1>4. pc = "apply" => \A u \in Setting : local'[u] = local[u]
  BY <1>2 DEF OfflineInv, OfflineTypeInv, Resource
<1> QED BY <1>1, <1>2, <1>3, <1>4, EnvironmentKeeps

(* Versions of the other devices only add to the log.                      *)
LEMMA PeerKeeps ==
    ASSUME OfflineAssumption, OfflineInv, NEW r \in Resource,
           NEW c \in Content \cup {Absent}, NEW P \in SUBSET Of(versions, r),
           PeerPublish(r, c, P)
    PROVE  OfflineInv'
<1>1. PICK x : x = Version(r, c, FALSE, P)
  OBVIOUS
<1>2. PICK e : e = [x EXCEPT !.own = FALSE] /\ versions' = Append(versions, e)
  BY <1>1 DEF PeerPublish
<1>3. P \subseteq DOMAIN versions /\ P \subseteq Nat
  BY LenProperties DEF Of, OfflineInv, OfflineTypeInv, IsLog
<1>4. e \in LogVersion /\ e.parents = P
  <2>1. x \in LogVersion /\ x.parents = P
    BY <1>1, <1>3 DEF Version, LogVersion
  <2>2. e \in LogVersion
    BY <1>2, <2>1 DEF LogVersion
  <2> QED BY <1>2, <2>1, <2>2 DEF LogVersion
<1>5. IsLog(versions') /\ Grows(versions, versions')
  BY <1>2, <1>3, <1>4, AppendedIs DEF OfflineInv, OfflineTypeInv
<1>6. /\ local' = local /\ cursor' = cursor
      /\ UNCHANGED <<disk, mem, pc, frozen, todo, scan, deferred, verified, page>>
  BY DEF PeerPublish, host, cycle, drain
<1> QED BY <1>5, <1>6, EnvironmentKeeps DEF OfflineInv, OfflineTypeInv

(* Cursor is closed only while no process holds the lock.                  *)
LEMMA CursorKeeps ==
    ASSUME OfflineInv, OpenCursor \/ \E m \in {"final", "export"} : CloseCursor(m)
    PROVE  OfflineInv'
<1>1. Grows(versions, versions') /\ IsLog(versions')
  BY LenProperties DEF OfflineInv, OfflineTypeInv, IsLog, Grows, OpenCursor, CloseCursor
<1>2. /\ local' = local
      /\ cursor' = "closed" => pc = "idle"
      /\ UNCHANGED <<disk, mem, pc, frozen, todo, scan, deferred, verified, page>>
  BY DEF OpenCursor, CloseCursor, cycle, drain
<1> QED BY <1>1, <1>2, EnvironmentKeeps DEF OfflineInv, OfflineTypeInv

(* A process ends, or dies: what it has not saved is forgotten.            *)
LEMMA EndsKeeps ==
    ASSUME OfflineInv, Ends \/ Crash
    PROVE  OfflineInv'
<1>1. Rest(disk) /\ UNCHANGED <<versions, local>>
  BY DEF Ends, Crash
<1>2. Stands(versions', disk) /\ disk \in Saved
  BY <1>1 DEF OfflineInv, OfflineTypeInv, CopiesInv
<1> QED BY <1>1, <1>2, RestKeeps DEF OfflineInv, OfflineTypeInv

(* A cycle ends and saves what it has done.                                *)
LEMMA HostSaveKeeps ==
    ASSUME OfflineInv, HostSave
    PROVE  OfflineInv'
<1>1. Rest(mem) /\ UNCHANGED <<versions, local>>
  BY DEF HostSave, host
<1>2. Stands(versions', mem) /\ mem \in Saved
  BY <1>1 DEF OfflineInv, OfflineTypeInv, CopiesInv
<1> QED BY <1>1, <1>2, RestKeeps DEF OfflineInv, OfflineTypeInv

-----------------------------------------------------------------------------
(* The host's cycle.                                                       *)

(* What a scan publishes supersedes versions of the log.                   *)
LEMMA ParentsAre ==
    ASSUME NEW L, IsLog(L), NEW L2, Grows(L, L2), NEW r, NEW p, NEW c, p.v \in DOMAIN L2
    PROVE  /\ Parents(L, r, p) \subseteq DOMAIN L2
           /\ OwnParents(L, r, p, c) \subseteq DOMAIN L2
           /\ DOMAIN L2 \subseteq Nat
<1>1. Tips(L, r) \subseteq DOMAIN L2 /\ DOMAIN L2 \subseteq Nat
  BY ActiveIs, GrowsIs DEF Grows
<1>2. Parents(L, r, p) \subseteq DOMAIN L2
  BY <1>1 DEF Parents
<1>3. OwnParents(L, r, p, c) \subseteq DOMAIN L2
  BY <1>1, <1>2 DEF OwnParents
<1> QED BY <1>1, <1>2, <1>3

(* Growth is reflexive, and transitive (GrowsFurther).                     *)
LEMMA GrowsItself ==
    ASSUME NEW L, IsLog(L)
    PROVE  Grows(L, L)
BY LenProperties DEF IsLog, Grows

(* What L2 has beyond L are merges.                                        *)
Blends(L, L2) == \A v \in DOMAIN L2 : v > Len(L) => L2[v].synth /\ L2[v].hash \in Content

(* Conflicts that are merged become versions of the log.                   *)
LEMMA MergedLogIs ==
    ASSUME OfflineAssumption, NEW L, IsLog(L), NEW N \in SUBSET Resource,
           NEW g \in [N -> Content]
    PROVE  /\ IsLog(Merged(L, N, g)) /\ Grows(L, Merged(L, N, g))
           /\ Blends(L, Merged(L, N, g))
<1>1. PICK W : W = [r \in N |-> Version(r, g[r], TRUE, Tips(L, r))]
  OBVIOUS
<1>2. PICK F : F = {Version(r, g[r], TRUE, Tips(L, r)) : r \in N}
  OBVIOUS
<1>3. /\ \A x \in F : \E r \in N : x = W[r]
      /\ \A r \in N : W[r] \in F
  BY <1>1, <1>2
<1>4. ASSUME NEW r \in N
      PROVE  /\ W[r] \in LogVersion /\ W[r].res = r /\ W[r].parents \subseteq DOMAIN L
             /\ W[r].synth /\ W[r].hash \in Content
  <2>1. Tips(L, r) \subseteq DOMAIN L /\ DOMAIN L \subseteq Nat
    BY LenProperties, ActiveIs DEF IsLog
  <2>2. W[r] = Version(r, g[r], TRUE, Tips(L, r)) /\ g[r] \in Content
    BY <1>1
  <2>3. PICK T : T = Tips(L, r) /\ T \in SUBSET Nat
    BY <2>1
  <2>4. PICK c \in Content : c = g[r]
    BY <2>2
  <2>5. /\ Version(r, c, TRUE, T) \in LogVersion
        /\ Version(r, c, TRUE, T).res = r /\ Version(r, c, TRUE, T).parents = T
        /\ Version(r, c, TRUE, T).synth /\ Version(r, c, TRUE, T).hash = c
    BY <2>3 DEF Version, LogVersion
  <2> QED BY <2>1, <2>2, <2>3, <2>4, <2>5
<1>5. PICK L2 : L2 = Merged(L, N, g)
  OBVIOUS
<1>6. L2 = L \o SetToSeq(F)
  BY <1>2, <1>5 DEF Merged
<1>7. IsLog(L2) /\ Grows(L, L2) /\ Blends(L, L2)
  <2>1. Writes(L, N, W, F)
    BY <1>3, <1>4 DEF Writes
  <2>2. IsLog(L2) /\ Grows(L, L2) /\ Beyond(L, L2, N, W)
    BY <1>6, <2>1, ExtendedIs
  <2> QED BY <1>4, <2>2 DEF Beyond, Blends
<1> QED BY <1>5, <1>7

(* Entries leave the queue.                                                *)
LEMMA DequeueIs ==
    ASSUME NEW m \in Saved, NEW V
    PROVE  \E Q \in SUBSET m.pending :
              Dequeue(m, V) = [proj |-> m.proj, pending |-> Q, seen |-> m.seen]
<1>1. PICK f, P, k : m = [proj |-> f, pending |-> P, seen |-> k]
  BY SavedIs
<1>2. m.proj = f /\ m.pending = P /\ m.seen = k
  BY <1>1
<1>3. PICK Q : Q = {q \in P : q.v \notin V}
  OBVIOUS
<1>4. Dequeue(m, V) = [proj |-> f, pending |-> Q, seen |-> k]
  BY <1>1, <1>3 DEF Dequeue
<1>5. Q \in SUBSET m.pending
  BY <1>2, <1>3
<1> QED BY <1>2, <1>4, <1>5

(* The projections of the resources of R are moved to versions of L.       *)
LEMMA MovedIs ==
    ASSUME NEW L, IsLog(L), NEW m \in Saved, Stands(L, m), NEW R, NEW to,
           \A r \in R \cap Resource : to[r] \in Of(L, r),
           NEW f, f = [r \in Resource |-> IF r \in R THEN At(L, to[r]) ELSE m.proj[r]],
           NEW m2, NEW Q \in SUBSET Entries,
           \A q \in Q : q.v \in DOMAIN L, NEW k \in Nat, k <= Len(L),
           m2 = [proj |-> f, pending |-> Q, seen |-> k]
    PROVE  /\ m2 \in Saved /\ Stands(L, m2) /\ m2.pending = Q /\ m2.seen = k
           /\ \A r \in Resource \ R : m2.proj[r] = m.proj[r]
           /\ \A r \in Resource \cap R : m2.proj[r] = At(L, to[r]) /\ m2.proj[r].kept = None
<1>2. m2.proj = f /\ m2.pending = Q /\ m2.seen = k
  OBVIOUS
<1>3. ASSUME NEW r \in Resource
      PROVE  /\ f[r] \in Projections /\ StandsFor(L, r, f[r])
             /\ r \in R => f[r] = At(L, to[r]) /\ f[r].kept = None
  <2>1. CASE r \in R
    <3>1. f[r] = At(L, to[r]) /\ to[r] \in Of(L, r)
      BY <2>1
    <3> QED BY <3>1, AtIs
  <2>2. CASE r \notin R
    <3>1. f[r] = m.proj[r]
      BY <2>2
    <3> QED BY <2>2, <3>1, SavedIs DEF Stands
  <2> QED BY <2>1, <2>2
<1>4. f \in [Resource -> Projections]
  BY <1>3
<1>5. m2 \in Saved
  BY <1>4 DEF Saved, Entries
<1>6. Stands(L, m2)
  BY <1>2, <1>3 DEF Stands
<1> QED BY <1>2, <1>3, <1>5, <1>6

(* The queue and what was read may change without the projections.         *)
LEMMA RequeuedIs ==
    ASSUME NEW L, NEW m \in Saved, Stands(L, m),
           NEW Q \in SUBSET Entries,
           \A q \in Q : q.v \in DOMAIN L, NEW k \in Nat, k <= Len(L),
           NEW f, f = m.proj, NEW m2, m2 = [proj |-> f, pending |-> Q, seen |-> k]
    PROVE  /\ m2 \in Saved /\ Stands(L, m2) /\ m2.pending = Q /\ m2.seen = k
           /\ m2.proj = m.proj
<1>1. m2.proj = m.proj /\ m2.pending = Q /\ m2.seen = k
  OBVIOUS
<1>2. m2 \in Saved
  BY SavedIs DEF Saved, Entries
<1> QED BY <1>1, <1>2 DEF Stands

(* Two steps of growth are one.                                            *)
LEMMA GrowsFurther ==
    ASSUME NEW L, NEW L1, NEW L2, Grows(L, L1), Grows(L1, L2)
    PROVE  Grows(L, L2)
<1>1. \A v \in 1..Len(L) : v \in 1..Len(L1)
  BY DEF Grows
<1> QED BY <1>1 DEF Grows

(* A projection stays, or is moved to what the computer has.               *)
Caught(p, q, c) == q = p \/ (q.hash = c /\ q.kept = None)

(* The projection is of what Cursor has.                                   *)
HasIt(r) == local[r] \in {mem.proj[r].hash, mem.proj[r].kept}

(* An edit is taken as noted where the projection says what Cursor has.    *)
Forgets == dirty' \subseteq dirty /\ \A r \in dirty \ dirty' : HasIt(r)'

(* e is what a scan with the log L and the copy m published, found edited. *)
IsEdit(e, L, m) ==
    /\ e.hash = local[e.res]
    /\ e.hash \notin {m.proj[e.res].hash, m.proj[e.res].kept}
    /\ e.parents \subseteq OwnParents(L, e.res, m.proj[e.res], e.hash)

(* A step adds to the log only such versions, and merges.                  *)
Additions(L, m) ==
    /\ Grows(versions, versions')
    /\ \A v \in DOMAIN versions' \ DOMAIN versions :
          \/ versions'[v].synth /\ versions'[v].hash \in Content
          \/ IsEdit(versions'[v], L, m)

(* A scan: what it left unnoted, and could read, is as it was projected.   *)
LEMMA HostScanKeeps ==
    ASSUME OfflineAssumption, OfflineInv, NEW late \in SUBSET Resource,
           NEW failed \in BOOLEAN, NEW N \in SUBSET Setting, NEW g \in [N -> Content],
           HostScan(late, failed, N, g)
    PROVE  /\ OfflineInv' /\ Additions(versions, disk) /\ Forgets
           /\ \A r \in Resource : Caught(disk.proj[r], mem'.proj[r], local[r])
           /\ \A r \in Resource \ late :
                 \/ scan'[r] = local[r]
                 \/ scan'[r] = None /\ local[r] \in {disk.proj[r].hash, disk.proj[r].kept}
<1> DEFINE found(r) == r \notin late /\ local[r] \notin {disk.proj[r].hash, disk.proj[r].kept}
           acked == {r \in Resource \ late :
                    /\ Matching(versions, r, local[r]) # {} /\ local[r] # disk.proj[r].kept
                    /\ IF r \in Chat THEN disk.proj[r].v \notin Matching(versions, r, local[r])
                       ELSE found(r) /\ local[r] # Absent}
           fresh == IF failed THEN {}
                 ELSE {r \in Resource :
                         /\ found(r) /\ ShouldPublish(versions, r, disk.proj[r], local[r])
                         /\ local[r] = Absent => ~Conflict(versions, r)
                         /\ Drifted(disk.proj[r], Active(versions, r), local[r])}
           own(r) == Version(r, local[r], FALSE,
                             OwnParents(versions, r, disk.proj[r], local[r]))
           published == versions \o SetToSeq({own(r) : r \in fresh})
           united == Merged(published, N, g)
           to(r) == IF r \in fresh THEN CHOOSE v \in Of(published, r) : v > Len(versions)
                    ELSE CHOOSE v \in Matching(versions, r, local[r]) : TRUE
           noted == acked \cup (fresh \cap Chat)
           m1 == [Dequeue(disk, {to(r) : r \in noted}) EXCEPT !.proj =
                    [r \in Resource |-> IF r \in noted THEN At(published, to(r))
                                        ELSE disk.proj[r]]]
<1>1. /\ versions' = united
      /\ disk' = IF noted # {} THEN m1 ELSE disk
      /\ mem' = [m1 EXCEPT !.pending = {q \in @ : q.v \in {Active(united, r) : r \in Resource}},
                           !.seen = Len(united)]
      /\ frozen' = [r \in Resource |-> Active(united, r)]
      /\ scan' = [r \in Resource |-> IF found(r) THEN local[r] ELSE None]
      /\ deferred' = late /\ todo' = Resource /\ pc' = "apply"
  BY DEF HostScan
<1>2. pc = "idle" /\ local' = local /\ verified' = verified
  BY DEF HostScan, drain
<1>3. PICK R, F, W, L1, L2, V, K, TO :
          /\ R = fresh /\ F = {own(r) : r \in fresh} /\ W = [r \in fresh |-> own(r)]
          /\ L1 = published /\ L2 = united /\ K = noted
          /\ V = {to(r) : r \in noted} /\ TO = [r \in Resource |-> to(r)]
  OBVIOUS
<1>4. /\ L1 = versions \o SetToSeq(F) /\ L2 = Merged(L1, N, g)
      /\ R \subseteq Resource /\ K \subseteq Resource
      /\ \A x \in F : \E r \in R : x = W[r]
      /\ \A r \in R : W[r] \in F /\ W[r] = own(r)
      /\ \A r \in R : local[r] \notin {disk.proj[r].hash, disk.proj[r].kept}
      /\ \A r \in K : r \in R \/ Matching(versions, r, local[r]) # {}
      /\ \A r \in K \cap R : TO[r] = CHOOSE v \in Of(L1, r) : v > Len(versions)
      /\ \A r \in K \ R : TO[r] = CHOOSE v \in Matching(versions, r, local[r]) : TRUE
  BY <1>3
<1>5. m1 = [Dequeue(disk, V) EXCEPT !.proj =
              [r \in Resource |-> IF r \in K THEN At(L1, TO[r]) ELSE disk.proj[r]]]
  <2>1. \A r \in Resource : TO[r] = to(r)
    BY <1>3
  <2>2. [r \in Resource |-> IF r \in noted THEN At(published, to(r)) ELSE disk.proj[r]]
          = [r \in Resource |-> IF r \in K THEN At(L1, TO[r]) ELSE disk.proj[r]]
    <3> HIDE DEF to, noted, published
    <3> QED BY <1>3, <2>1
  <2> QED BY <1>3, <2>2
<1>6. PICK m2 : m2 = m1
  OBVIOUS
<1>7. /\ versions' = L2 /\ disk' = IF K # {} THEN m2 ELSE disk
      /\ mem' = [m2 EXCEPT !.pending = {q \in @ : q.v \in {Active(L2, r) : r \in Resource}},
                           !.seen = Len(L2)]
      /\ frozen' = [r \in Resource |-> Active(L2, r)]
      /\ \A r \in Resource : scan'[r] = None => ~found(r) \/ local[r] = None
      /\ \A r \in Resource : scan'[r] \in {local[r], None}
      /\ dirty' = dirty \ {r \in K : local[r] \in {m2.proj[r].hash, m2.proj[r].kept}}
  <2>1. /\ \A r \in Resource : scan'[r] = None => ~found(r) \/ local[r] = None
        /\ \A r \in Resource : scan'[r] \in {local[r], None}
    <3>1. \A r \in Resource : scan'[r] = IF found(r) THEN local[r] ELSE None
      <4> HIDE DEF found
      <4> QED BY <1>1
    <3> HIDE DEF found
    <3> QED BY <3>1
  <2>2. Settles(noted, m1, local)
    BY DEF HostScan
  <2>3. dirty' = dirty \ {r \in K : local[r] \in {m2.proj[r].hash, m2.proj[r].kept}}
    <3> HIDE DEF noted, m1
    <3> QED BY <1>3, <1>6, <2>2 DEF Settles
  <2> HIDE DEF found, acked, fresh, own, published, united, to, noted, m1
  <2> QED BY <1>1, <1>3, <1>6, <2>1, <2>3
<1>8. m2 = [Dequeue(disk, V) EXCEPT !.proj =
              [r \in Resource |-> IF r \in K THEN At(L1, TO[r]) ELSE disk.proj[r]]]
  BY <1>5, <1>6
<1>9. \A r \in R : W[r] = Version(r, local[r], FALSE,
                                  OwnParents(versions, r, disk.proj[r], local[r]))
  BY <1>4
<1>10. ASSUME NEW r \in Resource, r \notin late, scan'[r] = None
       PROVE  local[r] \in {disk.proj[r].hash, disk.proj[r].kept}
  <2>1. local[r] # None
    BY DEF OfflineInv, OfflineTypeInv, OfflineAssumption
  <2> QED BY <1>7, <1>10, <2>1
<1> HIDE DEF found, acked, fresh, own, published, united, to, noted, m1
<1>11. /\ IsLog(versions) /\ disk \in Saved /\ Stands(versions, disk)
       /\ local \in [Resource -> Content \cup {Absent}] /\ verified = {}
  BY <1>2 DEF OfflineInv, OfflineTypeInv, CopiesInv
<1>12. ASSUME NEW r \in R
       PROVE  /\ W[r] \in LogVersion /\ W[r].res = r /\ W[r].parents \subseteq DOMAIN versions
              /\ W[r].hash = local[r]
              /\ W[r].parents = OwnParents(versions, r, disk.proj[r], local[r])
  <2>1. disk.proj[r].v \in DOMAIN versions
    BY <1>4, <1>11 DEF Stands, StandsFor, Of
  <2>2. PICK P : /\ P = OwnParents(versions, r, disk.proj[r], local[r])
                 /\ P \subseteq DOMAIN versions /\ P \in SUBSET Nat
    BY <1>11, <2>1, ParentsAre, GrowsItself
  <2>3. r \in Resource /\ local[r] \in Content \cup {Absent}
    BY <1>4, <1>11
  <2>4. PICK c \in Content \cup {Absent} : c = local[r]
    BY <2>3
  <2>5. W[r] = Version(r, c, FALSE, P)
    BY <1>9, <2>2, <2>4
  <2>6. /\ Version(r, c, FALSE, P) \in LogVersion
        /\ Version(r, c, FALSE, P).res = r /\ Version(r, c, FALSE, P).parents = P
        /\ Version(r, c, FALSE, P).hash = c
    BY <2>2, <2>3 DEF Version, LogVersion
  <2> QED BY <2>2, <2>4, <2>5, <2>6
<1>13. /\ IsLog(L1) /\ Grows(versions, L1) /\ Beyond(versions, L1, R, W)
       /\ \A r \in R : \E v \in Of(L1, r) : v > Len(versions)
  <2>1. Writes(versions, R, W, F)
    BY <1>4, <1>12 DEF Writes
  <2>2. R \in SUBSET Resource /\ L1 = versions \o SetToSeq(F) /\ IsLog(versions)
    BY <1>4, <1>11
  <2>3. PICK L : L = versions
    OBVIOUS
  <2>4. Writes(L, R, W, F) /\ R \in SUBSET Resource /\ L1 = L \o SetToSeq(F) /\ IsLog(L)
    BY <2>1, <2>2, <2>3
  <2>5. /\ IsLog(L1) /\ Grows(L, L1) /\ Beyond(L, L1, R, W)
        /\ \A r \in R : \E v \in Of(L1, r) : v > Len(L)
    BY <2>4, ExtendedIs
  <2> QED BY <2>3, <2>5
<1>14. IsLog(L2) /\ Grows(L1, L2) /\ Grows(versions, L2) /\ Blends(L1, L2)
  <2>1. N \subseteq Resource
    BY DEF Resource
  <2> QED BY <1>4, <1>13, <2>1, MergedLogIs, GrowsFurther
<1>15. ASSUME NEW r \in K PROVE TO[r] \in Of(L1, r)
  <2>1. CASE r \in R
    BY <1>4, <1>13, <2>1
  <2>2. CASE r \notin R
    <3>1. TO[r] \in Matching(versions, r, local[r])
      <4>1. /\ TO[r] = CHOOSE v \in Matching(versions, r, local[r]) : TRUE
            /\ Matching(versions, r, local[r]) # {}
        BY <1>4, <2>2
      <4> QED BY <1>11, <4>1, MatchingIs
    <3>2. TO[r] \in Of(versions, r)
      BY <1>11, <3>1, MatchingIs
    <3> QED BY <1>13, <3>2, GrowsIs
  <2> QED BY <2>1, <2>2
<1>16. PICK Q, k, f :
           /\ Q \in SUBSET disk.pending /\ k \in Nat /\ k <= Len(L1)
           /\ f = [r \in Resource |-> IF r \in K THEN At(L1, TO[r]) ELSE disk.proj[r]]
           /\ m2 = [proj |-> f, pending |-> Q, seen |-> k]
  <2>1. PICK Q \in SUBSET disk.pending :
            Dequeue(disk, V) = [proj |-> disk.proj, pending |-> Q, seen |-> disk.seen]
    BY <1>11, DequeueIs
  <2>2. PICK k : k = disk.seen /\ k \in Nat /\ k <= Len(L1)
    BY <1>11, <1>13, SavedIs DEF Stands, Grows
  <2>3. PICK f : f = [r \in Resource |-> IF r \in K THEN At(L1, TO[r]) ELSE disk.proj[r]]
    OBVIOUS
  <2>4. PICK x : x = disk.proj
    OBVIOUS
  <2>5. m2 = [[proj |-> x, pending |-> Q, seen |-> k] EXCEPT !.proj = f]
    BY <1>8, <2>1, <2>2, <2>3, <2>4
  <2>6. m2 = [proj |-> f, pending |-> Q, seen |-> k]
    BY <2>5
  <2> QED BY <2>2, <2>3, <2>6
<1>17. /\ m2 \in Saved /\ Stands(L1, m2) /\ m2.pending = Q
       /\ \A r \in Resource \ K : m2.proj[r] = disk.proj[r]
       /\ \A r \in Resource \cap K : m2.proj[r] = At(L1, TO[r]) /\ m2.proj[r].kept = None
  <2>1. Stands(L1, disk)
    BY <1>11, <1>13, GrowsIs, SavedIs
  <2>2. /\ Q \in SUBSET Entries
        /\ \A q \in Q : q.v \in DOMAIN L1
    BY <1>11, <1>16, <2>1, SavedIs DEF Stands
  <2>3. \A r \in K \cap Resource : TO[r] \in Of(L1, r)
    BY <1>15
  <2>4. PICK m : m = disk
    OBVIOUS
  <2>5. /\ m \in Saved /\ Stands(L1, m)
        /\ f = [r \in Resource |-> IF r \in K THEN At(L1, TO[r]) ELSE m.proj[r]]
        /\ m2 = [proj |-> f, pending |-> Q, seen |-> k] /\ k \in Nat /\ k <= Len(L1)
    BY <1>11, <1>16, <2>1, <2>4
  <2>6. /\ m2 \in Saved /\ Stands(L1, m2) /\ m2.pending = Q
        /\ \A r \in Resource \ K : m2.proj[r] = m.proj[r]
        /\ \A r \in Resource \cap K : m2.proj[r] = At(L1, TO[r]) /\ m2.proj[r].kept = None
    BY <1>13, <2>2, <2>3, <2>5, MovedIs
  <2> QED BY <2>4, <2>6
<1>18. Stands(L2, m2)
  BY <1>14, <1>17, GrowsIs, SavedIs
<1>19. mem' \in Saved /\ Stands(L2, mem') /\ mem'.proj = m2.proj
  <2>1. PICK P : P = {q \in m2.pending : q.v \in {Active(L2, r) : r \in Resource}}
    OBVIOUS
  <2>2. mem' = [proj |-> m2.proj, pending |-> P, seen |-> Len(L2)]
    <3>1. m2 = [proj |-> m2.proj, pending |-> m2.pending, seen |-> m2.seen]
      BY <1>17, SavedIs
    <3> QED BY <1>7, <2>1, <3>1
  <2>3. /\ P \in SUBSET Entries
        /\ \A q \in P : q.v \in DOMAIN L2
    BY <1>17, <1>18, <2>1, SavedIs DEF Stands
  <2>4. PICK n : n = Len(L2) /\ n \in Nat /\ n <= Len(L2)
    BY <1>14 DEF Grows
  <2>5. PICK m3, p : /\ m3 = mem' /\ p = m2.proj
                     /\ m3 = [proj |-> p, pending |-> P, seen |-> n]
    BY <2>2, <2>4
  <2>6. m3 \in Saved /\ Stands(L2, m3) /\ m3.proj = m2.proj
    BY <1>17, <1>18, <2>3, <2>4, <2>5, RequeuedIs
  <2> QED BY <2>5, <2>6
<1>20. disk' \in Saved /\ Stands(L2, disk')
  BY <1>7, <1>11, <1>14, <1>17, <1>18, GrowsIs, SavedIs
<1>a. scan' \in [Resource -> Content \cup {Absent, None}]
  BY <1>1, <1>11
<1>21. OfflineTypeInv'
  BY <1>a, <1>2, <1>7, <1>11, <1>14, <1>19, <1>20 DEF OfflineTypeInv
<1>22. CopiesInv'
  <2>1. \A r \in Resource : frozen'[r] = 0 \/ frozen'[r] \in Of(L2, r)
    BY <1>7, <1>14, ActiveIs
  <2> QED BY <1>1, <1>2, <1>7, <1>11, <1>19, <1>20, <2>1 DEF CopiesInv
<1>23. CycleInv'
  <2>1. ASSUME NEW r \in Setting, r \notin late, scan'[r] = None
        PROVE  Known(L2, r, local[r]) \/ local[r] = mem'.proj[r].kept
    <3>1. r \in Resource
      BY DEF Resource
    <3>2. CASE local[r] = disk.proj[r].hash
      <4>1. Known(versions, r, local[r])
        BY <1>11, <3>1, <3>2 DEF Stands, StandsFor, Known
      <4> QED BY <1>14, <4>1, GrowsIs
    <3>3. CASE local[r] = disk.proj[r].kept
      BY <1>11, <2>1, <3>1, <3>3 DEF Stands, StandsFor, OfflineAssumption
    <3> QED BY <1>10, <2>1, <3>1, <3>2, <3>3
  <2> QED BY <1>1, <1>2, <1>7, <2>1 DEF CycleInv, Safe
<1>24. HelperInv' /\ ScanInv' /\ PageInv'
  BY <1>1 DEF HelperInv, ScanInv, PageInv
<1>25. Additions(versions, disk)
  <2>1. ASSUME NEW v \in DOMAIN L2 \ DOMAIN versions
        PROVE  (L2[v].synth /\ L2[v].hash \in Content) \/ IsEdit(L2[v], versions, disk)
    <3>1. CASE v \in DOMAIN L1
      <4>1. v > Len(versions) /\ L2[v] = L1[v]
        BY <1>13, <1>14, <2>1, <3>1 DEF Grows
      <4>2. PICK r \in R : L2[v] = W[r]
        BY <1>13, <3>1, <4>1 DEF Beyond
      <4> QED BY <1>4, <1>12, <4>2 DEF IsEdit
    <3>2. CASE v \notin DOMAIN L1
      <4>1. v > Len(L1)
        BY <1>14, <2>1, <3>2 DEF Grows
      <4> QED BY <1>14, <2>1, <4>1 DEF Blends
    <3> QED BY <3>1, <3>2
  <2> QED BY <1>7, <1>14, <2>1 DEF Additions
<1>26. ASSUME NEW r \in Resource PROVE Caught(disk.proj[r], mem'.proj[r], local[r])
  <2>1. CASE r \in K
    <3>1. mem'.proj[r] = At(L1, TO[r]) /\ mem'.proj[r].kept = None
      BY <1>17, <1>19, <2>1
    <3>2. CASE r \in R
      <4>1. TO[r] \in Of(L1, r) /\ TO[r] > Len(versions)
        BY <1>4, <1>13, <2>1, <3>2
      <4>2. L1[TO[r]] = W[r]
        BY <1>13, <4>1 DEF Beyond, Of
      <4>3. L1[TO[r]].hash = local[r]
        BY <1>12, <3>2, <4>2
      <4> QED BY <3>1, <4>3 DEF At, Caught
    <3>3. CASE r \notin R
      <4>1. TO[r] \in Matching(versions, r, local[r])
        <5>1. /\ TO[r] = CHOOSE v \in Matching(versions, r, local[r]) : TRUE
              /\ Matching(versions, r, local[r]) # {}
          BY <1>4, <2>1, <3>3
        <5> QED BY <1>11, <5>1, MatchingIs
      <4>2. TO[r] \in DOMAIN versions /\ versions[TO[r]].hash = local[r]
        BY <1>11, <4>1, MatchingIs
      <4>3. L1[TO[r]].hash = local[r]
        BY <1>13, <4>2, GrowsIs
      <4> QED BY <3>1, <4>3 DEF At, Caught
    <3> QED BY <3>2, <3>3
  <2>2. CASE r \notin K
    BY <1>17, <1>19, <2>2 DEF Caught
  <2> QED BY <2>1, <2>2
<1>27. Forgets
  BY <1>2, <1>7, <1>19 DEF Forgets, HasIt
<1>28. ASSUME NEW r \in Resource \ late
       PROVE  \/ scan'[r] = local[r]
              \/ scan'[r] = None /\ local[r] \in {disk.proj[r].hash, disk.proj[r].kept}
  BY <1>7, <1>10
<1> QED BY <1>21, <1>22, <1>23, <1>24, <1>25, <1>26, <1>27, <1>28 DEF OfflineInv

(* What a step writes over content in Cursor.                              *)
Overwrites == \A r \in Resource : local'[r] # local[r] => Safe(r)

(* An incoming version is queued for later.                                *)
LEMMA QueueIs ==
    ASSUME NEW L, NEW m \in Saved, Stands(L, m), NEW v \in Nat, v \in DOMAIN L
    PROVE  /\ Queue(m, v) \in Saved /\ Stands(L, Queue(m, v))
           /\ Queue(m, v).proj = m.proj
<1>1. PICK f, P, k : /\ m = [proj |-> f, pending |-> P, seen |-> k]
                     /\ m.proj = f /\ m.pending = P /\ m.seen = k
                     /\ k \in Nat /\ P \in SUBSET Entries /\ k <= Len(L)
                     /\ \A q \in P : q.v \in DOMAIN L
  BY SavedIs DEF Stands
<1>2. PICK Q : Q = {q \in P : q.v # v \/ q.block # "no"}
                     \cup (IF \E q \in P : q.v = v /\ q.block # "no" THEN {}
                           ELSE {Entry(v, "no")})
  OBVIOUS
<1>3. Entry(v, "no") \in Entries /\ Entry(v, "no").v = v
  BY DEF Entry, Entries
<1>4. Q \in SUBSET Entries /\ \A q \in Q : q.v \in DOMAIN L
  BY <1>1, <1>2, <1>3
<1>5. PICK m2 : m2 = Queue(m, v)
  OBVIOUS
<1>6. m2 = [proj |-> f, pending |-> Q, seen |-> k]
  BY <1>1, <1>2, <1>5 DEF Queue
<1>7. m2 \in Saved /\ Stands(L, m2) /\ m2.proj = m.proj
  BY <1>1, <1>4, <1>6, RequeuedIs
<1> QED BY <1>5, <1>7

(* Each resource, by itself.                                               *)
LEMMA HostApplyKeeps ==
    ASSUME OfflineAssumption, OfflineInv, NEW r \in Resource, NEW ok \in BOOLEAN,
           HostApply(r, ok)
    PROVE  /\ OfflineInv' /\ Overwrites
           /\ \A u \in Resource \ {r} :
                 mem'.proj[u] = mem.proj[u] /\ local'[u] = local[u]
<1>1. /\ pc = "apply" /\ r \in todo /\ todo' = todo \ {r}
      /\ UNCHANGED <<versions, disk, pc, frozen, scan, deferred, verified, page>>
  BY DEF HostApply, Next1, drain
<1>2. PICK v : v = frozen[r]
  OBVIOUS
<1>3. \/ mem' = mem /\ local' = local
      \/ v # 0 /\ mem' = Queue(mem, v) /\ local' = local
      \/ v # 0 /\ mem' = Mark(mem, r, At(versions, v)) /\ local' = local
      \/ /\ v # 0 /\ r \in Chat /\ local' = local
         /\ mem' = Mark(mem, r, [At(versions, v) EXCEPT !.kept = Kept(r)])
      \/ /\ v # 0 /\ MayWrite(r) /\ mem' = Mark(mem, r, At(versions, v))
         /\ local' = [local EXCEPT ![r] = versions[v].hash]
  <2>1. CASE ~Changed(mem.proj[r], v)
    BY <1>2, <2>1 DEF HostApply
  <2>2. CASE Changed(mem.proj[r], v)
    <3>1. v # 0
      BY <2>2 DEF Changed
    <3>2. CASE (versions[v].own /\ ~versions[v].synth) \/ scan[r] = versions[v].hash
      BY <1>2, <2>2, <3>1, <3>2 DEF HostApply
    <3>3. CASE ~((versions[v].own /\ ~versions[v].synth) \/ scan[r] = versions[v].hash)
      BY <1>2, <2>2, <3>1, <3>3 DEF HostApply
    <3> QED BY <3>2, <3>3
  <2> QED BY <2>1, <2>2
<1>4. /\ IsLog(versions) /\ local \in [Resource -> Content \cup {Absent}]
      /\ mem \in Saved /\ disk \in Saved /\ Stands(versions, mem) /\ Stands(versions, disk)
      /\ scan \in [Resource -> Content \cup {Absent, None}]
      /\ v = 0 \/ v \in Of(versions, r)
  BY <1>2 DEF OfflineInv, OfflineTypeInv, CopiesInv
<1>5. /\ mem' \in Saved /\ Stands(versions, mem')
      /\ \A u \in Resource \ {r} : mem'.proj[u] = mem.proj[u]
  <2>1. CASE mem' = mem
    BY <1>4, <2>1
  <2>2. CASE v # 0 /\ mem' = Queue(mem, v)
    <3>1. v \in Nat /\ v \in DOMAIN versions
      BY <1>4, <2>2, ActiveIs, LenProperties DEF IsLog
    <3> QED BY <1>4, <2>2, <3>1, QueueIs
  <2>3. ASSUME NEW p \in Projections, StandsFor(versions, r, p), mem' = Mark(mem, r, p)
        PROVE  /\ mem' \in Saved /\ Stands(versions, mem')
               /\ \A u \in Resource \ {r} : mem'.proj[u] = mem.proj[u]
    BY <1>4, <2>3, MarkIs
  <2>4. CASE v # 0 /\ mem' = Mark(mem, r, At(versions, v))
    BY <1>4, <2>3, <2>4, AtIs
  <2>5. CASE v # 0 /\ r \in Chat /\ mem' = Mark(mem, r, [At(versions, v) EXCEPT !.kept = Kept(r)])
    <3>1. PICK k \in Content \cup {Absent, None} : k = Kept(r)
      <4>1. mem.proj[r] \in Projections
        BY <1>4, SavedIs
      <4>2. mem.proj[r].kept \in Content \cup {Absent, None}
            /\ mem.proj[r].hash \in Content \cup {Absent, None}
        BY <4>1 DEF Projections
      <4> QED BY <1>4, <4>2 DEF Kept
    <3>2. r \notin Setting /\ v \in Of(versions, r)
      BY <1>4, <2>5 DEF OfflineAssumption
    <3>3. PICK p : p = [At(versions, v) EXCEPT !.kept = k]
      OBVIOUS
    <3>4. p \in Projections /\ StandsFor(versions, r, p)
      BY <1>4, <3>2, <3>3, KeptIs
    <3>5. mem' = Mark(mem, r, p)
      BY <2>5, <3>1, <3>3
    <3> QED BY <2>3, <3>4, <3>5
  <2> QED BY <1>3, <2>1, <2>2, <2>4, <2>5
<1>6. \/ local' = local
      \/ /\ v \in Of(versions, r) /\ MayWrite(r)
         /\ local' = [local EXCEPT ![r] = versions[v].hash]
  BY <1>3, <1>4
<1>7. local' \in [Resource -> Content \cup {Absent}]
  <2>1. ASSUME v \in Of(versions, r) PROVE versions[v].hash \in Content \cup {Absent}
    <3>1. versions[v] \in LogVersion
      BY <1>4, <2>1, ActiveIs, LenProperties, ElementOfSeq DEF IsLog
    <3> QED BY <3>1 DEF LogVersion
  <2> QED BY <1>4, <1>6, <2>1
<1>8. OfflineTypeInv'
  BY <1>1, <1>4, <1>5, <1>7 DEF OfflineTypeInv
<1>9. CopiesInv'
  BY <1>1, <1>4, <1>5 DEF OfflineInv, CopiesInv
<1>10. CycleInv'
  <2>1. ASSUME NEW u \in todo' \cap Setting, u \notin deferred, scan[u] = None
        PROVE  Known(versions, u, local'[u]) \/ local'[u] = mem'.proj[u].kept
    <3>1. u \in Resource \ {r} /\ u \in todo \cap Setting
      BY <1>1, <2>1 DEF Resource
    <3>2. local'[u] = local[u] /\ mem'.proj[u] = mem.proj[u]
      BY <1>4, <1>5, <1>6, <3>1
    <3>3. Safe(u)
      BY <1>1, <2>1, <3>1 DEF OfflineInv, CycleInv
    <3> QED BY <3>2, <3>3 DEF Safe
  <2> QED BY <1>1, <2>1 DEF CycleInv, Safe
<1>11. HelperInv' /\ ScanInv' /\ PageInv'
  BY <1>1 DEF HelperInv, ScanInv, PageInv
<1>12. Overwrites
  <2>1. ASSUME NEW u \in Resource, local'[u] # local[u] PROVE Safe(u)
    <3>1. u = r /\ MayWrite(r)
      BY <1>4, <1>6, <2>1
    <3>2. CASE scan[r] = None /\ r \in Setting
      BY <1>1, <3>1, <3>2 DEF OfflineInv, CycleInv, MayWrite
    <3>3. CASE local[r] = mem.proj[r].hash
      BY <1>4, <3>1, <3>3 DEF Stands, StandsFor, Known, Safe
    <3>4. CASE scan[r] = None /\ r \in Chat
      BY <1>2, <1>3, <2>1, <3>1, <3>4 DEF HostApply
    <3> QED BY <3>1, <3>2, <3>3, <3>4 DEF MayWrite, Resource
  <2> QED BY <2>1 DEF Overwrites
<1>13. \A u \in Resource \ {r} : mem'.proj[u] = mem.proj[u] /\ local'[u] = local[u]
  BY <1>4, <1>5, <1>6
<1> QED BY <1>8, <1>9, <1>10, <1>11, <1>12, <1>13 DEF OfflineInv

(* The user's own request.                                                 *)
LEMMA SyncAndApplyKeeps ==
    ASSUME OfflineAssumption, OfflineInv, NEW unfinished \in SUBSET Chat,
           SyncAndApply(unfinished)
    PROVE  /\ OfflineInv' /\ Overwrites /\ Additions(Read(disk), disk)
           /\ \A r \in Chat : /\ local'[r] = local[r]
                             /\ Caught(disk.proj[r], mem'.proj[r], local[r])
           /\ mem' = disk' /\ \A r \in Resource : scan'[r] = None
<1> DEFINE L == Read(disk)
           tip(q) == versions[q.v]
           live == {q \in disk.pending : q.v \in Tips(L, tip(q).res)}
           clean(q) == local[tip(q).res] = disk.proj[tip(q).res].hash
           same(q) == local[tip(q).res] = tip(q).hash
           written == {q \in live : tip(q).res \in Setting /\ (clean(q) \/ same(q))}
           queued == {q \in live : tip(q).res \in Chat}
           matched == {q \in queued : tip(q).res \notin unfinished /\ same(q)}
           edited == {q \in queued : /\ tip(q).res \notin unfinished
                                     /\ local[tip(q).res] \notin
                                          {tip(q).hash, disk.proj[tip(q).res].hash,
                                           disk.proj[tip(q).res].kept}}
           found == {tip(q).res : q \in edited}
           own(r) == Version(r, local[r], FALSE, Parents(L, r, disk.proj[r]))
           published == versions \o SetToSeq({own(r) : r \in found})
           new(r) == CHOOSE v \in Of(published, r) : v > Len(versions)
           marked == {tip(q).res : q \in written \cup matched}
           by(r) == CHOOSE q \in written \cup matched : tip(q).res = r
           block(q) == IF q \in edited THEN "failed"
                       ELSE IF tip(q).res \in unfinished THEN "transient" ELSE "no"
           m1 == [disk EXCEPT
                    !.proj = [r \in Resource |->
                        IF r \in found THEN At(published, new(r))
                        ELSE IF r \in marked THEN At(versions, by(r).v) ELSE @[r]],
                    !.pending = {Entry(q.v, block(q)) : q \in @ \ (written \cup matched)}]
<1>1. /\ pc = "idle" /\ versions' = published /\ Rest(m1)
      /\ local' = [r \in Resource |->
             IF r \in Setting /\ r \in marked THEN versions[by(r).v].hash ELSE local[r]]
  BY DEF SyncAndApply
<1>2. PICK R, F, W, L1, K, D, TO, Q, P, f, m2 :
          /\ R = found /\ F = {own(r) : r \in found} /\ W = [r \in found |-> own(r)]
          /\ L1 = published /\ K = marked /\ D = written \cup matched
          /\ TO = [r \in Resource |-> IF r \in found THEN new(r) ELSE by(r).v]
          /\ P = disk.pending
          /\ Q = {Entry(q.v, block(q)) : q \in P \ (written \cup matched)}
          /\ f = [r \in Resource |->
                    IF r \in found THEN At(published, new(r))
                    ELSE IF r \in marked THEN At(versions, by(r).v) ELSE disk.proj[r]]
          /\ m2 = m1
  OBVIOUS
<1>3. /\ IsLog(versions) /\ local \in [Resource -> Content \cup {Absent}]
      /\ disk \in Saved /\ Stands(versions, disk) /\ mem = disk
  BY <1>1 DEF OfflineInv, OfflineTypeInv, CopiesInv
<1>4. /\ L1 = versions \o SetToSeq(F) /\ versions' = L1
      /\ \A x \in F : \E r \in R : x = W[r]
      /\ \A r \in R : W[r] \in F /\ W[r] = own(r)
  BY <1>1, <1>2
<1>a. \A r \in R : r \in Chat => local[r] \notin {disk.proj[r].hash, disk.proj[r].kept}
  BY <1>2
<1>b. R \subseteq Chat
  BY <1>2
<1>c. \A q \in D : tip(q).res \in Chat => local[tip(q).res] = tip(q).hash
  BY <1>2 DEF OfflineAssumption
<1>5. /\ \A q \in D : q \in P /\ (q \in written \/ q \in matched)
      /\ \A r \in K : \E q \in D : tip(q).res = r
  BY <1>2
<1>6. \A r \in K : by(r) \in D /\ tip(by(r)).res = r
  <2>1. \A r : by(r) = CHOOSE q \in D : tip(q).res = r
    BY <1>2
  <2> HIDE DEF by, tip
  <2> QED BY <1>5, <2>1
<1>7. \A q \in P : q.v \in DOMAIN versions /\ tip(q).res \in Resource
  <2>1. ASSUME NEW v \in DOMAIN versions PROVE versions[v].res \in Resource
    <3>1. versions[v] \in LogVersion
      BY <1>3, LenProperties, ElementOfSeq DEF IsLog
    <3> QED BY <3>1 DEF LogVersion
  <2> QED BY <1>2, <1>3, <2>1 DEF Stands
<1>8. R \in SUBSET Resource
  BY <1>2, <1>7 DEF Resource
<1>9. ASSUME NEW r \in K PROVE by(r).v \in Of(versions, r)
  BY <1>5, <1>6, <1>7 DEF Of
<1>10. m2 = [proj |-> f, pending |-> Q, seen |-> disk.seen]
  <2>1. PICK x, k : disk = [proj |-> x, pending |-> P, seen |-> k] /\ x = disk.proj /\ k = disk.seen
    BY <1>2, <1>3, SavedIs
  <2>2. m2 = [disk EXCEPT !.proj = f, !.pending = Q]
    BY <1>2
  <2> HIDE DEF m1
  <2> QED BY <2>1, <2>2
<1>11. Q \in SUBSET Entries /\ \A q \in Q : q.v \in DOMAIN versions
  <2>1. ASSUME NEW q \in P
        PROVE  /\ Entry(q.v, block(q)) \in Entries
               /\ Entry(q.v, block(q)).v \in DOMAIN versions
    <3>1. q.v \in DOMAIN versions /\ q.v \in Nat
      BY <1>3, <1>7, LenProperties DEF IsLog
    <3>2. block(q) \in {"no", "failed", "transient"}
      OBVIOUS
    <3> HIDE DEF block
    <3> QED BY <3>1, <3>2 DEF Entry, Entries
  <2> HIDE DEF block
  <2> QED BY <1>2, <2>1
<1>12. ASSUME NEW r \in Setting, local'[r] # local[r]
       PROVE  /\ Known(versions, r, local[r])
              /\ \E v \in Of(versions, r) : local'[r] = versions[v].hash
  <2>1. r \in K /\ r \in Resource /\ local'[r] = versions[by(r).v].hash
    BY <1>1, <1>2, <1>12 DEF Resource
  <2>2. PICK q \in D : tip(q).res = r
    BY <1>5, <2>1
  <2>3. q \in written
    BY <1>5, <2>2 DEF OfflineAssumption
  <2>4. q.v \in Of(versions, r)
    BY <1>5, <1>7, <2>2 DEF Of
  <2>5. ASSUME clean(q) PROVE Known(versions, r, local[r])
    BY <1>3, <2>1, <2>2, <2>5 DEF Stands, StandsFor, Known
  <2>6. ASSUME same(q) PROVE Known(versions, r, local[r])
    BY <2>2, <2>4, <2>6 DEF Known
  <2>7. Known(versions, r, local[r])
    BY <2>3, <2>5, <2>6
  <2> QED BY <1>9, <2>1, <2>7
<1>13. \A r \in Resource : r \notin Setting => local'[r] = local[r]
  BY <1>1
<1>14. ASSUME NEW r \in K \ R PROVE r \in Resource => TO[r] = by(r).v
  BY <1>2
<1>15. \A r \in R : TO[r] = CHOOSE v \in Of(L1, r) : v > Len(versions)
  BY <1>2, <1>8
<1>16. f = [r \in Resource |->
               IF r \in R THEN At(L1, TO[r])
               ELSE IF r \in K THEN At(versions, TO[r]) ELSE disk.proj[r]]
  <2> HIDE DEF L, published, by, found, marked, new, written, matched, own, block, m1
  <2>1. \A r \in R : TO[r] = new(r)
    BY <1>2, <1>8
  <2>2. \A r \in Resource \ R : TO[r] = by(r).v
    BY <1>2
  <2>3. f = [r \in Resource |->
               IF r \in R THEN At(L1, new(r))
               ELSE IF r \in K THEN At(versions, by(r).v) ELSE disk.proj[r]]
    BY <1>2
  <2> QED BY <2>1, <2>2, <2>3
<1>17. Rest(m2) /\ local' = [r \in Resource |-> local'[r]]
  <2> HIDE DEF by, marked, m1
  <2>1. Rest(m2)
    BY <1>1, <1>2
  <2>2. local' = [r \in Resource |-> local'[r]]
    BY <1>1
  <2> QED BY <2>1, <2>2
<1>18. ASSUME NEW r \in R PROVE W[r] = Version(r, local[r], FALSE, Parents(L, r, disk.proj[r]))
  BY <1>4
<1>19. IsLog(L) /\ Grows(L, versions)
  BY <1>3, GrowsItself, ReadIs, SavedIs DEF Stands, Read
<1>20. ASSUME NEW r \in K \ R, r \in Resource PROVE TO[r] \in Of(versions, r)
  BY <1>9, <1>14, <1>20
<1>d. ASSUME NEW r \in K \ R, r \in Chat PROVE versions[TO[r]].hash = local[r]
  <2>1. TO[r] = by(r).v /\ by(r) \in D /\ tip(by(r)).res = r
    BY <1>6, <1>d, <1>14 DEF Resource
  <2> HIDE DEF by
  <2> QED BY <1>c, <1>d, <2>1
<1>e. L = Read(disk)
  OBVIOUS
<1> HIDE DEF L, tip, live, clean, same, written, queued, matched, edited, found, own,
             published, new, marked, by, block, m1
<1>21. ASSUME NEW r \in R
       PROVE  /\ W[r] \in LogVersion /\ W[r].res = r /\ W[r].parents \subseteq DOMAIN versions
              /\ W[r].hash = local[r] /\ W[r].parents = Parents(L, r, disk.proj[r])
  <2>1. disk.proj[r].v \in DOMAIN versions
    BY <1>3, <1>8 DEF Stands, StandsFor, Of
  <2>2. PICK T : /\ T = Parents(L, r, disk.proj[r])
                 /\ T \subseteq DOMAIN versions /\ T \in SUBSET Nat
    BY <1>19, <2>1, ParentsAre
  <2>3. PICK c \in Content \cup {Absent} : c = local[r]
    BY <1>3, <1>8
  <2>4. W[r] = Version(r, c, FALSE, T)
    BY <1>18, <2>2, <2>3
  <2>5. /\ Version(r, c, FALSE, T) \in LogVersion
        /\ Version(r, c, FALSE, T).res = r /\ Version(r, c, FALSE, T).parents = T
        /\ Version(r, c, FALSE, T).hash = c
    BY <1>8, <2>2 DEF Version, LogVersion
  <2> QED BY <2>2, <2>3, <2>4, <2>5
<1>22. /\ IsLog(L1) /\ Grows(versions, L1) /\ Beyond(versions, L1, R, W)
       /\ \A r \in R : \E v \in Of(L1, r) : v > Len(versions)
  <2>1. Writes(versions, R, W, F)
    BY <1>4, <1>21 DEF Writes
  <2>2. PICK L0 : L0 = versions
    OBVIOUS
  <2>3. Writes(L0, R, W, F) /\ R \in SUBSET Resource /\ L1 = L0 \o SetToSeq(F) /\ IsLog(L0)
    BY <1>3, <1>4, <1>8, <2>1, <2>2
  <2>4. /\ IsLog(L1) /\ Grows(L0, L1) /\ Beyond(L0, L1, R, W)
        /\ \A r \in R : \E v \in Of(L1, r) : v > Len(L0)
    BY <2>3, ExtendedIs
  <2> QED BY <2>2, <2>4
<1>23. /\ m2 \in Saved /\ Stands(L1, m2)
       /\ \A r \in Resource \ (R \cup K) : m2.proj[r] = disk.proj[r]
       /\ \A r \in Resource \cap (R \cup K) : m2.proj[r] = At(L1, TO[r]) /\ m2.proj[r].kept = None
  <2>1. \A r \in (R \cup K) \cap Resource : TO[r] \in Of(L1, r)
    BY <1>15, <1>20, <1>22, GrowsIs
  <2>2. \A r \in K \ R : r \in Resource => At(L1, TO[r]) = At(versions, TO[r])
    BY <1>3, <1>20, <1>22, ActiveIs, GrowsIs DEF At
  <2>3. f = [r \in Resource |-> IF r \in R \cup K THEN At(L1, TO[r]) ELSE disk.proj[r]]
    BY <1>16, <2>2
  <2>4. PICK m, k : m = disk /\ k = disk.seen
    OBVIOUS
  <2>5. k \in Nat /\ k <= Len(L1) /\ m \in Saved /\ Stands(L1, m)
    BY <1>3, <1>22, <2>4, GrowsIs, SavedIs DEF Stands
  <2>6. \A q \in Q : q.v \in DOMAIN L1
    BY <1>11, <1>22, GrowsIs
  <2>7. /\ f = [r \in Resource |-> IF r \in R \cup K THEN At(L1, TO[r]) ELSE m.proj[r]]
        /\ m2 = [proj |-> f, pending |-> Q, seen |-> k]
    BY <1>10, <2>3, <2>4
  <2>8. PICK U : U = R \cup K
    OBVIOUS
  <2>9. /\ m2 \in Saved /\ Stands(L1, m2)
        /\ \A r \in Resource \ U : m2.proj[r] = m.proj[r]
        /\ \A r \in Resource \cap U : m2.proj[r] = At(L1, TO[r]) /\ m2.proj[r].kept = None
    BY <1>11, <1>22, <2>1, <2>5, <2>6, <2>7, <2>8, MovedIs
  <2> QED BY <2>4, <2>8, <2>9
<1>24. local' \in [Resource -> Content \cup {Absent}]
  <2>1. ASSUME NEW r \in Resource PROVE local'[r] \in Content \cup {Absent}
    <3>1. CASE local'[r] = local[r]
      BY <1>3, <3>1
    <3>2. CASE local'[r] # local[r]
      <4>1. PICK v \in Of(versions, r) : local'[r] = versions[v].hash
        BY <1>12, <1>13, <3>2
      <4>2. versions[v] \in LogVersion
        BY <1>3, ActiveIs, LenProperties, ElementOfSeq DEF IsLog
      <4> QED BY <4>1, <4>2 DEF LogVersion
    <3> QED BY <3>1, <3>2
  <2>2. local' = [r \in Resource |-> local'[r]]
    BY <1>17
  <2> QED BY <2>1, <2>2
<1>25. OfflineInv'
  BY <1>4, <1>17, <1>22, <1>23, <1>24, RestKeeps
<1>26. Overwrites
  BY <1>12, <1>13 DEF Overwrites, Safe
<1>27. Additions(L, disk)
  <2>1. ASSUME NEW v \in DOMAIN L1 \ DOMAIN versions PROVE IsEdit(L1[v], L, disk)
    <3>1. v > Len(versions)
      BY <1>22, <2>1 DEF Grows
    <3>2. PICK r \in R : L1[v] = W[r]
      BY <1>22, <2>1, <3>1 DEF Beyond
    <3> QED BY <1>a, <1>b, <1>21, <3>2 DEF IsEdit, OwnParents
  <2> QED BY <1>4, <1>22, <2>1 DEF Additions
<1>f. ASSUME NEW r \in Resource, r \in R \cup K, L1[TO[r]].hash = local[r]
      PROVE  Caught(disk.proj[r], m2.proj[r], local[r])
  <2>1. m2.proj[r] = At(L1, TO[r]) /\ m2.proj[r].kept = None
    BY <1>23, <1>f
  <2>2. At(L1, TO[r]).hash = local[r]
    BY <1>f DEF At
  <2> QED BY <2>1, <2>2 DEF Caught
<1>28. ASSUME NEW r \in Chat PROVE Caught(disk.proj[r], m2.proj[r], local[r])
  <2>1. r \in Resource
    BY DEF Resource
  <2>2. CASE r \in R
    <3>1. TO[r] \in Of(L1, r) /\ TO[r] > Len(versions)
      BY <1>15, <1>22, <2>2
    <3>2. L1[TO[r]] = W[r]
      BY <1>22, <3>1 DEF Beyond, Of
    <3>3. L1[TO[r]].hash = local[r]
      BY <1>21, <2>2, <3>2
    <3> QED BY <1>f, <2>1, <2>2, <3>3
  <2>3. CASE r \in K \ R
    <3>1. TO[r] \in DOMAIN versions /\ versions[TO[r]].hash = local[r]
      BY <1>d, <1>3, <1>20, <2>1, <2>3, ActiveIs
    <3>2. L1[TO[r]].hash = local[r]
      BY <1>22, <3>1, GrowsIs
    <3> QED BY <1>f, <2>1, <2>3, <3>2
  <2>4. CASE r \notin R \cup K
    BY <1>23, <2>1, <2>4 DEF Caught
  <2> QED BY <2>2, <2>3, <2>4
<1>29. \A r \in Chat : local'[r] = local[r]
  BY <1>13 DEF Resource, OfflineAssumption
<1>30. mem' = m2 /\ disk' = m2 /\ \A r \in Resource : scan'[r] = None
  BY <1>17 DEF Rest, Nobody
<1> QED BY <1>e, <1>25, <1>26, <1>27, <1>28, <1>29, <1>30

-----------------------------------------------------------------------------
(* The helper's final scan.                                                *)

(* What was read of a whole log is the log.                                *)
LEMMA ReadAll ==
    ASSUME NEW L, IsLog(L)
    PROVE  SubSeq(L, 1, Len(L)) = L /\ Len(L) \in Nat
<1>1. PICK S : S = LogVersion
  OBVIOUS
<1>2. L \in Seq(S) /\ Len(L) \in Nat /\ L \in [1..Len(L) -> S]
  BY <1>1, LenProperties DEF IsLog
<1> QED BY <1>2

(* Entries are rebound, nothing is to be repaired, and what may be applied *)
(* is in no conflict.                                                      *)
LEMMA ExportBegins ==
    ASSUME OfflineAssumption, NEW L, IsLog(L), NEW m \in Saved, Stands(L, m),
           NEW R \in SUBSET Resource, BeginExport(L, m, R)
    PROVE  /\ mem' \in Saved /\ Stands(L, mem') /\ mem'.proj = m.proj /\ mem'.seen = Len(L)
           /\ \A q \in mem'.pending : L[q.v].res \in Setting =>
                  \E p \in m.pending : p.v = q.v
           /\ pc' = "scan" /\ todo' = R
           /\ \E T : /\ verified' = verified \cup T
                     /\ \A v \in T : /\ v \in DOMAIN L /\ L[v].res \in R
                                     /\ ~Conflict(L, L[v].res)
<1> DEFINE to(q) == IF L[q.v].res \in Chat /\ Active(L, L[q.v].res) # 0
                    THEN Active(L, L[q.v].res) ELSE q.v
<1>1. PICK f, P, k : /\ m = [proj |-> f, pending |-> P, seen |-> k]
                     /\ f = m.proj /\ P = m.pending /\ k = m.seen
  BY SavedIs
<1>2. PICK Q : Q = {Entry(to(q), q.block) : q \in P}
  OBVIOUS
<1>3. PICK b : b = Rebound(L, m)
  OBVIOUS
<1>4. b = [proj |-> f, pending |-> Q, seen |-> k]
  BY <1>1, <1>2, <1>3 DEF Rebound
<1>5. PICK T : T = Targets(L, b, R)
  OBVIOUS
<1>6. /\ mem' = [Repaired(L, b, T) EXCEPT !.seen = Len(L)]
      /\ verified' = verified \cup T /\ pc' = "scan" /\ todo' = R
  BY <1>3, <1>5 DEF BeginExport
<1>7. /\ P \in SUBSET Entries /\ \A q \in P : q.v \in DOMAIN L
      /\ f \in [Resource -> Projections]
      /\ \A r \in Resource : StandsFor(L, r, f[r])
      /\ k \in Nat
  BY <1>1, SavedIs DEF Stands
<1>8. ASSUME NEW q \in P
      PROVE  /\ Entry(to(q), q.block) \in Entries /\ to(q) \in DOMAIN L
             /\ Entry(to(q), q.block).v = to(q)
             /\ to(q) = q.v \/ L[to(q)].res \in Chat
  <2>1. to(q) \in DOMAIN L /\ (to(q) = q.v \/ L[to(q)].res \in Chat)
    BY <1>7, ActiveIs DEF Of
  <2>2. DOMAIN L \subseteq Nat
    BY LenProperties DEF IsLog
  <2>3. q.block \in {"no", "failed", "transient"}
    BY <1>7 DEF Entries
  <2> HIDE DEF to
  <2> QED BY <2>1, <2>2, <2>3 DEF Entry, Entries
<1> HIDE DEF to
<1>9. /\ Q \in SUBSET Entries /\ \A q \in Q : q.v \in DOMAIN L
      /\ \A q \in Q : L[q.v].res \in Setting => \E p \in P : p.v = q.v
  BY <1>2, <1>8 DEF OfflineAssumption
<1>10. Repaired(L, b, T) = [proj |-> f, pending |-> Q, seen |-> k]
  <2>1. b.proj = f
    BY <1>4
  <2>2. ASSUME NEW r \in Resource PROVE [f[r] EXCEPT !.hash = L[f[r].v].hash] = f[r]
    <3>1. f[r] \in Projections /\ L[f[r].v].hash = f[r].hash
      BY <1>7 DEF StandsFor
    <3>2. PICK p, h : p = f[r] /\ h = L[f[r].v].hash
      OBVIOUS
    <3>3. p = [v |-> p.v, hash |-> p.hash, kept |-> p.kept] /\ h = p.hash
      BY <3>1, <3>2 DEF Projections
    <3>4. [p EXCEPT !.hash = h] = p
      BY <3>3
    <3> QED BY <3>2, <3>4
  <2>3. PICK f2 : f2 = [r \in Resource |->
                 IF /\ r \in Chat
                    /\ \/ Conflict(L, r) \/ \E v \in T : L[v].res = r
                       \/ Active(L, r) # 0 /\ L[Active(L, r)].hash = f[r].hash
                 THEN [f[r] EXCEPT !.hash = L[f[r].v].hash] ELSE f[r]]
    OBVIOUS
  <2>4. f2 = f
    <3>1. \A r \in Resource : f2[r] = f[r]
      BY <2>2, <2>3
    <3> QED BY <1>7, <2>3, <3>1
  <2>5. Repaired(L, b, T) = [b EXCEPT !.proj = f2]
    BY <2>1, <2>3 DEF Repaired
  <2> QED BY <1>4, <2>4, <2>5
<1>11. PICK n, m2 : /\ n = Len(L) /\ n \in Nat /\ n <= Len(L) /\ m2 = mem'
                    /\ m2 = [proj |-> f, pending |-> Q, seen |-> n]
  <2>1. Len(L) \in Nat
    BY ReadAll
  <2>2. mem' = [proj |-> f, pending |-> Q, seen |-> Len(L)]
    BY <1>6, <1>10
  <2> QED BY <2>1, <2>2
<1>12. m2 \in Saved /\ Stands(L, m2) /\ m2.pending = Q /\ m2.seen = n /\ m2.proj = f
  BY <1>1, <1>9, <1>11, RequeuedIs
<1>13. ASSUME NEW v \in T
       PROVE  v \in DOMAIN L /\ L[v].res \in R /\ ~Conflict(L, L[v].res)
  <2>1. /\ L[v].res \in R /\ v = Active(L, L[v].res)
        /\ v \in {q.v : q \in {p \in b.pending : p.block \in {"no", "transient"}}}
    BY <1>5 DEF Targets
  <2>2. v \in DOMAIN L
    BY <1>4, <1>9, <2>1
  <2>3. v # 0
    BY <2>2, LenProperties DEF IsLog
  <2> QED BY <2>1, <2>2, <2>3, ActiveIs
<1> QED BY <1>1, <1>6, <1>9, <1>11, <1>12, <1>13

(* The final scan begins, from what is saved.                              *)
LEMMA HelperStartKeeps ==
    ASSUME OfflineAssumption, OfflineInv, HelperStart
    PROVE  OfflineInv'
<1>1. /\ pc = "idle" /\ BeginExport(versions, disk, Resource)
      /\ UNCHANGED <<versions, local, cursor, disk, frozen, scan, deferred, page>>
  BY DEF HelperStart, host
<1>2. /\ IsLog(versions) /\ local \in [Resource -> Content \cup {Absent}]
      /\ disk \in Saved /\ Stands(versions, disk) /\ verified = {}
      /\ scan \in [Resource -> Content \cup {Absent, None}]
  BY <1>1 DEF OfflineInv, OfflineTypeInv, CopiesInv
<1>3. Resource \in SUBSET Resource
  OBVIOUS
<1>4. /\ mem' \in Saved /\ Stands(versions, mem') /\ mem'.seen = Len(versions)
      /\ pc' = "scan" /\ todo' = Resource
  BY <1>1, <1>2, <1>3, ExportBegins
<1>5. PICK T : /\ verified' = verified \cup T
               /\ \A v \in T : /\ v \in DOMAIN versions /\ versions[v].res \in Resource
                               /\ ~Conflict(versions, versions[v].res)
  BY <1>1, <1>2, <1>3, ExportBegins
<1>6. Read(mem)' = versions
  BY <1>1, <1>2, <1>4, ReadAll DEF Read
<1>7. OfflineTypeInv'
  BY <1>1, <1>2, <1>4 DEF OfflineTypeInv
<1>8. CopiesInv'
  BY <1>1, <1>2, <1>4, <1>5 DEF OfflineInv, CopiesInv
<1>9. CycleInv' /\ PageInv'
  BY <1>4 DEF CycleInv, PageInv
<1>10. HelperInv'
  BY <1>1, <1>2, <1>4, <1>5 DEF HelperInv, Scanned, Res
<1>11. ScanInv'
  BY <1>1, <1>2, <1>4, <1>5, <1>6 DEF ScanInv, Res, Conflict
<1> QED BY <1>7, <1>8, <1>9, <1>10, <1>11 DEF OfflineInv

(* A round of merges: the settings were scanned, the chats will be again.  *)
LEMMA SettleKeeps ==
    ASSUME OfflineAssumption, OfflineInv, NEW N \in SUBSET Chat, NEW g \in [N -> Content],
           Settle(N, g)
    PROVE  /\ OfflineInv' /\ Additions(versions, mem)
           /\ mem'.proj = mem.proj /\ disk'.proj = mem.proj /\ todo' = Chat
<1> DEFINE Alone == {r \in N : ~Conflict(Merged(versions, N, g), r)}
           queued == [mem EXCEPT
                        !.pending = {q \in @ : Merged(versions, N, g)[q.v].res \notin Alone}
                           \cup {Entry(Active(Merged(versions, N, g), r), "no") : r \in Alone},
                        !.seen = Len(Merged(versions, N, g))]
<1>1. /\ pc = "settle" /\ cursor = "closed" /\ versions' = Merged(versions, N, g)
      /\ disk' = queued /\ BeginExport(Merged(versions, N, g), queued, Chat)
      /\ UNCHANGED <<local, cursor, frozen, scan, deferred, page>>
  BY DEF Settle, host
<1>2. PICK L, R, m : L = Merged(versions, N, g) /\ R = Alone /\ m = queued
  OBVIOUS
<1>3. /\ versions' = L /\ disk' = m /\ BeginExport(L, m, Chat) /\ R \subseteq Chat
      /\ m = [mem EXCEPT
                !.pending = {q \in @ : L[q.v].res \notin R}
                              \cup {Entry(Active(L, r), "no") : r \in R},
                !.seen = Len(L)]
      /\ \A r \in R : ~Conflict(L, r)
  BY <1>1, <1>2
<1> HIDE DEF Alone, queued
<1>4. /\ IsLog(versions) /\ local \in [Resource -> Content \cup {Absent}]
      /\ mem \in Saved /\ Stands(versions, mem) /\ verified \subseteq DOMAIN versions
      /\ scan \in [Resource -> Content \cup {Absent, None}]
  BY DEF OfflineInv, OfflineTypeInv, CopiesInv
<1>5. Chat \in SUBSET Resource /\ N \in SUBSET Resource
  BY DEF Resource
<1>6. IsLog(L) /\ Grows(versions, L) /\ Blends(versions, L)
  BY <1>2, <1>4, <1>5, MergedLogIs
<1>7. Stands(L, mem)
  BY <1>4, <1>6, GrowsIs, SavedIs
<1>8. ASSUME NEW r \in R
      PROVE  /\ Entry(Active(L, r), "no") \in Entries
             /\ Entry(Active(L, r), "no").v \in Of(L, r)
  <2>1. mem.proj[r].v \in Of(L, r)
    BY <1>3, <1>5, <1>7 DEF Stands, StandsFor
  <2>2. Active(L, r) \in Of(L, r) /\ Of(L, r) \subseteq DOMAIN L
    BY <1>3, <1>6, <2>1, ActiveIs
  <2>3. Active(L, r) \in Nat
    BY <1>6, <2>2, LenProperties DEF IsLog
  <2> QED BY <2>2, <2>3 DEF Entry, Entries
<1>9. PICK Q : Q = {q \in mem.pending : L[q.v].res \notin R}
                     \cup {Entry(Active(L, r), "no") : r \in R}
  OBVIOUS
<1>10. /\ Q \in SUBSET Entries /\ \A q \in Q : q.v \in DOMAIN L
       /\ \A q \in Q : q \in mem.pending \/ L[q.v].res \in Chat
  <2>1. mem.pending \in SUBSET Entries /\ \A q \in mem.pending : q.v \in DOMAIN L
    BY <1>4, <1>7, SavedIs DEF Stands
  <2>2. \A r \in R : Of(L, r) \subseteq DOMAIN L /\ \A v \in Of(L, r) : L[v].res = r
    BY DEF Of
  <2> QED BY <1>3, <1>8, <1>9, <2>1, <2>2
<1>11. /\ m \in Saved /\ Stands(L, m) /\ m.pending = Q /\ m.proj = mem.proj
  <2>1. PICK m0, f, P, k, n : /\ m0 = mem /\ f = mem.proj /\ P = mem.pending
                              /\ k = mem.seen /\ n = Len(L)
    OBVIOUS
  <2>2. m0 = [proj |-> f, pending |-> P, seen |-> k]
    BY <1>4, <2>1, SavedIs
  <2>3. n \in Nat /\ n <= Len(L)
    BY <1>6, <2>1, ReadAll
  <2>4. m = [proj |-> f, pending |-> Q, seen |-> n]
    <3>1. m = [mem EXCEPT !.pending = Q, !.seen = Len(L)]
      BY <1>3, <1>9
    <3>2. m = [m0 EXCEPT !.pending = Q, !.seen = n]
      BY <2>1, <3>1
    <3> QED BY <2>2, <3>2
  <2>5. m0 \in Saved /\ Stands(L, m0) /\ f = m0.proj
    BY <1>4, <1>7, <2>1
  <2>6. m \in Saved /\ Stands(L, m) /\ m.pending = Q /\ m.proj = m0.proj
    BY <1>10, <2>3, <2>4, <2>5, RequeuedIs
  <2> QED BY <2>1, <2>6
<1>12. /\ mem' \in Saved /\ Stands(L, mem') /\ mem'.proj = mem.proj
       /\ \A q \in mem'.pending : L[q.v].res \in Setting => \E p \in m.pending : p.v = q.v
       /\ pc' = "scan" /\ todo' = Chat
  <2>1. PICK R0 \in SUBSET Resource : R0 = Chat /\ BeginExport(L, m, R0)
    BY <1>3, <1>5
  <2>2. /\ mem' \in Saved /\ Stands(L, mem') /\ mem'.proj = m.proj
        /\ \A q \in mem'.pending : L[q.v].res \in Setting =>
               \E p \in m.pending : p.v = q.v
        /\ pc' = "scan" /\ todo' = R0
    BY <1>6, <1>11, <2>1, ExportBegins
  <2> QED BY <1>11, <2>1, <2>2
<1>13. PICK T : /\ verified' = verified \cup T
                /\ \A v \in T : v \in DOMAIN L /\ L[v].res \in Chat
  <2>1. PICK R0 \in SUBSET Resource : R0 = Chat /\ BeginExport(L, m, R0)
    BY <1>3, <1>5
  <2>2. \E T : /\ verified' = verified \cup T
               /\ \A v \in T : /\ v \in DOMAIN L /\ L[v].res \in R0
                               /\ ~Conflict(L, L[v].res)
    BY <1>6, <1>11, <2>1, ExportBegins
  <2> QED BY <2>1, <2>2
<1>14. OfflineTypeInv'
  BY <1>1, <1>3, <1>4, <1>6, <1>11, <1>12 DEF OfflineTypeInv
<1>15. CopiesInv'
  BY <1>1, <1>3, <1>4, <1>6, <1>11, <1>12, <1>13, GrowsIs DEF OfflineInv, CopiesInv
<1>16. CycleInv' /\ PageInv'
  BY <1>12 DEF CycleInv, PageInv
<1>17. \A v \in verified : L[v] = versions[v] /\ versions[v].res \in Resource
  <2>1. ASSUME NEW v \in verified PROVE versions[v].res \in Resource
    <3>1. versions[v] \in LogVersion
      BY <1>4, LenProperties, ElementOfSeq DEF IsLog
    <3> QED BY <3>1 DEF LogVersion
  <2> QED BY <1>4, <1>6, <2>1, GrowsIs
<1>18. HelperInv'
  <2>1. ASSUME NEW v \in verified', L[v].res \notin deferred, L[v].res \notin Chat,
               NEW q \in mem'.pending, q.v = v
        PROVE  Known(L, L[v].res, local[L[v].res])
                 \/ local[L[v].res] = mem'.proj[L[v].res].kept
    <3>1. v \in verified
      BY <1>13, <2>1
    <3>2. L[v] = versions[v] /\ L[v].res \in Setting
      BY <1>17, <2>1, <3>1 DEF Resource
    <3>3. PICK p \in mem.pending : p.v = v
      BY <1>10, <1>11, <1>12, <2>1, <3>2 DEF OfflineAssumption
    <3>4. Safe(versions[v].res)
      BY <1>1, <2>1, <3>1, <3>2, <3>3 DEF OfflineInv, HelperInv, Scanned, Res
    <3> QED BY <1>6, <1>12, <3>2, <3>4, GrowsIs DEF Safe
  <2> QED BY <1>1, <1>3, <1>12, <2>1 DEF HelperInv, Scanned, Safe, Res
<1>19. ScanInv'
  BY <1>12 DEF ScanInv, OfflineAssumption
<1>20. Additions(versions, mem)
  <2>1. \A v \in DOMAIN L \ DOMAIN versions : v > Len(versions)
    BY <1>6 DEF Grows
  <2> QED BY <1>3, <1>6, <2>1 DEF Additions, Blends
<1> QED BY <1>3, <1>11, <1>12, <1>14, <1>15, <1>16, <1>18, <1>19, <1>20 DEF OfflineInv

(* One resource of the final scan: read, it is safe, or it is deferred.    *)
LEMMA HelperScanKeeps ==
    ASSUME OfflineAssumption, OfflineInv, NEW r \in Resource, NEW ok \in BOOLEAN,
           HelperScan(r, ok)
    PROVE  /\ OfflineInv' /\ Additions(Read(mem), mem)
           /\ \A u \in Resource \ {r} : mem'.proj[u] = mem.proj[u]
           /\ r \in Chat => \/ r \in deferred'
                           \/ local[r] \in {mem'.proj[r].hash, mem'.proj[r].kept}
           /\ Caught(mem.proj[r], mem'.proj[r], local[r])
           /\ deferred \subseteq deferred' /\ (mem' = disk' \/ UNCHANGED <<mem, disk>>)
<1>1. /\ pc = "scan" /\ r \in todo /\ todo' = todo \ {r}
      /\ UNCHANGED <<local, cursor, pc, frozen, scan, verified, page>>
  BY DEF HelperScan, Next1, drain
<1>2. PICK L, m, p, c, P :
          /\ L = Read(mem) /\ m = mem /\ p = m.proj[r] /\ c = local[r]
          /\ P = IF r \in Chat THEN OwnParents(L, r, p, c) ELSE Parents(L, r, p)
  OBVIOUS
<1>3. /\ IsLog(versions) /\ local \in [Resource -> Content \cup {Absent}]
      /\ m \in Saved /\ disk \in Saved /\ Stands(versions, m) /\ Stands(versions, disk)
      /\ scan \in [Resource -> Content \cup {Absent, None}]
      /\ c \in Content \cup {Absent} /\ StandsFor(versions, r, p)
  BY <1>2 DEF OfflineInv, OfflineTypeInv, CopiesInv, Stands
<1>4. /\ IsLog(L) /\ Grows(L, versions) /\ m.seen \in Nat /\ m.seen <= Len(versions)
      /\ L = SubSeq(versions, 1, m.seen)
  BY <1>2, <1>3, GrowsItself, ReadIs, SavedIs DEF Stands, Read
<1>5. PICK e : e = Version(r, c, FALSE, P)
  OBVIOUS
<1>6. /\ e \in LogVersion /\ e.res = r /\ e.hash = c /\ e.parents \subseteq DOMAIN versions
      /\ e.parents = P
  <2>1. p.v \in DOMAIN versions
    BY <1>3 DEF StandsFor, Of
  <2>2. /\ Parents(L, r, p) \subseteq DOMAIN versions
        /\ OwnParents(L, r, p, c) \subseteq DOMAIN versions
        /\ DOMAIN versions \subseteq Nat
    BY <1>4, <2>1, ParentsAre
  <2>3. P \subseteq DOMAIN versions /\ P \in SUBSET Nat
    BY <1>2, <2>2
  <2> QED BY <1>3, <1>5, <2>3 DEF Version, LogVersion
<1>7. PICK L1 : L1 = Append(versions, e)
  OBVIOUS
<1>8. /\ IsLog(L1) /\ Grows(versions, L1) /\ Len(L1) \in Of(L1, r) /\ L1[Len(L1)] = e
  BY <1>3, <1>6, <1>7, AppendedIs
<1>9. \/ /\ deferred' = deferred \cup {r}
         /\ UNCHANGED <<versions, disk, mem>>
      \/ /\ deferred' = deferred /\ versions' = versions
         /\ \E v \in Matching(L, r, c) : mem' = Mark(m, r, At(L, v)) /\ disk' = mem'
      \/ /\ deferred' = deferred /\ versions' = L1 /\ ShouldPublish(L, r, p, c)
         /\ \/ mem' = Mark(m, r, At(L1, Len(L1))) /\ disk' = mem'
            \/ r \notin Chat /\ UNCHANGED <<disk, mem>>
      \/ /\ deferred' = deferred /\ UNCHANGED <<versions, disk, mem>>
         /\ r \in Chat => Matching(L, r, c) = {} \/ c = p.kept
         /\ c = p.kept \/ ~ShouldPublish(L, r, p, c) \/ (r \in Setting /\ Conflict(L, r))
  <2>1. CASE ~ok
    BY <2>1 DEF HelperScan
  <2>2. CASE ok /\ r \in Chat /\ Matching(L, r, c) # {} /\ c # p.kept
    <3>1. /\ deferred' = deferred /\ versions' = versions
          /\ mem' = Mark(m, r, At(L, CHOOSE v \in Matching(L, r, c) : TRUE)) /\ disk' = mem'
      BY <1>2, <2>2 DEF HelperScan
    <3> QED BY <2>2, <3>1
  <2>3. CASE /\ ok /\ ~(r \in Chat /\ Matching(L, r, c) # {} /\ c # p.kept)
             /\ ShouldPublish(L, r, p, c) /\ (r \in Setting => ~Conflict(L, r))
    <3>1. deferred' = deferred /\ versions' = L1 /\ ShouldPublish(L, r, p, c)
      BY <1>2, <1>5, <1>7, <2>3 DEF HelperScan
    <3>2. CASE r \in Chat
      BY <1>2, <1>5, <1>7, <2>3, <3>1, <3>2 DEF HelperScan
    <3>3. CASE r \notin Chat
      BY <1>2, <1>5, <1>7, <2>3, <3>1, <3>3 DEF HelperScan
    <3> QED BY <3>1, <3>2, <3>3
  <2>4. CASE /\ ok /\ ~(r \in Chat /\ Matching(L, r, c) # {} /\ c # p.kept)
             /\ ~(ShouldPublish(L, r, p, c) /\ (r \in Setting => ~Conflict(L, r)))
    BY <1>2, <2>4 DEF HelperScan
  <2> QED BY <2>1, <2>2, <2>3, <2>4
<1>10. /\ IsLog(versions') /\ Grows(versions, versions') /\ deferred \subseteq deferred'
  BY <1>3, <1>8, <1>9, GrowsItself
<1>11. /\ mem' \in Saved /\ Stands(versions', mem') /\ mem'.seen = m.seen
       /\ mem'.pending \subseteq m.pending
       /\ \A u \in Resource \ {r} : mem'.proj[u] = m.proj[u]
       /\ \/ r \in deferred' \/ Known(versions', r, c) \/ c = mem'.proj[r].kept
          \/ r \in Setting /\ Conflict(L, r)
  <2>1. Stands(versions', m)
    BY <1>3, <1>4, <1>10, GrowsIs
  <2>2. CASE mem' = mem /\ deferred' = deferred \cup {r}
    BY <1>2, <1>3, <2>1, <2>2
  <2>3. CASE versions' = versions /\ \E v \in Matching(L, r, c) : mem' = Mark(m, r, At(L, v))
    <3>1. PICK v : v \in Matching(L, r, c) /\ mem' = Mark(m, r, At(L, v))
      BY <2>3
    <3>2. v \in Of(L, r) /\ v \in DOMAIN L /\ L[v].hash = c
      <4>1. IsLog(L) /\ v \in Matching(L, r, c)
        BY <1>4, <3>1
      <4> QED BY <4>1, MatchingIs
    <3>3. v \in Of(versions, r) /\ versions[v] = L[v]
      BY <1>4, <3>2, GrowsIs
    <3>4. At(L, v) = At(versions, v)
      BY <3>3 DEF At
    <3>5. At(L, v) \in Projections /\ StandsFor(versions, r, At(L, v))
      BY <1>3, <3>3, <3>4, AtIs
    <3>6. PICK p2 \in Projections : p2 = At(L, v) /\ StandsFor(versions, r, p2)
      BY <3>5
    <3>7. mem' = Mark(m, r, p2)
      BY <3>1, <3>6
    <3>8. Known(versions, r, c)
      BY <3>2, <3>3 DEF Known
    <3> QED BY <1>3, <2>3, <3>6, <3>7, <3>8, MarkIs
  <2>4. CASE versions' = L1 /\ (mem' = Mark(m, r, At(L1, Len(L1))) \/ mem' = mem)
    <3>1. Known(L1, r, c)
      BY <1>6, <1>8 DEF Known
    <3>2. CASE mem' = mem
      BY <1>2, <1>3, <2>1, <2>4, <3>1, <3>2
    <3>3. CASE mem' = Mark(m, r, At(L1, Len(L1)))
      <4>1. PICK n, p2 : n = Len(L1) /\ p2 = At(L1, n)
        OBVIOUS
      <4>2. p2 \in Projections /\ StandsFor(L1, r, p2)
        BY <1>8, <4>1, AtIs
      <4>3. mem' = Mark(m, r, p2) /\ Stands(L1, m)
        BY <2>1, <2>4, <3>3, <4>1
      <4> QED BY <1>3, <2>4, <3>1, <4>2, <4>3, MarkIs
    <3> QED BY <2>4, <3>2, <3>3
  <2>5. CASE /\ versions' = versions /\ mem' = mem
             /\ c = p.kept \/ ~ShouldPublish(L, r, p, c) \/ (r \in Setting /\ Conflict(L, r))
    <3>1. ASSUME c = p.hash PROVE Known(versions, r, c)
      BY <1>3, <3>1 DEF StandsFor, Known
    <3>2. ASSUME NEW t \in Tips(L, r), L[t].hash = c PROVE Known(versions, r, c)
      <4>1. t \in Of(L, r) /\ t \in DOMAIN L
        BY <1>4, ActiveIs
      <4> QED BY <1>4, <3>2, <4>1, GrowsIs DEF Known
    <3>3. ~ShouldPublish(L, r, p, c) => Known(versions, r, c) \/ c = p.kept
      BY <3>1, <3>2 DEF ShouldPublish
    <3> QED BY <1>2, <1>3, <2>5, <3>3
  <2> QED BY <1>2, <1>9, <2>2, <2>3, <2>4, <2>5
<1>12. disk' \in Saved /\ Stands(versions', disk')
  <2>1. Stands(versions', disk)
    BY <1>3, <1>10, GrowsIs, SavedIs
  <2> QED BY <1>3, <1>9, <1>11, <2>1
<1>13. /\ \A v \in DOMAIN versions : v \in DOMAIN versions' /\ versions'[v] = versions[v]
       /\ \A u : Of(versions, u) \subseteq Of(versions', u)
       /\ \A u, x : Known(versions, u, x) => Known(versions', u, x)
       /\ \A v \in verified : v \in DOMAIN versions /\ Res(v)' = Res(v)
  BY <1>10, GrowsIs DEF OfflineInv, CopiesInv, Res
<1>14. Read(mem)' = Read(mem)
  <2>1. SubSeq(versions', 1, m.seen) = SubSeq(versions, 1, m.seen)
    BY <1>3, <1>4, <1>10, ReadIs
  <2> QED BY <1>2, <1>11, <2>1 DEF Read
<1>15. OfflineTypeInv'
  BY <1>1, <1>3, <1>10, <1>11, <1>12 DEF OfflineTypeInv
<1>16. CopiesInv'
  BY <1>1, <1>11, <1>12, <1>13 DEF OfflineInv, CopiesInv
<1>17. CycleInv' /\ PageInv'
  BY <1>1 DEF CycleInv, PageInv
<1>18. ScanInv'
  BY <1>1, <1>13, <1>14 DEF OfflineInv, ScanInv, Conflict
<1>19. HelperInv'
  <2>1. ASSUME NEW v \in verified, cursor = "closed", Res(v) \notin deferred',
               Res(v) \notin todo', \E q \in mem'.pending : q.v = v
        PROVE  Known(versions', Res(v), local[Res(v)])
                 \/ local[Res(v)] = mem'.proj[Res(v)].kept
    <3>1. CASE Res(v) = r
      <4>1. r \in Setting => ~Conflict(L, r)
        BY <1>1, <1>2, <3>1 DEF OfflineInv, ScanInv
      <4> QED BY <1>2, <1>11, <2>1, <3>1, <4>1
    <3>2. CASE Res(v) # r
      <4>1. Safe(Res(v))
        BY <1>1, <1>2, <1>10, <1>11, <2>1, <3>2 DEF OfflineInv, HelperInv, Scanned
      <4>2. Res(v) \in Resource
        <5>1. versions[v] \in LogVersion
          BY <1>3, <1>13, LenProperties, ElementOfSeq DEF IsLog
        <5> QED BY <5>1 DEF LogVersion, Res
      <4> QED BY <1>2, <1>11, <1>13, <3>2, <4>1, <4>2 DEF Safe
    <3> QED BY <3>1, <3>2
  <2> QED BY <1>1, <1>13, <2>1 DEF HelperInv, Scanned, Safe
<1>20. Additions(L, m)
  <2>1. CASE versions' = versions
    BY <1>10, <2>1 DEF Additions
  <2>2. CASE versions' = L1 /\ ShouldPublish(L, r, p, c)
    <3>1. ASSUME NEW v \in DOMAIN L1 \ DOMAIN versions PROVE L1[v] = e
      <4>1. v = Len(L1)
        BY <1>3, <1>6, <1>7, <1>8, <3>1, AppendedIs DEF Grows
      <4> QED BY <1>8, <4>1
    <3>2. IsEdit(e, L, m)
      BY <1>2, <1>6, <2>2 DEF IsEdit, ShouldPublish, OwnParents
    <3> QED BY <1>10, <2>2, <3>1, <3>2 DEF Additions
  <2> QED BY <1>9, <2>1, <2>2
<1>21. ASSUME NEW q, mem' = Mark(m, r, q), q \in Projections, StandsFor(versions', r, q),
              Stands(versions', m), q.hash = c, q.kept = None
       PROVE  /\ c \in {mem'.proj[r].hash, mem'.proj[r].kept}
              /\ Caught(m.proj[r], mem'.proj[r], c)
  <2>1. mem'.proj[r] = q
    BY <1>3, <1>21, MarkIs
  <2> QED BY <1>21, <2>1 DEF Caught
<1>22. /\ r \in Chat => r \in deferred' \/ c \in {mem'.proj[r].hash, mem'.proj[r].kept}
       /\ Caught(m.proj[r], mem'.proj[r], c)
  <2>1. Stands(versions', m)
    BY <1>3, <1>4, <1>10, GrowsIs
  <2>2. CASE deferred' = deferred \cup {r} /\ mem' = mem
    BY <1>2, <2>2 DEF Caught
  <2>3. CASE versions' = versions /\ \E v \in Matching(L, r, c) : mem' = Mark(m, r, At(L, v))
    <3>1. PICK v : v \in Matching(L, r, c) /\ mem' = Mark(m, r, At(L, v))
      BY <2>3
    <3>2. v \in Of(L, r) /\ v \in DOMAIN L /\ L[v].hash = c
      <4>1. IsLog(L) /\ v \in Matching(L, r, c)
        BY <1>4, <3>1
      <4> QED BY <4>1, MatchingIs
    <3>3. v \in Of(versions, r) /\ versions[v] = L[v]
      BY <1>4, <3>2, GrowsIs
    <3>4. PICK q : q = At(L, v) /\ q = At(versions, v)
      BY <3>3 DEF At
    <3>5. /\ q \in Projections /\ StandsFor(versions', r, q) /\ q.hash = c /\ q.kept = None
          /\ mem' = Mark(m, r, q)
      BY <1>3, <2>3, <3>1, <3>2, <3>3, <3>4, AtIs DEF At
    <3> QED BY <1>21, <2>1, <3>5
  <2>4. CASE versions' = L1 /\ mem' = Mark(m, r, At(L1, Len(L1)))
    <3>1. PICK n, q : n = Len(L1) /\ q = At(L1, n)
      OBVIOUS
    <3>2. /\ q \in Projections /\ StandsFor(versions', r, q) /\ q.hash = c /\ q.kept = None
          /\ mem' = Mark(m, r, q)
      BY <1>6, <1>8, <2>4, <3>1, AtIs DEF At
    <3> QED BY <1>21, <2>1, <3>2
  <2>5. CASE r \notin Chat /\ mem' = mem
    BY <1>2, <2>5 DEF Caught
  <2>6. CASE /\ mem' = mem /\ (r \in Chat => Matching(L, r, c) = {} \/ c = p.kept)
             /\ c = p.kept \/ ~ShouldPublish(L, r, p, c) \/ (r \in Setting /\ Conflict(L, r))
    <3>1. r \in Chat => c \in {p.hash, p.kept}
      BY <2>6 DEF ShouldPublish, Matching, OfflineAssumption
    <3> QED BY <1>2, <2>6, <3>1 DEF Caught
  <2> QED BY <1>9, <2>2, <2>3, <2>4, <2>5, <2>6
<1>23. mem' = disk' \/ UNCHANGED <<mem, disk>>
  BY <1>9
<1> QED BY <1>2, <1>10, <1>11, <1>15, <1>16, <1>17, <1>18, <1>19, <1>20, <1>22, <1>23 DEF OfflineInv

(* The end of the export: what stands alone was published, so it is known. *)
LEMMA HelperExportedKeeps ==
    ASSUME OfflineAssumption, OfflineInv, HelperExported
    PROVE  /\ OfflineInv' /\ mem' = disk'
           /\ \A r \in Chat : mem'.proj[r] = mem.proj[r]
<1> DEFINE own == {r \in Setting : LET v == Active(versions, r)
                                   IN  v > mem.seen /\ versions[v].own /\ ~versions[v].synth}
           lifted(q) == /\ q.block = "transient" /\ q.v \in verified
                        /\ versions[q.v].res \notin deferred
                        /\ q.v = Active(versions, versions[q.v].res)
           exported == [mem EXCEPT
                !.proj = [r \in Resource |->
                            IF r \in own THEN At(versions, Active(versions, r)) ELSE @[r]],
                !.pending = {IF lifted(q) THEN Entry(q.v, "no") ELSE q : q \in @},
                !.seen = Len(versions)]
<1>1. /\ pc = "scan" /\ todo = {} /\ pc' = "settle"
      /\ mem' = exported /\ disk' = exported
      /\ UNCHANGED <<versions, local, cursor, frozen, todo, scan, deferred, verified, page>>
  BY DEF HelperExported, drain
<1>2. PICK L, m, R, TO, Q, f, n, P :
          /\ L = versions /\ m = mem /\ R = own /\ n = Len(L) /\ P = m.pending
          /\ TO = [r \in Resource |-> Active(L, r)]
          /\ Q = {IF lifted(q) THEN Entry(q.v, "no") ELSE q : q \in P}
          /\ f = [r \in Resource |-> IF r \in own THEN At(L, Active(L, r)) ELSE m.proj[r]]
  OBVIOUS
<1>3. /\ IsLog(L) /\ m \in Saved /\ Stands(L, m) /\ n \in Nat /\ n <= Len(L)
      /\ local \in [Resource -> Content \cup {Absent}]
      /\ scan \in [Resource -> Content \cup {Absent, None}]
  BY <1>2, ReadAll DEF OfflineInv, OfflineTypeInv, CopiesInv
<1>4. PICK m2 : m2 = exported
  OBVIOUS
<1>5. m2 = [proj |-> f, pending |-> Q, seen |-> n]
  <2>1. mem = [proj |-> m.proj, pending |-> P, seen |-> m.seen]
    BY <1>2, <1>3, SavedIs
  <2>2. m2 = [mem EXCEPT !.proj = f, !.pending = Q, !.seen = n]
    <3> HIDE DEF lifted, own
    <3> QED BY <1>2, <1>4
  <2> HIDE DEF exported
  <2> QED BY <2>1, <2>2
<1>6. \A q \in P : (IF lifted(q) THEN Entry(q.v, "no") ELSE q) \in Entries
                   /\ (IF lifted(q) THEN Entry(q.v, "no") ELSE q).v = q.v
  <2>1. ASSUME NEW q \in P
        PROVE  /\ Entry(q.v, "no") \in Entries /\ Entry(q.v, "no").v = q.v /\ q \in Entries
    <3>1. q \in Entries
      BY <1>2, <1>3, SavedIs
    <3> QED BY <3>1 DEF Entry, Entries
  <2> HIDE DEF lifted
  <2> QED BY <2>1
<1>7. /\ Q \in SUBSET Entries /\ \A q \in Q : q.v \in DOMAIN L
      /\ \A q \in Q : \E p \in P : p.v = q.v
  <2>1. \A q \in P : q.v \in DOMAIN L
    BY <1>2, <1>3 DEF Stands
  <2> HIDE DEF lifted
  <2> QED BY <1>2, <1>6, <2>1
<1>8. R \subseteq Setting /\ \A r \in R : TO[r] \in Of(L, r)
  <2>1. ASSUME NEW r \in R PROVE TO[r] \in Of(L, r)
    <3>1. Active(L, r) > m.seen /\ r \in Resource /\ m.seen \in Nat
      BY <1>2, <1>3, SavedIs DEF Resource
    <3>2. Active(L, r) # 0
      BY <3>1
    <3> QED BY <1>2, <1>3, <3>1, <3>2, ActiveIs
  <2> QED BY <1>2, <2>1
<1>9. f = [r \in Resource |-> IF r \in R THEN At(L, TO[r]) ELSE m.proj[r]]
  <2> HIDE DEF own
  <2> QED BY <1>2
<1> HIDE DEF own, lifted, exported
<1>10. /\ m2 \in Saved /\ Stands(L, m2) /\ m2.pending = Q
       /\ \A r \in Resource \ R : m2.proj[r] = m.proj[r]
  <2>1. \A r \in R \cap Resource : TO[r] \in Of(L, r)
    BY <1>8
  <2>2. \A q \in Q : q.v \in DOMAIN L
    BY <1>7
  <2> QED BY <1>3, <1>5, <1>7, <1>9, <2>1, <2>2, MovedIs, SMTT(30)
<1>11. OfflineTypeInv'
  BY <1>1, <1>2, <1>3, <1>4, <1>10 DEF OfflineTypeInv
<1>12. CopiesInv'
  BY <1>1, <1>2, <1>4, <1>10 DEF OfflineInv, CopiesInv
<1>13. CycleInv' /\ ScanInv' /\ PageInv'
  BY <1>1 DEF CycleInv, ScanInv, PageInv
<1>14. HelperInv'
  <2>1. ASSUME NEW v \in verified, cursor = "closed", Res(v) \notin deferred,
               NEW q \in Q, q.v = v
        PROVE  Known(L, Res(v), local[Res(v)]) \/ local[Res(v)] = m2.proj[Res(v)].kept
    <3>1. \E p \in mem.pending : p.v = v
      BY <1>2, <1>7, <2>1
    <3>2. Safe(Res(v))
      BY <1>1, <2>1, <3>1 DEF OfflineInv, HelperInv, Scanned
    <3>3. Res(v) \in Resource
      <4>1. versions[v] \in LogVersion
        BY <1>2, <1>3, LenProperties, ElementOfSeq DEF IsLog, OfflineInv, CopiesInv
      <4> QED BY <4>1 DEF LogVersion, Res
    <3>4. CASE Res(v) \in R
      <4>1. m.proj[Res(v)].kept = None
        BY <1>3, <1>8, <3>3, <3>4 DEF Stands, StandsFor
      <4>2. local[Res(v)] # None
        BY <1>3, <3>3 DEF OfflineAssumption
      <4> QED BY <1>2, <3>2, <4>1, <4>2 DEF Safe
    <3>5. CASE Res(v) \notin R
      BY <1>2, <1>10, <3>2, <3>3, <3>5 DEF Safe
    <3> QED BY <3>4, <3>5
  <2> QED BY <1>1, <1>2, <1>4, <1>10, <2>1 DEF HelperInv, Scanned, Safe, Res
<1>15. mem' = disk' /\ \A r \in Chat : mem'.proj[r] = mem.proj[r]
  BY <1>1, <1>2, <1>4, <1>8, <1>10 DEF Resource, OfflineAssumption
<1> QED BY <1>11, <1>12, <1>13, <1>14, <1>15 DEF OfflineInv

(* The tips to apply are frozen.                                           *)
LEMMA FreezeKeeps ==
    ASSUME OfflineInv, Freeze
    PROVE  OfflineInv'
<1>1. CASE Ends
  BY <1>1, EndsKeeps
<1>2. CASE ~Ends
  <2>1. /\ pc = "settle" /\ pc' = "page"
        /\ frozen' = [r \in Resource |-> Active(versions, r)]
        /\ mem' = [mem EXCEPT !.seen = Len(versions)]
        /\ UNCHANGED <<versions, local, cursor, disk, todo, scan, deferred, verified, page>>
    BY <1>2 DEF Freeze, host, drain
  <2>2. PICK L, m, f, P, n : /\ L = versions /\ m = mem /\ f = m.proj /\ P = m.pending
                             /\ n = Len(L)
    OBVIOUS
  <2>3. /\ IsLog(L) /\ m \in Saved /\ Stands(L, m) /\ P \in SUBSET Entries
        /\ m = [proj |-> f, pending |-> P, seen |-> m.seen] /\ n \in Nat /\ n <= Len(L)
        /\ \A q \in P : q.v \in DOMAIN L
    BY <2>2, SavedIs, ReadAll DEF OfflineInv, OfflineTypeInv, CopiesInv, Stands
  <2>4. PICK m2 : m2 = mem' /\ m2 = [proj |-> f, pending |-> P, seen |-> n]
    <3>1. [m EXCEPT !.seen = n] = [proj |-> f, pending |-> P, seen |-> n]
      BY <2>3
    <3> QED BY <2>1, <2>2, <3>1
  <2>5. m2 \in Saved /\ Stands(L, m2) /\ m2.pending = P /\ m2.proj = m.proj
    <3>1. /\ m \in Saved /\ Stands(L, m) /\ P \in SUBSET Entries
          /\ \A q \in P : q.v \in DOMAIN L
          /\ n \in Nat /\ n <= Len(L) /\ f = m.proj
          /\ m2 = [proj |-> f, pending |-> P, seen |-> n]
      BY <2>2, <2>3, <2>4
    <3> QED BY <3>1, RequeuedIs
  <2>6. \A r \in Resource : frozen'[r] = 0 \/ frozen'[r] \in Of(versions, r)
    BY <2>1, <2>2, <2>3, ActiveIs
  <2>7. OfflineTypeInv'
    BY <2>1, <2>4, <2>5 DEF OfflineInv, OfflineTypeInv
  <2>8. CopiesInv'
    BY <2>1, <2>2, <2>4, <2>5, <2>6 DEF OfflineInv, CopiesInv
  <2>9. CycleInv' /\ ScanInv' /\ PageInv'
    BY <2>1 DEF CycleInv, ScanInv, PageInv
  <2>10. HelperInv'
    BY <2>1, <2>2, <2>4, <2>5 DEF OfflineInv, HelperInv, Scanned, Safe, Res
  <2> QED BY <2>7, <2>8, <2>9, <2>10 DEF OfflineInv
<1> QED BY <1>1, <1>2

(* A page takes of the queue what the scan authorizes.                     *)
LEMMA TakePageKeeps ==
    ASSUME OfflineInv, NEW pg \in SUBSET Candidates, TakePage(pg)
    PROVE  OfflineInv'
<1>1. /\ pc = "page" /\ cursor = "closed"
      /\ \/ pc' = "page"
         \/ pc' = "database" /\ page' = {v \in pg : Eligible(v)}
      /\ UNCHANGED <<versions, local, cursor, disk, mem, frozen, todo, scan, deferred, verified>>
  BY DEF TakePage, host
<1>2. OfflineTypeInv'
  BY <1>1 DEF OfflineInv, OfflineTypeInv
<1>3. CopiesInv'
  BY <1>1 DEF OfflineInv, CopiesInv
<1>4. CycleInv' /\ ScanInv'
  BY <1>1 DEF CycleInv, ScanInv
<1>5. HelperInv'
  BY <1>1 DEF OfflineInv, HelperInv, Scanned, Safe, Res
<1>6. PageInv'
  <2>1. \A v \in pg : \E q \in mem.pending : q.v = v
    BY DEF Candidates, Ready
  <2> QED BY <1>1, <2>1 DEF PageInv, Eligible, Res
<1> QED BY <1>2, <1>3, <1>4, <1>5, <1>6 DEF OfflineInv

(* A version of the log has content.                                       *)
LEMMA HashIs ==
    ASSUME NEW L, IsLog(L), NEW v \in DOMAIN L
    PROVE  L[v].hash \in Content \cup {Absent} /\ L[v].res \in Resource
<1>1. L[v] \in LogVersion
  BY LenProperties, ElementOfSeq DEF IsLog
<1> QED BY <1>1 DEF LogVersion

(* What is on the page is safe to write over.                              *)
LEMMA PageIsSafe ==
    ASSUME OfflineInv, pc \in {"database", "files"}, cursor = "closed", NEW v \in page
    PROVE  /\ Safe(Res(v)) /\ Res(v) \in Resource /\ v \in Of(versions, Res(v))
           /\ versions[v].hash \in Content \cup {Absent}
<1>1. /\ v \in verified /\ Res(v) \notin deferred /\ \E q \in mem.pending : q.v = v
      /\ v \in DOMAIN versions /\ IsLog(versions)
  BY DEF OfflineInv, OfflineTypeInv, CopiesInv, PageInv
<1>2. Safe(Res(v))
  BY <1>1 DEF OfflineInv, HelperInv, Scanned
<1> QED BY <1>1, <1>2, HashIs DEF Res, Of

(* The writes of a page put versions in the place of what is safe.         *)
LEMMA WritesKeep ==
    ASSUME OfflineInv, local' \in [Resource -> Content \cup {Absent}],
           pc \in {"database", "files"}, pc' = "files",
           UNCHANGED <<versions, cursor, disk, mem, frozen, scan, deferred, verified, page>>,
           \A r \in Resource : local'[r] # local[r] => Known(versions, r, local'[r])
    PROVE  OfflineInv'
<1>1. OfflineTypeInv'
  BY DEF OfflineInv, OfflineTypeInv
<1>2. CopiesInv'
  BY DEF OfflineInv, CopiesInv
<1>3. CycleInv' /\ ScanInv'
  BY DEF CycleInv, ScanInv
<1>4. PageInv'
  BY DEF OfflineInv, PageInv, Res
<1>5. HelperInv'
  <2>1. ASSUME NEW v \in verified, cursor = "closed", Res(v) \notin deferred,
               \E q \in mem.pending : q.v = v
        PROVE  Known(versions, Res(v), local'[Res(v)]) \/ local'[Res(v)] = mem.proj[Res(v)].kept
    <3>1. Safe(Res(v))
      BY <2>1 DEF OfflineInv, HelperInv, Scanned
    <3>2. Res(v) \in Resource
      BY HashIs DEF OfflineInv, OfflineTypeInv, CopiesInv, Res
    <3> QED BY <3>1, <3>2 DEF Safe
  <2> QED BY <2>1 DEF HelperInv, Scanned, Safe, Res
<1> QED BY <1>1, <1>2, <1>3, <1>4, <1>5 DEF OfflineInv

(* The chats of a page.                                                    *)
LEMMA WriteDatabaseKeeps ==
    ASSUME OfflineInv, NEW out, WriteDatabase(out)
    PROVE  OfflineInv' /\ Overwrites
<1> DEFINE chats == {v \in page : Res(v) \in Chat}
           in(r) == {v \in chats : Res(v) = r /\ out[v] = "applied"}
<1>1. /\ pc = "database" /\ pc' = "files" /\ (chats = {} \/ cursor = "closed")
      /\ local' = [r \in Resource |->
             IF in(r) = {} THEN local[r] ELSE Written(r, CHOOSE v \in in(r) : TRUE)]
      /\ UNCHANGED <<versions, cursor, disk, mem, frozen, scan, deferred, verified, page>>
  BY DEF WriteDatabase
<1>2. local \in [Resource -> Content \cup {Absent}]
  BY DEF OfflineInv, OfflineTypeInv
<1>3. ASSUME NEW r \in Resource, in(r) # {}
      PROVE  /\ Safe(r)
             /\ local'[r] = local[r]
                \/ (Known(versions, r, local'[r]) /\ local'[r] \in Content \cup {Absent})
  <2>1. PICK v \in in(r) : v = CHOOSE u \in in(r) : TRUE
    BY <1>3
  <2>2. v \in page /\ Res(v) = r /\ cursor = "closed"
    BY <1>1, <2>1
  <2>3. /\ Safe(r) /\ v \in Of(versions, r)
        /\ versions[v].hash \in Content \cup {Absent}
    BY <1>1, <2>2, PageIsSafe
  <2>4. local'[r] = Written(r, v)
    BY <1>1, <1>3, <2>1
  <2> HIDE DEF in
  <2> QED BY <2>3, <2>4 DEF Written, Known
<1>4. \A r \in Resource : in(r) = {} => local'[r] = local[r]
  BY <1>1
<1>5. local' = [r \in Resource |-> local'[r]]
  <2> HIDE DEF in, chats
  <2> QED BY <1>1
<1> HIDE DEF in, chats
<1>6. local' \in [Resource -> Content \cup {Absent}]
  <2>1. \A r \in Resource : local'[r] \in Content \cup {Absent}
    BY <1>2, <1>3, <1>4
  <2> QED BY <1>5, <2>1
<1>7. \A r \in Resource : local'[r] # local[r] => Safe(r) /\ Known(versions, r, local'[r])
  BY <1>3, <1>4
<1>8. OfflineInv'
  BY <1>1, <1>6, <1>7, WritesKeep
<1> QED BY <1>7, <1>8 DEF Overwrites

(* One file of a page.                                                     *)
LEMMA WriteFileKeeps ==
    ASSUME OfflineInv, NEW v \in page, NEW out \in Outcomes, WriteFile(v, out)
    PROVE  OfflineInv' /\ Overwrites
<1>1. /\ pc = "files" /\ pc' = "files" /\ cursor = "closed"
      /\ \/ local' = local
         \/ local' = [local EXCEPT ![Res(v)] = versions[v].hash]
      /\ UNCHANGED <<versions, cursor, disk, mem, frozen, scan, deferred, verified, page>>
  BY DEF WriteFile
<1>2. local \in [Resource -> Content \cup {Absent}]
  BY DEF OfflineInv, OfflineTypeInv
<1>3. /\ Safe(Res(v)) /\ Res(v) \in Resource /\ v \in Of(versions, Res(v))
      /\ versions[v].hash \in Content \cup {Absent}
  BY <1>1, PageIsSafe
<1>4. /\ local' \in [Resource -> Content \cup {Absent}]
      /\ \A r \in Resource : local'[r] # local[r] => Safe(r) /\ Known(versions, r, local'[r])
  BY <1>1, <1>2, <1>3 DEF Known
<1>5. OfflineInv'
  BY <1>1, <1>4, WritesKeep
<1> QED BY <1>4, <1>5 DEF Overwrites

(* A page that was written is marked: what it applied leaves the queue.    *)
LEMMA MarkPageKeeps ==
    ASSUME OfflineAssumption, OfflineInv, MarkPage
    PROVE  /\ OfflineInv' /\ mem' = disk'
           /\ \A r \in Resource :
                 \/ mem'.proj[r] = mem.proj[r] /\ \A v \in Applied : Res(v) # r
                 \/ \E v \in Applied : Res(v) = r /\ mem'.proj[r] = Marked(mem.proj[r], v)
<1> DEFINE R == {Res(v) : v \in Applied}
           of(r) == CHOOSE v \in Applied : Res(v) = r
           fails == {Res(v) : v \in {u \in page : done[u] = "failed"}}
           marked == [mem EXCEPT
                !.proj = [r \in Resource |->
                            IF r \in R THEN Marked(@[r], of(r)) ELSE @[r]],
                !.pending = {IF Res(q.v) \in fails THEN Entry(q.v, "failed") ELSE q :
                                q \in {p \in @ : Res(p.v) \notin R}}]
<1>1. /\ pc = "files" /\ pc' = "page" /\ mem' = marked /\ disk' = marked /\ page' = {}
      /\ UNCHANGED <<versions, local, cursor, frozen, todo, scan, deferred, verified>>
  BY DEF MarkPage, host
<1>2. PICK L, m, f, P, S, g, Q, k, TO, D, m2 :
          /\ L = versions /\ m = mem /\ f = m.proj /\ P = m.pending /\ k = m.seen
          /\ S = R /\ D = fails /\ TO = [r \in Resource |-> of(r)]
          /\ g = [r \in Resource |-> IF r \in R THEN Marked(mem.proj[r], of(r)) ELSE mem.proj[r]]
          /\ Q = {IF Res(q.v) \in fails THEN Entry(q.v, "failed") ELSE q :
                     q \in {p \in mem.pending : Res(p.v) \notin R}}
          /\ m2 = marked
  OBVIOUS
<1>3. /\ IsLog(L) /\ m \in Saved /\ Stands(L, m) /\ k \in Nat /\ k <= Len(L)
      /\ f \in [Resource -> Projections] /\ P \in SUBSET Entries
      /\ m = [proj |-> f, pending |-> P, seen |-> k]
      /\ \A r \in Resource : StandsFor(L, r, f[r])
      /\ \A q \in P : q.v \in DOMAIN L
  BY <1>2, SavedIs DEF OfflineInv, OfflineTypeInv, CopiesInv, Stands
<1>4. \A r \in S : TO[r] \in Of(L, r) /\ r \in Resource
  <2>1. ASSUME NEW r \in S PROVE of(r) \in Of(L, r) /\ r \in Resource
    <3>1. of(r) \in Applied /\ Res(of(r)) = r
      BY <1>2
    <3>2. of(r) \in page
      BY <3>1 DEF Applied
    <3>3. of(r) \in DOMAIN versions
      BY <1>1, <3>2 DEF OfflineInv, CopiesInv, PageInv
    <3> QED BY <1>2, <1>3, <3>1, <3>3, HashIs DEF Of, Res
  <2> QED BY <1>2, <2>1
<1>5. g = [r \in Resource |-> IF r \in S THEN Marked(f[r], TO[r]) ELSE f[r]]
  <2> HIDE DEF R, of
  <2> QED BY <1>2
<1>6. m2 = [proj |-> g, pending |-> Q, seen |-> k]
  <2>1. m2 = [mem EXCEPT !.proj = g, !.pending = Q]
    <3> HIDE DEF R, of, fails
    <3> QED BY <1>2
  <2> HIDE DEF marked
  <2> QED BY <1>2, <1>3, <2>1
<1>a. \A r \in Resource : IF r \in S THEN TO[r] \in Applied /\ Res(TO[r]) = r
                            ELSE \A v \in Applied : Res(v) # r
  BY <1>2
<1> HIDE DEF R, of, fails, marked
<1>7. ASSUME NEW r \in Resource
      PROVE  g[r] \in Projections /\ StandsFor(L, r, g[r])
  <2>1. CASE r \notin S
    BY <1>3, <1>5, <2>1
  <2>2. CASE r \in S
    <3>1. PICK v \in Of(L, r) : v = TO[r]
      BY <1>4, <2>2
    <3>2. Res(v) = r /\ g[r] = Marked(f[r], v)
      BY <1>2, <1>5, <2>2, <3>1 DEF Of, Res
    <3>3. /\ f[r].kept \in Content \cup {Absent, None}
          /\ f[r].hash \in Content \cup {Absent, None}
      BY <1>3 DEF Projections
    <3>4. PICK c \in Content \cup {Absent, None} :
              /\ c = IF r \in Chat /\ L[v].hash = Absent
                     THEN IF f[r].kept # None THEN f[r].kept ELSE f[r].hash
                     ELSE None
      BY <3>3
    <3>5. g[r] = [At(L, v) EXCEPT !.kept = c]
      BY <1>2, <3>2, <3>4 DEF Marked
    <3>6. CASE r \in Setting
      <4>1. c = None
        BY <3>4, <3>6 DEF OfflineAssumption
      <4>2. PICK h : h = L[v].hash
        OBVIOUS
      <4>3. At(L, v) = [v |-> v, hash |-> h, kept |-> None]
        BY <4>2 DEF At
      <4>4. g[r] = At(L, v)
        BY <3>5, <4>1, <4>3
      <4> QED BY <1>3, <4>4, AtIs
    <3>7. CASE r \notin Setting
      <4>1. PICK p : p = [At(L, v) EXCEPT !.kept = c]
        OBVIOUS
      <4>2. p \in Projections /\ StandsFor(L, r, p)
        BY <1>3, <3>7, <4>1, KeptIs
      <4> QED BY <3>5, <4>1, <4>2
    <3> QED BY <3>6, <3>7
  <2> QED BY <2>1, <2>2
<1>8. g \in [Resource -> Projections] /\ \A r \in Resource : r \notin S => g[r] = f[r]
  BY <1>5, <1>7
<1>9. /\ Q \in SUBSET Entries /\ \A q \in Q : q.v \in DOMAIN L
      /\ \A q \in Q : \E p \in P : p.v = q.v /\ Res(p.v) \notin S
  <2>1. ASSUME NEW q \in P
        PROVE  /\ Entry(q.v, "failed") \in Entries /\ Entry(q.v, "failed").v = q.v
               /\ q \in Entries /\ q.v \in DOMAIN L
    <3>1. q \in Entries /\ q.v \in DOMAIN L
      BY <1>3
    <3> QED BY <3>1 DEF Entry, Entries
  <2> QED BY <1>2, <2>1
<1>10. m2.proj = g /\ m2.pending = Q /\ m2.seen = k
  BY <1>6
<1>11. m2 \in Saved /\ Stands(L, m2)
  <2>1. m2 \in Saved
    BY <1>3, <1>6, <1>8, <1>9 DEF Saved, Entries
  <2> QED BY <1>3, <1>7, <1>9, <1>10, <2>1 DEF Stands
<1>12. OfflineTypeInv'
  BY <1>1, <1>2, <1>11 DEF OfflineInv, OfflineTypeInv
<1>13. CopiesInv'
  BY <1>1, <1>2, <1>11 DEF OfflineInv, CopiesInv
<1>14. CycleInv' /\ ScanInv' /\ PageInv'
  BY <1>1 DEF CycleInv, ScanInv, PageInv
<1>15. HelperInv'
  <2>1. ASSUME NEW v \in verified, cursor = "closed", Res(v) \notin deferred,
               NEW q \in Q, q.v = v
        PROVE  Known(L, Res(v), local[Res(v)]) \/ local[Res(v)] = m2.proj[Res(v)].kept
    <3>1. (\E p \in mem.pending : p.v = v) /\ Res(v) \notin S
      BY <1>2, <1>9, <2>1
    <3>2. Safe(Res(v))
      BY <1>1, <2>1, <3>1 DEF OfflineInv, HelperInv, Scanned
    <3>3. Res(v) \in Resource
      BY <1>2, <1>3, HashIs DEF OfflineInv, CopiesInv, Res
    <3> QED BY <1>2, <1>8, <1>10, <3>1, <3>2, <3>3 DEF Safe
  <2> QED BY <1>1, <1>2, <1>10, <2>1 DEF HelperInv, Scanned, Safe, Res
<1>16. ASSUME NEW r \in Resource
       PROVE  \/ mem'.proj[r] = mem.proj[r] /\ \A v \in Applied : Res(v) # r
              \/ \E v \in Applied : Res(v) = r /\ mem'.proj[r] = Marked(mem.proj[r], v)
  <2>1. mem'.proj[r] = IF r \in S THEN Marked(mem.proj[r], TO[r]) ELSE mem.proj[r]
    BY <1>1, <1>2, <1>5, <1>10
  <2> QED BY <1>a, <2>1
<1> QED BY <1>1, <1>12, <1>13, <1>14, <1>15, <1>16 DEF OfflineInv

-----------------------------------------------------------------------------
(* The invariant holds.                                                    *)

(* At first everything stands where it was received.                       *)
LEMMA OfflineInitInv ==
    ASSUME OfflineAssumption, Init
    PROVE  OfflineInv
<1>1. PICK F, W, L0, L, s : /\ F = {Version(r, Initial, FALSE, {}) : r \in Resource}
                            /\ W = [r \in Resource |-> Version(r, Initial, FALSE, {})]
                            /\ L0 = <<>> /\ s = SetToSeq(F) /\ L = L0 \o s
  OBVIOUS
<1>2. IsLog(L0) /\ Len(L0) = 0 /\ DOMAIN L0 = {}
  BY <1>1, EmptySeq DEF IsLog
<1>3. Initial \in Content \cup {Absent}
  BY DEF OfflineAssumption
<1>4. Writes(L0, Resource, W, F)
  <2>1. ASSUME NEW r \in Resource
        PROVE  /\ W[r] \in LogVersion /\ W[r].res = r /\ W[r].parents = {}
    BY <1>1, <1>3 DEF Version, LogVersion
  <2>2. \A r \in Resource : W[r] \in F
    BY <1>1
  <2>3. \A x \in F : \E r \in Resource : x = W[r]
    BY <1>1
  <2> QED BY <2>1, <2>2, <2>3 DEF Writes
<1>5. /\ IsLog(L)
      /\ \A r \in Resource : Of(L, r) # {}
      /\ \A v \in DOMAIN L : v > 0 => L[v] = W[L[v].res] /\ L[v].res \in Resource
  <2>1. PICK R0 \in SUBSET Resource : R0 = Resource
    OBVIOUS
  <2>2. Writes(L0, R0, W, F) /\ R0 \in SUBSET Resource /\ L = L0 \o SetToSeq(F) /\ IsLog(L0)
    BY <1>1, <1>2, <1>4, <2>1
  <2>3. /\ IsLog(L)
        /\ \A r \in R0 : \E v \in Of(L, r) : v > Len(L0)
        /\ \A v \in DOMAIN L : v > Len(L0) => L[v].res \in R0 /\ L[v] = W[L[v].res]
    <3>1. /\ IsLog(L) /\ Beyond(L0, L, R0, W)
          /\ \A r \in R0 : \E v \in Of(L, r) : v > Len(L0)
      BY <2>2, ExtendedIs
    <3> QED BY <3>1 DEF Beyond
  <2> QED BY <1>2, <2>1, <2>3
<1>6. IsFiniteSet(F)
  <2>1. W \in Surjection(Resource, F)
    BY <1>1 DEF Surjection
  <2> QED BY <2>1, FS_Surjection DEF OfflineAssumption
<1>7. versions = L
  <2>1. s \in Seq(F)
    BY <1>1, <1>6, SetToSeqIs
  <2>2. L = s
    BY <1>1, <2>1, ConcatEmptySeq
  <2> QED BY <1>1, <2>2 DEF Init
<1>8. ASSUME NEW r \in Resource PROVE Active(L, r) \in Of(L, r)
  <2>1. \A v \in Of(L, r) : L[v] = W[r]
    <3>1. \A v \in Of(L, r) : v \in DOMAIN L /\ v > 0 /\ L[v].res = r
      BY <1>5, LenProperties DEF Of, IsLog
    <3> QED BY <1>5, <3>1
  <2>2. ~Conflict(L, r)
    BY <1>5, <2>1, ActiveIs DEF Conflict
  <2> QED BY <1>5, <2>2, ActiveIs
<1>9. PICK f, n : /\ f = [r \in Resource |-> At(L, Active(L, r))]
                  /\ n = Len(L) /\ n \in Nat
  BY <1>5, ReadAll
<1>10. \A r \in Resource : f[r] \in Projections /\ StandsFor(L, r, f[r])
  BY <1>5, <1>8, <1>9, AtIs
<1>11. PICK m : m = disk /\ m = [proj |-> f, pending |-> {}, seen |-> n]
  BY <1>7, <1>9 DEF Init
<1>12. m \in Saved /\ Stands(L, m)
  <2>1. m.proj = f /\ m.pending = {} /\ m.seen = n
    BY <1>11
  <2>2. f \in [Resource -> Projections]
    BY <1>9, <1>10
  <2>3. m \in Saved
    BY <1>9, <1>11, <2>2 DEF Saved
  <2> QED BY <1>9, <1>10, <2>1, <2>3 DEF Stands
<1>13. /\ mem = disk /\ pc = "idle" /\ frozen = Nothing /\ scan = Nobody /\ verified = {}
       /\ local = [r \in Resource |-> Initial] /\ page = {}
  BY DEF Init
<1>14. OfflineTypeInv
  BY <1>3, <1>5, <1>7, <1>11, <1>12, <1>13 DEF OfflineTypeInv, Nobody
<1>15. CopiesInv
  BY <1>7, <1>11, <1>12, <1>13 DEF CopiesInv, Nothing
<1>16. CycleInv /\ HelperInv /\ ScanInv /\ PageInv
  BY <1>13 DEF CycleInv, HelperInv, ScanInv, PageInv
<1> QED BY <1>14, <1>15, <1>16 DEF OfflineInv

(* The steps that do not write into Cursor.                                *)
LEMMA QuietKeeps ==
    ASSUME OfflineAssumption, OfflineInv,
           \/ \E late \in SUBSET Resource, failed \in BOOLEAN, N \in SUBSET Setting :
                 \E g \in [N -> Content] : HostScan(late, failed, N, g)
           \/ HostSave \/ HelperStart
           \/ \E r \in Resource, ok \in BOOLEAN : HelperScan(r, ok)
           \/ HelperExported \/ Interrupted
           \/ \E N \in SUBSET Chat : \E g \in [N -> Content] : Settle(N, g)
           \/ Freeze
           \/ \E pg \in SUBSET Candidates : TakePage(pg)
           \/ Drained \/ MarkPage
           \/ \E r \in Resource, c \in Content \cup {Absent} :
                 \E parents \in {{v} : v \in Of(versions, r)} \cup {Tips(versions, r)} :
                    PeerPublish(r, c, parents)
           \/ \E m \in {"final", "export"} : CloseCursor(m)
           \/ OpenCursor \/ Crash
    PROVE  OfflineInv' /\ Overwrites
<1>1. local' = local
  <2>1. ASSUME NEW late, NEW failed, NEW N, NEW g, HostScan(late, failed, N, g)
        PROVE  local' = local
    BY <2>1 DEF HostScan
  <2>2. HostSave \/ HelperStart \/ HelperExported \/ Freeze \/ MarkPage => local' = local
    BY DEF HostSave, HelperStart, HelperExported, Freeze, MarkPage, Ends, host
  <2>3. ASSUME NEW r, NEW ok, HelperScan(r, ok) PROVE local' = local
    BY <2>3 DEF HelperScan
  <2>4. Interrupted \/ Drained \/ Crash \/ OpenCursor => local' = local
    BY DEF Interrupted, Drained, Crash, OpenCursor, Ends
  <2>5. ASSUME NEW N, NEW g, Settle(N, g) PROVE local' = local
    BY <2>5 DEF Settle, host
  <2>6. ASSUME NEW pg, TakePage(pg) PROVE local' = local
    BY <2>6 DEF TakePage, host
  <2>7. ASSUME NEW r, NEW c, NEW P, PeerPublish(r, c, P) PROVE local' = local
    BY <2>7 DEF PeerPublish, host
  <2>8. ASSUME NEW m, CloseCursor(m) PROVE local' = local
    BY <2>8 DEF CloseCursor
  <2> QED BY <2>1, <2>2, <2>3, <2>4, <2>5, <2>6, <2>7, <2>8
<1>2. Overwrites
  BY <1>1 DEF Overwrites
<1>3. ASSUME NEW r \in Resource, NEW c \in Content \cup {Absent},
             NEW P \in {{v} : v \in Of(versions, r)} \cup {Tips(versions, r)},
             PeerPublish(r, c, P)
      PROVE  OfflineInv'
  <2>1. P \in SUBSET Of(versions, r)
    BY ActiveIs DEF OfflineInv, OfflineTypeInv
  <2> QED BY <1>3, <2>1, PeerKeeps
<1>4. Interrupted \/ Drained \/ Crash => OfflineInv'
  BY EndsKeeps DEF Interrupted, Drained
<1>5. OfflineInv'
  BY <1>3, <1>4, HostScanKeeps, HostSaveKeeps, HelperStartKeeps, HelperScanKeeps,
     HelperExportedKeeps, SettleKeeps, FreezeKeeps, TakePageKeeps, MarkPageKeeps, CursorKeeps
<1> QED BY <1>2, <1>5

(* Every step; only the user writes over what is not safe.                 *)
LEMMA OfflineNextInv ==
    ASSUME OfflineAssumption, OfflineInv, EditsDuringCycle = FALSE, Next
    PROVE  OfflineInv' /\ (UserEdits \/ Overwrites)
<1>1. CASE UserEdits
  BY <1>1, UserKeeps DEF UserEdits
<1>2. CASE \/ \E r \in Resource, ok \in BOOLEAN : HostApply(r, ok)
           \/ \E unfinished \in SUBSET Chat : SyncAndApply(unfinished)
           \/ \E out \in [{v \in page : Res(v) \in Chat} -> Outcomes] : WriteDatabase(out)
           \/ \E v \in todo \cap page, out \in Outcomes : WriteFile(v, out)
  BY <1>2, HostApplyKeeps, SyncAndApplyKeeps, WriteDatabaseKeeps, WriteFileKeeps
<1>3. CASE HostStep
  <2>1. CASE \E late \in SUBSET Resource, failed \in BOOLEAN, N \in SUBSET Setting :
                \E g \in [N -> Content] : HostScan(late, failed, N, g)
    BY <2>1, QuietKeeps
  <2>2. CASE HostSave
    BY <2>2, QuietKeeps
  <2> QED BY <1>2, <1>3, <2>1, <2>2 DEF HostStep
<1>4. CASE HelperStep
  <2>1. CASE \E r \in Resource, ok \in BOOLEAN : HelperScan(r, ok)
    BY <2>1, QuietKeeps
  <2>2. CASE \E N \in SUBSET Chat : \E g \in [N -> Content] : Settle(N, g)
    BY <2>2, QuietKeeps
  <2>3. CASE \E pg \in SUBSET Candidates : TakePage(pg)
    BY <2>3, QuietKeeps
  <2>4. CASE HelperStart \/ HelperExported \/ Interrupted \/ Freeze \/ Drained \/ MarkPage
    BY <2>4, QuietKeeps
  <2> QED BY <1>2, <1>4, <2>1, <2>2, <2>3, <2>4 DEF HelperStep
<1>5. CASE \E r \in Resource, c \in Content \cup {Absent} :
              \E parents \in {{v} : v \in Of(versions, r)} \cup {Tips(versions, r)} :
                 PeerPublish(r, c, parents)
  BY <1>5, QuietKeeps
<1>6. CASE OpenCursor \/ Crash \/ \E m \in {"final", "export"} : CloseCursor(m)
  BY <1>6, QuietKeeps
<1> QED BY <1>1, <1>2, <1>3, <1>4, <1>5, <1>6 DEF Next

(* The other machines leave this one alone.                                *)
LEMMA OfflineMoves ==
    ASSUME [MCNext]_<<part, vars, gitVars, forkVars, chatVars>>
    PROVE  [Next]_vars
BY DEF MCNext, Only

(* So it holds throughout.                                                 *)
LEMMA OfflineInvariance ==
    ASSUME EditsDuringCycle = FALSE
    PROVE  MCSpec => []OfflineInv
<1>1. MCInit => OfflineInv
  BY OfflineAssumption, OfflineInitInv DEF MCInit
<1>2. OfflineInv /\ [MCNext]_<<part, vars, gitVars, forkVars, chatVars>> => OfflineInv'
  <2>1. ASSUME OfflineInv, UNCHANGED vars PROVE OfflineInv'
    <3>1. UNCHANGED <<versions, local, cursor, disk, mem, pc, frozen, todo, scan, deferred,
                      verified, page>>
      BY <2>1 DEF vars, host, cycle, drain
    <3>2. Grows(versions, versions') /\ IsLog(versions')
      BY <2>1, <3>1, GrowsItself DEF OfflineInv, OfflineTypeInv
    <3> QED BY <2>1, <3>1, <3>2, EnvironmentKeeps DEF OfflineInv, OfflineTypeInv
  <2> QED BY <2>1, OfflineAssumption, OfflineNextInv, OfflineMoves
<1> QED BY <1>1, <1>2, PTL DEF MCSpec

(* Whatever is scanned late, fails or dies, a cycle and the helper write   *)
(* over content only when the log has it or it is the copy kept in spite of*)
(* a tombstone, for any number of resources, edits, versions and faults, as*)
(* long as no setting is edited in the middle of a cycle (performSync,     *)
(* exportFinalChanges, applyVerifiedPage).                                 *)
THEOREM EditsStand ==
    ASSUME EditsDuringCycle = FALSE
    PROVE  MCSpec => NoEditLost
<1> DEFINE Stay == ~UserEdits => \A r \in Resource : local'[r] # local[r] =>
                       \/ \E v \in Of(versions, r) : versions[v].hash = local[r]
                       \/ local[r] = mem.proj[r].kept
<1>1. OfflineInv /\ [MCNext]_<<part, vars, gitVars, forkVars, chatVars>> => [Stay]_vars
  <2>1. ASSUME OfflineInv, Next PROVE Stay
    <3>1. UserEdits \/ Overwrites
      BY <2>1, OfflineAssumption, OfflineNextInv
    <3> QED BY <3>1 DEF Overwrites, Safe, Known
  <2> QED BY <2>1, OfflineMoves
<1> QED BY <1>1, OfflineInvariance, PTL DEF MCSpec, NoEditLost

-----------------------------------------------------------------------------
(* Deletions of conversations.                                             *)
(*                                                                         *)
(* The argument: a version can supersede a tombstone only where the        *)
(* projection is at it, since own versions of chats hold words (Words).    *)
(* There the projection has a copy, which is what Cursor has unless the    *)
(* chat was edited (CopyInv), and a scan does not publish that copy.  A    *)
(* cycle moves to a tombstone what it has scanned (CycledInv), the helper  *)
(* what its last scan has read (ReadInv), and what a page writes is where  *)
(* it will be marked (WrittenInv).                                         *)

(* The page has put another version in the place of what r was.            *)
Rewritten(r) ==
    pc = "files" /\ \E v \in page : Res(v) = r /\ done[v] = "applied"
                                    /\ versions[v].hash # Absent

ChatInv(r) ==
    /\ local[r] # Absent /\ scan[r] # Absent
    /\ mem.proj[r].kept # None <=> mem.proj[r].hash = Absent
    /\ pc # "apply" => mem.proj[r] = disk.proj[r]

CopyInv(r) ==
    r \notin dirty /\ ~Rewritten(r) => mem.proj[r].kept \in {local[r], None}

CycledInv(r) ==
    pc = "apply" /\ r \in todo /\ r \notin dirty =>
        scan[r] = local[r] \/ (scan[r] = None /\ HasIt(r))

WasRead(r) ==
    /\ pc \in {"scan", "settle", "page", "database", "files"} /\ cursor = "closed"
    /\ r \notin deferred /\ (pc = "scan" => r \notin todo)

ReadInv(r) == WasRead(r) /\ ~Rewritten(r) => HasIt(r)

WrittenInv(r) ==
    pc = "files" => \A v \in page : Res(v) = r /\ done[v] = "applied" =>
        IF versions[v].hash = Absent THEN r \in dirty \/ HasIt(r)
        ELSE cursor = "closed" => local[r] = versions[v].hash

Words == \A v \in DOMAIN versions : versions[v].own /\ Res(v) \in Chat => versions[v].hash # Absent

(* A page has one version of each resource, and its chats are written first. *)
Pages ==
    /\ pc \in {"database", "files"} => \A v \in page : v = frozen[Res(v)]
    /\ pc = "files" => \A v \in todo : v \in page /\ Res(v) \notin Chat
    /\ pc = "files" => DOMAIN done = page

DeletionInv ==
    /\ Words /\ Pages
    /\ \A r \in Chat : ChatInv(r) /\ CopyInv(r) /\ CycledInv(r) /\ ReadInv(r) /\ WrittenInv(r)

(* What a scan adds to the log are words.                                  *)
LEMMA WordsGrow ==
    ASSUME OfflineAssumption, OfflineInv, DeletionInv, NEW L, NEW m, Additions(L, m)
    PROVE  Words'
<1>1. ASSUME NEW v \in DOMAIN versions', versions'[v].own, versions'[v].res \in Chat
      PROVE  versions'[v].hash # Absent
  <2>1. CASE v \in DOMAIN versions
    <3>1. versions'[v] = versions[v]
      BY <2>1, GrowsIs DEF Additions
    <3> QED BY <1>1, <2>1, <3>1 DEF DeletionInv, Words, Res
  <2>2. CASE v \notin DOMAIN versions
    <3>1. \/ versions'[v].hash \in Content
          \/ versions'[v].hash = local[versions'[v].res]
      BY <2>2 DEF Additions, IsEdit
    <3> QED BY <1>1, <3>1 DEF DeletionInv, ChatInv, OfflineAssumption
  <2> QED BY <2>1, <2>2
<1> QED BY <1>1 DEF Words, Res

(* A step outside the writes of a page, which moves projections only to    *)
(* what is there.                                                          *)
LEMMA MovesStay ==
    ASSUME OfflineAssumption, OfflineInv, DeletionInv, pc # "files", pc' # "files",
           Forgets, Words', Pages',
           \A r \in Chat :
              /\ local'[r] = local[r] /\ Caught(mem.proj[r], mem'.proj[r], local[r])
              /\ pc' # "apply" => mem'.proj[r] = disk'.proj[r]
              /\ scan'[r] # Absent /\ CycledInv(r)'
              /\ WasRead(r)' => WasRead(r) \/ HasIt(r)'
    PROVE  DeletionInv'
<1>1. ASSUME NEW r \in Chat
      PROVE  ChatInv(r)' /\ CopyInv(r)' /\ CycledInv(r)' /\ ReadInv(r)' /\ WrittenInv(r)'
  <2>1. ChatInv(r) /\ CopyInv(r) /\ ReadInv(r) /\ ~Rewritten(r)
    BY DEF DeletionInv, Rewritten
  <2>2. /\ local'[r] = local[r] /\ Caught(mem.proj[r], mem'.proj[r], local[r])
        /\ WasRead(r)' => WasRead(r) \/ HasIt(r)'
        /\ CycledInv(r)'
    OBVIOUS
  <2>3. ChatInv(r)'
    BY <2>1, <2>2 DEF ChatInv, Caught
  <2>4. CopyInv(r)'
    <3>1. CASE r \in dirty /\ r \notin dirty'
      BY <2>2, <2>3, <3>1 DEF Forgets, HasIt, CopyInv, ChatInv
    <3>2. CASE r \notin dirty
      BY <2>1, <2>2, <3>2 DEF CopyInv, Caught
    <3> QED BY <3>1, <3>2 DEF CopyInv
  <2>5. ReadInv(r)'
    <3>1. ASSUME HasIt(r) PROVE HasIt(r)'
      BY <2>2, <3>1 DEF HasIt, Caught
    <3> QED BY <2>1, <2>2, <3>1 DEF ReadInv
  <2>6. WrittenInv(r)'
    BY DEF WrittenInv
  <2> QED BY <2>2, <2>3, <2>4, <2>5, <2>6
<1> QED BY <1>1 DEF DeletionInv

(* Edits, versions of other devices, Cursor opened and closed.             *)
LEMMA EnvironmentStays ==
    ASSUME OfflineAssumption, OfflineInv, DeletionInv, Grows(versions, versions'), Words',
           UNCHANGED <<disk, mem, pc, frozen, todo, scan, deferred, page, done>>,
           dirty \subseteq dirty',
           \A r \in Chat : local'[r] = local[r] \/ (r \in dirty' /\ local'[r] # Absent),
           cursor' = "closed" /\ pc # "idle" => cursor = "closed" /\ local' = local
    PROVE  DeletionInv'
<1>1. ASSUME NEW v \in page, pc \in {"database", "files"}
      PROVE  Res(v)' = Res(v) /\ versions'[v] = versions[v]
  BY <1>1, GrowsIs DEF OfflineInv, PageInv, CopiesInv, Res
<1>2. Pages'
  <2>1. pc \in {"database", "files"} => \A v \in page : v = frozen[Res(v)']
    BY <1>1 DEF DeletionInv, Pages
  <2>2. pc = "files" => todo' = todo
    OBVIOUS
  <2>3. ASSUME pc = "files", NEW v \in todo PROVE versions'[v].res \notin Chat
    <3>1. v \in page /\ Res(v) \notin Chat
      BY <2>3 DEF DeletionInv, Pages
    <3> QED BY <1>1, <2>3, <3>1 DEF Res
  <2>4. pc = "files" => (\A v \in todo : v \in page) /\ DOMAIN done = page
    BY DEF DeletionInv, Pages
  <2> QED BY <2>1, <2>4, <2>2, <2>3 DEF Pages, Res
<1>3. ASSUME NEW r \in Chat
      PROVE  ChatInv(r)' /\ CopyInv(r)' /\ CycledInv(r)' /\ ReadInv(r)' /\ WrittenInv(r)'
  <2>1. /\ ChatInv(r) /\ CopyInv(r) /\ CycledInv(r) /\ ReadInv(r) /\ WrittenInv(r)
        /\ local'[r] = local[r] \/ (r \in dirty' /\ local'[r] # Absent)
    BY DEF DeletionInv
  <2>2. Rewritten(r)' <=> Rewritten(r)
    BY <1>1 DEF Rewritten
  <2>3. ChatInv(r)' /\ CopyInv(r)' /\ CycledInv(r)'
    BY <2>1, <2>2 DEF ChatInv, CopyInv, CycledInv, HasIt
  <2>4. ReadInv(r)'
    BY <2>1, <2>2 DEF ReadInv, WasRead, HasIt
  <2>5. WrittenInv(r)'
    <3>1. ASSUME pc = "files", NEW v \in page, Res(v) = r, done[v] = "applied"
          PROVE  IF versions[v].hash = Absent THEN r \in dirty' \/ HasIt(r)'
                 ELSE cursor' = "closed" => local'[r] = versions[v].hash
      <4>1. IF versions[v].hash = Absent THEN r \in dirty \/ HasIt(r)
            ELSE cursor = "closed" => local[r] = versions[v].hash
        BY <2>1, <3>1 DEF WrittenInv
      <4> QED BY <2>1, <3>1, <4>1 DEF HasIt
    <3> QED BY <1>1, <3>1 DEF WrittenInv
  <2> QED BY <2>3, <2>4, <2>5
<1> QED BY <1>2, <1>3 DEF DeletionInv

(* What the user does, and the other devices.                              *)
LEMMA UserStays ==
    ASSUME OfflineAssumption, OfflineInv, DeletionInv,
           \/ \E r \in Resource, c \in Content \cup {Absent} : Edit(r, c)
           \/ OpenCursor \/ \E m \in {"final", "export"} : CloseCursor(m)
    PROVE  DeletionInv'
<1>1. versions' = versions
  BY DEF Edit, OpenCursor, CloseCursor
<1>2. Grows(versions, versions') /\ Words'
  BY <1>1, GrowsItself DEF OfflineInv, OfflineTypeInv, DeletionInv, Words, Res
<1>3. CASE \E r \in Resource, c \in Content \cup {Absent} : Edit(r, c)
  <2>1. PICK r \in Resource, c \in Content \cup {Absent} : Edit(r, c)
    BY <1>3
  <2>2. /\ local' = [local EXCEPT ![r] = c] /\ dirty' = dirty \cup {r}
        /\ cursor = "open" /\ cursor' = cursor /\ (c # Absent \/ r \in Setting)
        /\ UNCHANGED <<disk, mem, pc, frozen, todo, scan, deferred, page, done>>
    BY <2>1 DEF Edit, cycle, drain
  <2>3. \A u \in Chat : local'[u] = local[u] \/ (u \in dirty' /\ local'[u] # Absent)
    BY <2>2 DEF OfflineInv, OfflineTypeInv, OfflineAssumption
  <2> QED BY <1>2, <2>2, <2>3, EnvironmentStays
<1>4. CASE OpenCursor \/ \E m \in {"final", "export"} : CloseCursor(m)
  <2>1. /\ local' = local /\ dirty' = dirty
        /\ cursor' = "closed" => pc = "idle"
        /\ UNCHANGED <<disk, mem, pc, frozen, todo, scan, deferred, page, done>>
    BY <1>4 DEF OpenCursor, CloseCursor, cycle, drain
  <2> QED BY <1>2, <2>1, EnvironmentStays
<1> QED BY <1>3, <1>4

LEMMA PeerStays ==
    ASSUME OfflineAssumption, OfflineInv, OfflineInv', DeletionInv, NEW r \in Resource,
           NEW c \in Content \cup {Absent}, NEW P \in SUBSET Of(versions, r),
           PeerPublish(r, c, P)
    PROVE  DeletionInv'
<1>1. PICK x : x = Version(r, c, FALSE, P)
  OBVIOUS
<1>2. PICK e : /\ e = [x EXCEPT !.own = FALSE] /\ versions' = Append(versions, e)
               /\ e \in LogVersion /\ e.parents = P /\ ~e.own
  <2>1. P \subseteq Nat
    BY LenProperties DEF Of, OfflineInv, OfflineTypeInv, IsLog
  <2>2. PICK e : e = [x EXCEPT !.own = FALSE] /\ versions' = Append(versions, e)
    BY <1>1 DEF PeerPublish
  <2>3. x \in LogVersion /\ x.parents = P
    BY <1>1, <2>1 DEF Version, LogVersion
  <2>4. e \in LogVersion
    BY <2>2, <2>3 DEF LogVersion
  <2>5. e.parents = P /\ ~e.own
    BY <2>2, <2>3 DEF LogVersion
  <2> QED BY <2>2, <2>4, <2>5
<1>3. Grows(versions, versions') /\ versions'[Len(versions')] = e /\ Len(versions') = Len(versions) + 1
  <2>1. P \subseteq DOMAIN versions
    BY DEF Of
  <2> QED BY <1>2, <2>1, AppendedIs DEF OfflineInv, OfflineTypeInv
<1>4. \A v \in DOMAIN versions' : v \in DOMAIN versions \/ v = Len(versions')
  BY <1>3 DEF Grows
<1>5. Words'
  <2>1. \A v \in DOMAIN versions : versions'[v] = versions[v]
    BY <1>3, GrowsIs
  <2> QED BY <1>2, <1>3, <1>4, <2>1 DEF DeletionInv, Words, Res
<1>6. /\ local' = local /\ cursor' = cursor /\ dirty' = dirty
      /\ UNCHANGED <<disk, mem, pc, frozen, todo, scan, deferred, page, done>>
  BY DEF PeerPublish, host, cycle, drain
<1> QED BY <1>3, <1>5, <1>6, EnvironmentStays

(* A cycle that finishes the scan of every chat.                           *)
LEMMA HostScanStays ==
    ASSUME OfflineAssumption, OfflineInv, DeletionInv, NEW late \in SUBSET Resource,
           NEW failed \in BOOLEAN, NEW N \in SUBSET Setting, NEW g \in [N -> Content],
           HostScan(late, failed, N, g), late \cap Chat = {}
    PROVE  DeletionInv' /\ Additions(versions, disk)
<1>1. /\ OfflineInv' /\ Additions(versions, disk) /\ Forgets
      /\ \A r \in Resource : Caught(disk.proj[r], mem'.proj[r], local[r])
      /\ \A r \in Resource \ late :
            \/ scan'[r] = local[r]
            \/ scan'[r] = None /\ local[r] \in {disk.proj[r].hash, disk.proj[r].kept}
  BY HostScanKeeps
<1>2. pc = "idle" /\ pc' = "apply" /\ local' = local /\ mem = disk
  BY DEF HostScan, OfflineInv, CopiesInv
<1>3. Words'
  BY <1>1, WordsGrow
<1>4. Pages'
  BY <1>2 DEF Pages
<1>5. ASSUME NEW r \in Chat
      PROVE  /\ local'[r] = local[r] /\ Caught(mem.proj[r], mem'.proj[r], local[r])
             /\ scan'[r] # Absent /\ CycledInv(r)' /\ ~WasRead(r)'
  <2>1. r \in Resource \ late /\ local[r] # Absent
    BY DEF Resource, DeletionInv, ChatInv
  <2>2. Caught(mem.proj[r], mem'.proj[r], local[r])
    BY <1>1, <1>2, <2>1
  <2>3. scan'[r] = local[r] \/ (scan'[r] = None /\ HasIt(r))
    BY <1>1, <1>2, <2>1 DEF HasIt
  <2>4. HasIt(r) => HasIt(r)'
    BY <1>2, <2>2 DEF HasIt, Caught
  <2> QED BY <1>2, <2>1, <2>2, <2>3, <2>4 DEF CycledInv, WasRead, OfflineAssumption
<1> QED BY <1>1, <1>2, <1>3, <1>4, <1>5, MovesStay

(* A process that rests with m's projections, where nothing was lost.      *)
LEMMA RestStays ==
    ASSUME OfflineAssumption, OfflineInv, DeletionInv, pc # "files", NEW d, Rest(d),
           versions' = versions, local' = local, dirty' = dirty,
           \A r \in Chat : d.proj[r] = mem.proj[r]
    PROVE  DeletionInv'
<1>1. /\ disk' = d /\ mem' = d /\ pc' = "idle"
      /\ \A r \in Chat : scan'[r] = None
  BY DEF Rest, Nobody, Resource
<1>2. Words' /\ Pages' /\ Forgets
  BY <1>1 DEF DeletionInv, Words, Pages, Forgets, Res
<1>3. ASSUME NEW r \in Chat
      PROVE  /\ local'[r] = local[r] /\ Caught(mem.proj[r], mem'.proj[r], local[r])
             /\ mem'.proj[r] = disk'.proj[r]
             /\ scan'[r] # Absent /\ CycledInv(r)' /\ ~WasRead(r)'
  BY <1>1 DEF Caught, CycledInv, WasRead, OfflineAssumption
<1> QED BY <1>1, <1>2, <1>3, MovesStay

(* Cycles are saved; the helper ends before its writes, or after them.     *)
LEMMA EndsStay ==
    ASSUME OfflineAssumption, OfflineInv, DeletionInv,
           HostSave \/ (pc \notin {"apply", "files"} /\ (Ends \/ Crash))
    PROVE  DeletionInv'
<1>1. CASE HostSave
  <2>1. /\ Rest(mem) /\ versions' = versions /\ local' = local /\ dirty' = dirty
        /\ pc # "files"
    BY <1>1 DEF HostSave, host
  <2> QED BY <2>1, RestStays
<1>2. CASE pc \notin {"apply", "files"} /\ (Ends \/ Crash)
  <2>1. /\ Rest(disk) /\ versions' = versions /\ local' = local /\ dirty' = dirty
        /\ pc # "files"
    BY <1>2 DEF Ends, Crash
  <2>2. \A r \in Chat : disk.proj[r] = mem.proj[r]
    BY <1>2 DEF DeletionInv, ChatInv
  <2> QED BY <2>1, <2>2, RestStays
<1> QED BY <1>1, <1>2

(* The user's own request.                                                 *)
LEMMA SyncAndApplyStays ==
    ASSUME OfflineAssumption, OfflineInv, DeletionInv, NEW unfinished \in SUBSET Chat,
           SyncAndApply(unfinished)
    PROVE  DeletionInv' /\ Additions(Read(disk), disk)
<1>1. /\ OfflineInv' /\ Additions(Read(disk), disk)
      /\ \A r \in Chat : /\ local'[r] = local[r]
                        /\ Caught(disk.proj[r], mem'.proj[r], local[r])
      /\ mem' = disk' /\ \A r \in Resource : scan'[r] = None
  BY SyncAndApplyKeeps
<1>2. pc = "idle" /\ pc' = "idle" /\ mem = disk
  BY DEF SyncAndApply, Rest, OfflineInv, CopiesInv
<1>3. PICK d, S : Rest(d) /\ Settles(S, d, local')
  BY DEF SyncAndApply
<1>4. Forgets
  BY <1>3 DEF Rest, Settles, Forgets, HasIt
<1>5. Words'
  BY <1>1, WordsGrow
<1>6. Pages'
  BY <1>2 DEF Pages
<1>7. ASSUME NEW r \in Chat
      PROVE  /\ local'[r] = local[r] /\ Caught(mem.proj[r], mem'.proj[r], local[r])
             /\ mem'.proj[r] = disk'.proj[r]
             /\ scan'[r] # Absent /\ CycledInv(r)' /\ ~WasRead(r)'
  BY <1>1, <1>2 DEF CycledInv, WasRead, OfflineAssumption, Resource
<1> QED BY <1>1, <1>2, <1>4, <1>5, <1>6, <1>7, MovesStay

(* Before the pages: the helper starts, scans, merges and freezes.         *)
LEMMA HelperStartStays ==
    ASSUME OfflineAssumption, OfflineInv, DeletionInv, HelperStart
    PROVE  DeletionInv'
<1>1. /\ pc = "idle" /\ BeginExport(versions, disk, Resource) /\ mem = disk
      /\ UNCHANGED <<versions, local, dirty, disk, scan>>
  BY DEF HelperStart, host, OfflineInv, CopiesInv
<1>2. IsLog(versions) /\ disk \in Saved /\ Stands(versions, disk)
  BY DEF OfflineInv, OfflineTypeInv, CopiesInv
<1>3. Resource \in SUBSET Resource
  OBVIOUS
<1>4. mem'.proj = disk.proj /\ pc' = "scan" /\ todo' = Resource
  BY <1>1, <1>2, <1>3, ExportBegins
<1>5. Words' /\ Pages' /\ Forgets
  BY <1>1, <1>4 DEF DeletionInv, Words, Pages, Forgets, Res
<1>6. ASSUME NEW r \in Chat
      PROVE  /\ local'[r] = local[r] /\ Caught(mem.proj[r], mem'.proj[r], local[r])
             /\ mem'.proj[r] = disk'.proj[r]
             /\ scan'[r] # Absent /\ CycledInv(r)' /\ ~WasRead(r)'
  BY <1>1, <1>4 DEF CycledInv, WasRead, DeletionInv, ChatInv, Caught, Resource
<1> QED BY <1>1, <1>4, <1>5, <1>6, MovesStay

LEMMA HelperScanStays ==
    ASSUME OfflineAssumption, OfflineInv, DeletionInv, NEW r \in Resource, NEW ok \in BOOLEAN,
           HelperScan(r, ok)
    PROVE  DeletionInv' /\ Additions(Read(mem), mem)
<1>1. /\ OfflineInv' /\ Additions(Read(mem), mem)
      /\ \A u \in Resource \ {r} : mem'.proj[u] = mem.proj[u]
      /\ r \in Chat => \/ r \in deferred'
                      \/ local[r] \in {mem'.proj[r].hash, mem'.proj[r].kept}
      /\ Caught(mem.proj[r], mem'.proj[r], local[r])
      /\ deferred \subseteq deferred' /\ (mem' = disk' \/ UNCHANGED <<mem, disk>>)
  BY HelperScanKeeps
<1>2. /\ pc = "scan" /\ pc' = "scan" /\ todo' = todo \ {r}
      /\ UNCHANGED <<local, cursor, scan>>
  BY DEF HelperScan, Next1
<1>3. dirty' = dirty \/ Settles({r}, mem', local)
  BY DEF HelperScan
<1>4. Forgets
  BY <1>2, <1>3 DEF Settles, Forgets, HasIt
<1>5. Words'
  BY <1>1, WordsGrow
<1>6. Pages'
  BY <1>2 DEF Pages
<1>7. ASSUME NEW u \in Chat
      PROVE  /\ local'[u] = local[u] /\ Caught(mem.proj[u], mem'.proj[u], local[u])
             /\ mem'.proj[u] = disk'.proj[u]
             /\ scan'[u] # Absent /\ CycledInv(u)'
             /\ WasRead(u)' => WasRead(u) \/ HasIt(u)'
  <2>1. ChatInv(u) /\ u \in Resource
    BY DEF DeletionInv, Resource
  <2>2. Caught(mem.proj[u], mem'.proj[u], local[u]) /\ mem'.proj[u] = disk'.proj[u]
    BY <1>1, <1>2, <2>1 DEF Caught, ChatInv
  <2>3. WasRead(u)' => WasRead(u) \/ HasIt(u)'
    BY <1>1, <1>2 DEF WasRead, HasIt
  <2> QED BY <1>2, <2>1, <2>2, <2>3 DEF CycledInv, ChatInv
<1> QED BY <1>1, <1>2, <1>4, <1>5, <1>6, <1>7, MovesStay

LEMMA HelperExportedStays ==
    ASSUME OfflineAssumption, OfflineInv, DeletionInv, HelperExported
    PROVE  DeletionInv'
<1>1. OfflineInv' /\ mem' = disk' /\ \A r \in Chat : mem'.proj[r] = mem.proj[r]
  BY HelperExportedKeeps
<1>2. /\ pc = "scan" /\ todo = {} /\ pc' = "settle"
      /\ UNCHANGED <<versions, local, cursor, scan, deferred>>
  BY DEF HelperExported
<1>3. PICK S : Settles(S, mem', local)
  BY DEF HelperExported
<1>4. Words' /\ Pages' /\ Forgets
  BY <1>2, <1>3 DEF DeletionInv, Words, Pages, Forgets, Settles, HasIt, Res
<1>5. ASSUME NEW r \in Chat
      PROVE  /\ local'[r] = local[r] /\ Caught(mem.proj[r], mem'.proj[r], local[r])
             /\ mem'.proj[r] = disk'.proj[r]
             /\ scan'[r] # Absent /\ CycledInv(r)' /\ (WasRead(r)' => WasRead(r))
  BY <1>1, <1>2 DEF CycledInv, WasRead, DeletionInv, ChatInv, Caught
<1> QED BY <1>2, <1>4, <1>5, MovesStay

LEMMA SettleStays ==
    ASSUME OfflineAssumption, OfflineInv, DeletionInv, NEW N \in SUBSET Chat,
           NEW g \in [N -> Content], Settle(N, g)
    PROVE  DeletionInv' /\ Additions(versions, mem)
<1>1. /\ OfflineInv' /\ Additions(versions, mem)
      /\ mem'.proj = mem.proj /\ disk'.proj = mem.proj /\ todo' = Chat
  BY SettleKeeps
<1>2. pc = "settle" /\ pc' = "scan" /\ UNCHANGED <<local, dirty, scan>>
  BY DEF Settle, BeginExport, host
<1>3. Words'
  BY <1>1, WordsGrow
<1>4. Pages' /\ Forgets
  BY <1>2 DEF Pages, Forgets
<1>5. ASSUME NEW r \in Chat
      PROVE  /\ local'[r] = local[r] /\ Caught(mem.proj[r], mem'.proj[r], local[r])
             /\ mem'.proj[r] = disk'.proj[r]
             /\ scan'[r] # Absent /\ CycledInv(r)' /\ ~WasRead(r)'
  BY <1>1, <1>2 DEF CycledInv, WasRead, DeletionInv, ChatInv, Caught
<1> QED BY <1>1, <1>2, <1>3, <1>4, <1>5, MovesStay

LEMMA FreezeStays ==
    ASSUME OfflineAssumption, OfflineInv, DeletionInv, Freeze
    PROVE  DeletionInv'
<1>1. CASE Ends
  BY <1>1, EndsStay DEF Freeze
<1>2. CASE ~Ends
  <2>1. /\ pc = "settle" /\ pc' = "page"
        /\ mem' = [mem EXCEPT !.seen = Len(versions)]
        /\ UNCHANGED <<versions, local, dirty, cursor, disk, scan, deferred>>
    BY <1>2 DEF Freeze, host
  <2>2. mem'.proj = mem.proj
    <3>1. PICK m, f, P, k, n : /\ m = mem /\ m = [proj |-> f, pending |-> P, seen |-> k]
                               /\ n = Len(versions)
      BY SavedIs DEF OfflineInv, OfflineTypeInv
    <3>2. mem' = [m EXCEPT !.seen = n]
      BY <2>1, <3>1
    <3> QED BY <3>1, <3>2
  <2>3. Words' /\ Pages' /\ Forgets
    BY <2>1 DEF DeletionInv, Words, Pages, Forgets, Res
  <2>4. ASSUME NEW r \in Chat
        PROVE  /\ local'[r] = local[r] /\ Caught(mem.proj[r], mem'.proj[r], local[r])
               /\ mem'.proj[r] = disk'.proj[r]
               /\ scan'[r] # Absent /\ CycledInv(r)' /\ (WasRead(r)' => WasRead(r))
    BY <2>1, <2>2 DEF CycledInv, WasRead, DeletionInv, ChatInv, Caught
  <2> QED BY <2>1, <2>3, <2>4, MovesStay
<1> QED BY <1>1, <1>2

(* A page is taken of the tips that were frozen.                           *)
LEMMA TakePageStays ==
    ASSUME OfflineAssumption, OfflineInv, DeletionInv, NEW pg \in SUBSET Candidates,
           TakePage(pg)
    PROVE  DeletionInv'
<1>1. /\ pc = "page" /\ pc' \in {"page", "database"}
      /\ pc' = "database" => page' = {v \in pg : Eligible(v)}
      /\ UNCHANGED <<versions, local, dirty, cursor, disk, mem, frozen, scan, deferred>>
  BY DEF TakePage, host
<1>2. Pages'
  <2>1. \A v \in pg : v = frozen[Res(v)]
    BY DEF Candidates, Ready
  <2> QED BY <1>1, <2>1 DEF Pages, Res
<1>3. Words' /\ Forgets
  BY <1>1 DEF DeletionInv, Words, Forgets, Res
<1>4. ASSUME NEW r \in Chat
      PROVE  /\ local'[r] = local[r] /\ Caught(mem.proj[r], mem'.proj[r], local[r])
             /\ mem'.proj[r] = disk'.proj[r]
             /\ scan'[r] # Absent /\ CycledInv(r)' /\ (WasRead(r)' => WasRead(r))
  BY <1>1 DEF CycledInv, WasRead, DeletionInv, ChatInv, Caught
<1> QED BY <1>1, <1>2, <1>3, <1>4, MovesStay

(* What a cycle makes of one resource: a chat is not written, and is moved *)
(* to words it has, or to a tombstone, of which it keeps a copy.           *)
LEMMA HostApplyIs ==
    ASSUME OfflineAssumption, OfflineInv, NEW r \in Resource, NEW ok \in BOOLEAN,
           HostApply(r, ok)
    PROVE  /\ OfflineInv' /\ pc = "apply" /\ r \in todo /\ todo' = todo \ {r}
           /\ UNCHANGED <<versions, cursor, pc, frozen, scan>>
           /\ dirty' = dirty \/ Settles({r}, mem', local')
           /\ \A u \in Resource \ {r} :
                 mem'.proj[u] = mem.proj[u] /\ local'[u] = local[u]
           /\ r \in Chat => local' = local /\
                 \/ mem'.proj[r] = mem.proj[r]
                 \/ \E v \in Of(versions, r) :
                       /\ mem'.proj[r] = At(versions, v)
                       /\ \/ versions[v].own
                          \/ scan[r] = versions[v].hash
                 \/ \E v \in Of(versions, r) :
                       /\ mem'.proj[r] = [At(versions, v) EXCEPT !.kept = Kept(r)]
                       /\ versions[v].hash = Absent
<1>1. /\ pc = "apply" /\ r \in todo /\ todo' = todo \ {r}
      /\ UNCHANGED <<versions, cursor, pc, frozen, scan>>
  BY DEF HostApply, Next1
<1>2. PICK v : v = frozen[r]
  OBVIOUS
<1>3. /\ IsLog(versions) /\ mem \in Saved /\ Stands(versions, mem)
      /\ scan \in [Resource -> Content \cup {Absent, None}]
      /\ v = 0 \/ v \in Of(versions, r)
  BY <1>2 DEF OfflineInv, OfflineTypeInv, CopiesInv
<1>4. dirty' = dirty \/ Settles({r}, mem', local')
  <2>1. CASE ~Changed(mem.proj[r], v)
    BY <1>2, <2>1 DEF HostApply
  <2>2. CASE Changed(mem.proj[r], v)
    <3>1. CASE (versions[v].own /\ ~versions[v].synth) \/ scan[r] = versions[v].hash
      BY <1>2, <2>2, <3>1 DEF HostApply
    <3>2. CASE ~((versions[v].own /\ ~versions[v].synth) \/ scan[r] = versions[v].hash)
      BY <1>2, <2>2, <3>2 DEF HostApply
    <3> QED BY <3>1, <3>2
  <2> QED BY <2>1, <2>2
<1>5. ASSUME r \in Chat
      PROVE  /\ local' = local
             /\ \/ mem' = mem
                \/ v # 0 /\ mem' = Queue(mem, v)
                \/ /\ v # 0 /\ mem' = Mark(mem, r, At(versions, v))
                   /\ versions[v].own \/ scan[r] = versions[v].hash
                \/ /\ v # 0 /\ mem' = Mark(mem, r, [At(versions, v) EXCEPT !.kept = Kept(r)])
                   /\ versions[v].hash = Absent
  <2>1. CASE ~Changed(mem.proj[r], v)
    BY <1>2, <2>1 DEF HostApply
  <2>2. CASE Changed(mem.proj[r], v)
    <3>1. v # 0
      BY <2>2 DEF Changed
    <3>2. CASE (versions[v].own /\ ~versions[v].synth) \/ scan[r] = versions[v].hash
      BY <1>2, <2>2, <3>1, <3>2 DEF HostApply
    <3>3. CASE ~((versions[v].own /\ ~versions[v].synth) \/ scan[r] = versions[v].hash)
      BY <1>2, <1>5, <2>2, <3>1, <3>3 DEF HostApply
    <3> QED BY <3>2, <3>3
  <2> QED BY <2>1, <2>2
<1>6. ASSUME r \in Chat
      PROVE  \/ mem'.proj[r] = mem.proj[r]
             \/ \E u \in Of(versions, r) :
                   /\ mem'.proj[r] = At(versions, u)
                   /\ versions[u].own \/ scan[r] = versions[u].hash
             \/ \E u \in Of(versions, r) :
                   /\ mem'.proj[r] = [At(versions, u) EXCEPT !.kept = Kept(r)]
                   /\ versions[u].hash = Absent
  <2>1. CASE v # 0 /\ mem' = Queue(mem, v)
    <3>1. v \in Nat /\ v \in DOMAIN versions
      BY <1>3, <2>1, ActiveIs, LenProperties DEF IsLog
    <3> QED BY <1>3, <2>1, <3>1, QueueIs
  <2>2. CASE /\ v # 0 /\ mem' = Mark(mem, r, At(versions, v))
             /\ versions[v].own \/ scan[r] = versions[v].hash
    <3>1. PICK p : p = At(versions, v)
      OBVIOUS
    <3>2. p \in Projections /\ StandsFor(versions, r, p)
      BY <1>3, <2>2, <3>1, AtIs
    <3>3. mem' = Mark(mem, r, p)
      BY <2>2, <3>1
    <3>4. mem'.proj[r] = p
      BY <1>3, <3>2, <3>3, MarkIs
    <3> QED BY <1>3, <2>2, <3>1, <3>4
  <2>3. CASE /\ v # 0 /\ mem' = Mark(mem, r, [At(versions, v) EXCEPT !.kept = Kept(r)])
             /\ versions[v].hash = Absent
    <3>1. PICK k \in Content \cup {Absent, None} : k = Kept(r)
      <4>1. mem.proj[r] \in Projections
        BY <1>3, SavedIs
      <4>2. mem.proj[r].kept \in Content \cup {Absent, None}
            /\ mem.proj[r].hash \in Content \cup {Absent, None}
        BY <4>1 DEF Projections
      <4> QED BY <1>3, <4>2 DEF Kept
    <3>2. PICK p : p = [At(versions, v) EXCEPT !.kept = k]
      OBVIOUS
    <3>3. p \in Projections /\ StandsFor(versions, r, p)
      BY <1>3, <1>6, <2>3, <3>2, KeptIs DEF OfflineAssumption
    <3>4. mem' = Mark(mem, r, p)
      BY <2>3, <3>1, <3>2
    <3>5. mem'.proj[r] = p
      BY <1>3, <3>3, <3>4, MarkIs
    <3> QED BY <1>3, <2>3, <3>1, <3>2, <3>5
  <2> QED BY <1>5, <1>6, <2>1, <2>2, <2>3
<1> QED BY <1>1, <1>4, <1>5, <1>6, HostApplyKeeps

(* A cycle moves a chat to a tombstone with the copy Cursor has.           *)
LEMMA HostApplyStays ==
    ASSUME OfflineAssumption, OfflineInv, DeletionInv, NEW r \in Resource, NEW ok \in BOOLEAN,
           HostApply(r, ok)
    PROVE  DeletionInv'
<1>1. /\ OfflineInv' /\ pc = "apply" /\ r \in todo /\ todo' = todo \ {r}
      /\ UNCHANGED <<versions, cursor, pc, frozen, scan>>
      /\ dirty' = dirty \/ Settles({r}, mem', local')
      /\ \A u \in Resource \ {r} :
            mem'.proj[u] = mem.proj[u] /\ local'[u] = local[u]
  BY HostApplyIs
<1>2. Words' /\ Pages'
  BY <1>1 DEF DeletionInv, Words, Pages, Res
<1>3. dirty' \subseteq dirty /\ dirty \ {r} \subseteq dirty' /\ (r \in dirty \ dirty' => HasIt(r)')
  BY <1>1 DEF Settles, HasIt
<1>4. ASSUME NEW u \in Chat, u # r
      PROVE  ChatInv(u)' /\ CopyInv(u)' /\ CycledInv(u)'
  <2>1. /\ mem'.proj[u] = mem.proj[u] /\ local'[u] = local[u] /\ (u \in dirty' <=> u \in dirty)
        /\ ChatInv(u) /\ CopyInv(u) /\ CycledInv(u)
    BY <1>1, <1>3, <1>4 DEF DeletionInv, Resource
  <2> QED BY <1>1, <2>1 DEF ChatInv, CopyInv, CycledInv, HasIt, Rewritten
<1>5. ASSUME r \in Chat
      PROVE  ChatInv(r)' /\ CopyInv(r)' /\ CycledInv(r)'
  <2>1. ChatInv(r) /\ CopyInv(r) /\ CycledInv(r) /\ ~Rewritten(r)
    BY <1>1, <1>5 DEF DeletionInv, Rewritten
  <2>2. /\ local' = local /\ local[r] # None
        /\ mem.proj[r].hash # None
    <3>1. PICK v : /\ v = mem.proj[r].v /\ v \in DOMAIN versions
                   /\ mem.proj[r].hash = versions[v].hash
      BY DEF OfflineInv, CopiesInv, Stands, StandsFor, Of
    <3>2. versions[v].hash \in Content \cup {Absent}
      BY <3>1, HashIs DEF OfflineInv, OfflineTypeInv
    <3>3. local[r] \in Content \cup {Absent}
      BY DEF OfflineInv, OfflineTypeInv
    <3>4. local' = local
      BY <1>5, HostApplyIs
    <3> QED BY <3>1, <3>2, <3>3, <3>4 DEF OfflineAssumption
  <2>3. ASSUME r \notin dirty PROVE Kept(r) = local[r]
    BY <1>1, <2>1, <2>2, <2>3 DEF CycledInv, Kept, HasIt, ChatInv
  <2>4. Kept(r) # None
    BY <2>1, <2>2 DEF Kept, ChatInv, OfflineAssumption
  <2>5. /\ mem'.proj[r].kept # None <=> mem'.proj[r].hash = Absent
        /\ r \notin dirty => mem'.proj[r].kept \in {local[r], None}
    <3>1. CASE mem'.proj[r] = mem.proj[r]
      BY <2>1, <3>1 DEF ChatInv, CopyInv
    <3>2. ASSUME NEW v \in Of(versions, r), mem'.proj[r] = At(versions, v),
                 versions[v].own \/ scan[r] = versions[v].hash
          PROVE  /\ mem'.proj[r].kept # None <=> mem'.proj[r].hash = Absent
                 /\ r \notin dirty => mem'.proj[r].kept \in {local[r], None}
      <4>1. v \in DOMAIN versions /\ Res(v) = r
        BY DEF Of, Res
      <4>2. versions[v].hash # Absent
        BY <1>5, <2>1, <3>2, <4>1 DEF DeletionInv, Words, ChatInv
      <4> QED BY <3>2, <4>2 DEF At
    <3>3. ASSUME NEW v \in Of(versions, r), versions[v].hash = Absent,
                 mem'.proj[r] = [At(versions, v) EXCEPT !.kept = Kept(r)]
          PROVE  /\ mem'.proj[r].kept # None <=> mem'.proj[r].hash = Absent
                 /\ r \notin dirty => mem'.proj[r].kept \in {local[r], None}
      <4>1. PICK k : k = Kept(r)
        OBVIOUS
      <4>2. [At(versions, v) EXCEPT !.kept = k] = [v |-> v, hash |-> Absent, kept |-> k]
        BY <3>3 DEF At
      <4> QED BY <2>3, <2>4, <3>3, <4>1, <4>2
    <3> QED BY <1>5, <3>1, <3>2, <3>3, HostApplyIs
  <2>6. ChatInv(r)'
    BY <1>1, <2>1, <2>2, <2>5 DEF ChatInv
  <2>7. CopyInv(r)'
    <3>1. CASE r \in dirty \ dirty'
      BY <1>3, <2>2, <2>6, <3>1 DEF HasIt, CopyInv, ChatInv
    <3> QED BY <2>2, <2>5, <3>1 DEF CopyInv
  <2> QED BY <1>1, <2>6, <2>7 DEF CycledInv
<1>6. ASSUME NEW u \in Chat PROVE ReadInv(u)' /\ WrittenInv(u)'
  BY <1>1 DEF ReadInv, WasRead, WrittenInv
<1> QED BY <1>2, <1>4, <1>5, <1>6 DEF DeletionInv

(* The chats of a page are written; a tombstone leaves the copy.           *)
LEMMA WriteDatabaseStays ==
    ASSUME OfflineAssumption, OfflineInv, DeletionInv,
           NEW out, WriteDatabase(out)
    PROVE  DeletionInv'
<1> DEFINE chats == {v \in page : Res(v) \in Chat}
           in(r) == {v \in chats : Res(v) = r /\ out[v] = "applied"}
<1>1. /\ pc = "database" /\ pc' = "files" /\ (chats = {} \/ cursor = "closed")
      /\ DOMAIN out = chats /\ todo' = page \ chats /\ done' = Outcome(out)
      /\ local' = [r \in Resource |->
             IF in(r) = {} THEN local[r] ELSE Written(r, CHOOSE v \in in(r) : TRUE)]
      /\ dirty' = dirty \ {Res(v) : v \in {u \in chats : out[u] = "applied"}}
      /\ UNCHANGED <<versions, cursor, disk, mem, frozen, scan, deferred, page>>
  BY DEF WriteDatabase
<1>2. Words'
  BY <1>1 DEF DeletionInv, Words, Res
<1>3. Pages'
  BY <1>1 DEF DeletionInv, Pages, Res, Outcome
<1>4. ASSUME NEW v \in page, Res(v) \in Chat
      PROVE  done'[v] = out[v] /\ v = frozen[Res(v)]
  BY <1>1, <1>4 DEF Outcome, DeletionInv, Pages
<1>5. ASSUME NEW r \in Chat
      PROVE  ChatInv(r)' /\ CopyInv(r)' /\ CycledInv(r)' /\ ReadInv(r)' /\ WrittenInv(r)'
  <2>1. /\ ChatInv(r) /\ CopyInv(r) /\ ReadInv(r) /\ ~Rewritten(r) /\ r \in Resource
    BY <1>1, <1>5 DEF DeletionInv, Rewritten, Resource
  <2>2. CASE in(r) = {}
    <3>1. local'[r] = local[r]
      BY <1>1, <2>1, <2>2
    <3>2. \A v \in page : Res(v) = r => done'[v] # "applied"
      BY <1>4, <1>5, <2>2
    <3>3. r \in dirty' <=> r \in dirty
      BY <1>1, <2>2, <1>5
    <3> HIDE DEF in, chats
    <3>4. ChatInv(r)' /\ CopyInv(r)'
      BY <1>1, <2>1, <3>1, <3>3 DEF ChatInv, CopyInv
    <3>5. ReadInv(r)'
      BY <1>1, <2>1, <3>1 DEF ReadInv, WasRead, HasIt
    <3>6. CycledInv(r)' /\ WrittenInv(r)'
      BY <1>1, <3>2 DEF CycledInv, WrittenInv, Res
    <3> QED BY <3>4, <3>5, <3>6
  <2>3. CASE in(r) # {}
    <3>1. PICK v \in in(r) : v = CHOOSE u \in in(r) : TRUE
      BY <2>3
    <3>2. /\ v \in page /\ Res(v) = r /\ cursor = "closed" /\ done'[v] = "applied"
          /\ \A u \in page : Res(u) = r => u = v
      BY <1>1, <1>4, <1>5, <3>1
    <3>3. local'[r] = IF versions[v].hash = Absent THEN local[r] ELSE versions[v].hash
      BY <1>1, <1>5, <2>1, <2>3, <3>1 DEF Written
    <3>4. HasIt(r)
      <4>1. Res(v) \notin deferred
        BY <1>1, <3>2 DEF OfflineInv, PageInv
      <4> QED BY <1>1, <2>1, <3>2, <4>1 DEF ReadInv, WasRead
    <3> HIDE DEF in, chats
    <3>5. ChatInv(r)' /\ CycledInv(r)'
      BY <1>1, <2>1, <3>3 DEF ChatInv, CycledInv
    <3>6. Rewritten(r)' <=> versions[v].hash # Absent
      BY <1>1, <3>2 DEF Rewritten, Res
    <3>7. CopyInv(r)' /\ ReadInv(r)'
      <4>1. CASE versions[v].hash # Absent
        BY <3>6, <4>1 DEF CopyInv, ReadInv
      <4>2. CASE versions[v].hash = Absent
        BY <1>1, <2>1, <3>3, <3>4, <4>2 DEF CopyInv, ReadInv, HasIt, ChatInv
      <4> QED BY <4>1, <4>2
    <3>8. WrittenInv(r)'
      <4>1. IF versions[v].hash = Absent THEN HasIt(r)' ELSE local'[r] = versions[v].hash
        BY <1>1, <3>3, <3>4 DEF HasIt
      <4> QED BY <1>1, <3>2, <4>1 DEF WrittenInv, Res
    <3> QED BY <3>5, <3>7, <3>8
  <2> QED BY <2>2, <2>3
<1> QED BY <1>2, <1>3, <1>5 DEF DeletionInv

(* The files of a page are no chats.                                       *)
LEMMA WriteFileStays ==
    ASSUME OfflineAssumption, OfflineInv, DeletionInv, NEW v \in page, NEW out \in Outcomes,
           WriteFile(v, out)
    PROVE  DeletionInv'
<1>1. /\ pc = "files" /\ pc' = "files" /\ v \in todo /\ todo' = todo \ {v}
      /\ done' = [done EXCEPT ![v] = out]
      /\ local' = local \/ local' = [local EXCEPT ![Res(v)] = versions[v].hash]
      /\ dirty' = dirty \/ dirty' = dirty \ {Res(v)}
      /\ UNCHANGED <<versions, cursor, disk, mem, frozen, scan, deferred, page>>
  BY DEF WriteFile
<1>2. Res(v) \notin Chat
  BY <1>1 DEF DeletionInv, Pages
<1>3. Words' /\ Pages'
  BY <1>1 DEF DeletionInv, Words, Pages, Res
<1>4. ASSUME NEW r \in Chat
      PROVE  ChatInv(r)' /\ CopyInv(r)' /\ CycledInv(r)' /\ ReadInv(r)' /\ WrittenInv(r)'
  <2>1. /\ local'[r] = local[r] /\ (r \in dirty' <=> r \in dirty)
        /\ \A u \in page : Res(u) = r => done'[u] = done[u]
    <3>1. DOMAIN done = page
      BY <1>1 DEF DeletionInv, Pages
    <3>2. \A u \in page : Res(u) = r => u # v
      BY <1>2
    <3>3. \A u \in page : Res(u) = r => done'[u] = done[u]
      BY <1>1, <3>1, <3>2
    <3>4. local'[r] = local[r]
      BY <1>1, <1>2 DEF OfflineInv, OfflineTypeInv, Resource
    <3> QED BY <1>1, <1>2, <3>3, <3>4
  <2>2. /\ ChatInv(r) /\ CopyInv(r) /\ ReadInv(r) /\ WrittenInv(r)
    BY DEF DeletionInv
  <2>3. Rewritten(r)' <=> Rewritten(r)
    BY <1>1, <2>1 DEF Rewritten, Res
  <2>4. ChatInv(r)' /\ CopyInv(r)' /\ CycledInv(r)' /\ ReadInv(r)'
    BY <1>1, <2>1, <2>2, <2>3 DEF ChatInv, CopyInv, CycledInv, ReadInv, WasRead, HasIt
  <2>5. WrittenInv(r)'
    BY <1>1, <2>1, <2>2 DEF WrittenInv, Res, HasIt
  <2> QED BY <2>4, <2>5
<1> QED BY <1>3, <1>4 DEF DeletionInv

(* The marks of a page say what it wrote, and of which copy it left.       *)
LEMMA MarkPageStays ==
    ASSUME OfflineAssumption, OfflineInv, DeletionInv, MarkPage
    PROVE  DeletionInv'
<1>1. /\ OfflineInv' /\ mem' = disk'
      /\ \A r \in Resource :
            \/ mem'.proj[r] = mem.proj[r] /\ \A v \in Applied : Res(v) # r
            \/ \E v \in Applied : Res(v) = r /\ mem'.proj[r] = Marked(mem.proj[r], v)
  BY MarkPageKeeps
<1>2. /\ pc = "files" /\ pc' = "page"
      /\ UNCHANGED <<versions, local, dirty, cursor, frozen, scan, deferred>>
  BY DEF MarkPage, host
<1>3. Words' /\ Pages'
  BY <1>2 DEF DeletionInv, Words, Pages, Res
<1>4. ASSUME NEW r \in Chat
      PROVE  ChatInv(r)' /\ CopyInv(r)' /\ CycledInv(r)' /\ ReadInv(r)' /\ WrittenInv(r)'
  <2>1. ChatInv(r) /\ CopyInv(r) /\ ReadInv(r) /\ WrittenInv(r) /\ r \in Resource
    BY DEF DeletionInv, Resource
  <2>2. CycledInv(r)' /\ WrittenInv(r)' /\ (WasRead(r)' => WasRead(r))
    BY <1>2 DEF CycledInv, WrittenInv, WasRead
  <2>3. CASE mem'.proj[r] = mem.proj[r] /\ \A v \in Applied : Res(v) # r
    <3>1. ~Rewritten(r)
      BY <2>3 DEF Rewritten, Applied
    <3>2. ChatInv(r)' /\ CopyInv(r)'
      BY <1>1, <1>2, <2>1, <2>3, <3>1 DEF ChatInv, CopyInv
    <3>3. ReadInv(r)'
      BY <1>2, <2>1, <2>2, <2>3, <3>1 DEF ReadInv, HasIt
    <3> QED BY <2>2, <3>2, <3>3
  <2>4. CASE \E v \in Applied : Res(v) = r /\ mem'.proj[r] = Marked(mem.proj[r], v)
    <3>1. PICK v \in Applied : Res(v) = r /\ mem'.proj[r] = Marked(mem.proj[r], v)
      BY <2>4
    <3>2. /\ v \in page /\ done[v] = "applied"
          /\ \A u \in page : Res(u) = r => u = v
      BY <1>2, <3>1 DEF Applied, DeletionInv, Pages
    <3>3. PICK p, k, h : /\ p = mem.proj[r] /\ h = versions[v].hash
                         /\ k = IF h = Absent
                                THEN IF p.kept # None THEN p.kept ELSE p.hash ELSE None
      OBVIOUS
    <3>4. mem'.proj[r].hash = h /\ mem'.proj[r].kept = k
      <4>1. Marked(p, v) = [v |-> v, hash |-> h, kept |-> k]
        BY <3>1, <3>3 DEF Marked, At
      <4> QED BY <3>1, <3>3, <4>1
    <3>5. p.hash # None
      <4>1. PICK u : u = p.v /\ u \in DOMAIN versions /\ p.hash = versions[u].hash
        BY <2>1, <3>3 DEF OfflineInv, CopiesInv, Stands, StandsFor, Of
      <4>2. versions[u].hash \in Content \cup {Absent}
        BY <4>1, HashIs DEF OfflineInv, OfflineTypeInv
      <4> QED BY <4>1, <4>2 DEF OfflineAssumption
    <3>6. ChatInv(r)'
      BY <1>1, <1>2, <2>1, <3>3, <3>4, <3>5 DEF ChatInv, OfflineAssumption
    <3>7. HasIt(r) /\ h = Absent => k = local[r]
      <4>1. local[r] # None
        BY <2>1 DEF OfflineInv, OfflineTypeInv, OfflineAssumption
      <4> QED BY <2>1, <3>3, <4>1 DEF HasIt, ChatInv
    <3>8. IF h = Absent THEN r \in dirty \/ HasIt(r) ELSE cursor = "closed" => local[r] = h
      BY <1>2, <2>1, <3>1, <3>2, <3>3 DEF WrittenInv
    <3>9. CopyInv(r)'
      BY <1>2, <3>3, <3>4, <3>7, <3>8 DEF CopyInv
    <3>10. ReadInv(r)'
      <4>1. ASSUME WasRead(r) PROVE HasIt(r)'
        <5>1. CASE h = Absent
          <6>1. ~Rewritten(r)
            BY <3>2, <3>3, <5>1 DEF Rewritten
          <6> QED BY <1>2, <2>1, <3>3, <3>4, <3>7, <4>1, <5>1, <6>1 DEF ReadInv, HasIt
        <5>2. CASE h # Absent
          BY <1>2, <3>4, <3>8, <4>1, <5>2 DEF WasRead, HasIt
        <5> QED BY <5>1, <5>2
      <4> QED BY <2>2, <4>1 DEF ReadInv
    <3> QED BY <2>2, <3>6, <3>9, <3>10
  <2> QED BY <1>1, <2>1, <2>3, <2>4
<1> QED BY <1>3, <1>4 DEF DeletionInv

(* Own versions of chats supersede a tombstone that stands only where the  *)
(* chat was edited.                                                        *)
Revives(new) ==
    /\ new.own /\ ~new.synth /\ new.res \in Chat
    /\ \E t \in new.parents \cap Tips(versions, new.res) : versions[t].hash = Absent

OnlyEditsRevive ==
    \A v \in DOMAIN versions' \ DOMAIN versions :
        Revives(versions'[v]) => versions'[v].res \in dirty

LEMMA EditsRevive ==
    ASSUME OfflineAssumption, OfflineInv, DeletionInv, pc # "files",
           NEW L, IsLog(L), Grows(L, versions), NEW m, Additions(L, m),
           \A r \in Chat : m.proj[r] = mem.proj[r]
    PROVE  OnlyEditsRevive
<1>1. ASSUME NEW v \in DOMAIN versions' \ DOMAIN versions, Revives(versions'[v])
      PROVE  versions'[v].res \in dirty
  <2>1. PICK e, r, p : e = versions'[v] /\ r = e.res /\ p = m.proj[r]
    OBVIOUS
  <2>2. e.own /\ ~e.synth /\ r \in Chat /\ r \in Resource /\ p = mem.proj[r]
    BY <1>1, <2>1 DEF Revives, Resource
  <2>3. PICK t \in e.parents \cap Tips(versions, r) : versions[t].hash = Absent
    BY <1>1, <2>1 DEF Revives
  <2>4. /\ e.hash = local[r] /\ e.hash \notin {p.hash, p.kept}
        /\ e.parents \subseteq OwnParents(L, r, p, e.hash)
    BY <1>1, <2>1, <2>2 DEF Additions, IsEdit
  <2>5. ChatInv(r) /\ CopyInv(r) /\ ~Rewritten(r) /\ Words
    BY <2>2 DEF DeletionInv, Rewritten
  <2>6. p.hash = Absent
    <3>1. p.hash = versions[p.v].hash
      BY <2>2 DEF OfflineInv, CopiesInv, Stands, StandsFor
    <3>2. \A u \in Tips(L, r) : u \in DOMAIN versions /\ versions[u] = L[u] /\ L[u].res = r
      BY GrowsIs DEF Tips, Of
    <3>3. CASE t \in Parents(L, r, p)
      BY <2>3, <3>1, <3>2, <3>3 DEF Parents
    <3>4. CASE t \in Tips(L, r) /\ L[t].own
      BY <2>2, <2>3, <2>5, <3>2, <3>4 DEF Words, Res
    <3> QED BY <2>3, <2>4, <3>3, <3>4 DEF OwnParents
  <2> QED BY <2>1, <2>2, <2>4, <2>5, <2>6 DEF ChatInv, CopyInv
<1> QED BY <1>1 DEF OnlyEditsRevive

(* What a cycle or the helper has read of the log.                         *)
LEMMA ReadIsLog ==
    ASSUME OfflineInv, NEW m \in {disk, mem}
    PROVE  IsLog(Read(m)) /\ Grows(Read(m), versions)
<1>1. /\ IsLog(versions) /\ m.seen \in Nat /\ m.seen <= Len(versions)
  BY SavedIs DEF OfflineInv, OfflineTypeInv, CopiesInv, Stands
<1> QED BY <1>1, GrowsItself, ReadIs DEF Read

(* A process dies, or Cursor comes back, between what it writes or notes   *)
(* and what it saves; or a cycle does not finish the scan of a chat.       *)
Lost ==
    \/ pc \in {"apply", "files"} /\ (Crash \/ Interrupted)
    \/ pc' = "apply" /\ deferred' \cap Chat # {}

(* The steps that publish what was scanned.                                *)
LEMMA ScansStay ==
    ASSUME OfflineAssumption, OfflineInv, DeletionInv, ~Lost,
           \/ \E late \in SUBSET Resource, failed \in BOOLEAN, N \in SUBSET Setting :
                 \E g \in [N -> Content] : HostScan(late, failed, N, g)
           \/ \E r \in Resource, ok \in BOOLEAN : HelperScan(r, ok)
           \/ \E N \in SUBSET Chat : \E g \in [N -> Content] : Settle(N, g)
           \/ \E unfinished \in SUBSET Chat : SyncAndApply(unfinished)
    PROVE  DeletionInv' /\ OnlyEditsRevive
<1>1. IsLog(versions) /\ Grows(versions, versions)
  BY GrowsItself DEF OfflineInv, OfflineTypeInv
<1>2. ASSUME NEW late \in SUBSET Resource, NEW failed \in BOOLEAN, NEW N \in SUBSET Setting,
             NEW g \in [N -> Content], HostScan(late, failed, N, g)
      PROVE  DeletionInv' /\ OnlyEditsRevive
  <2>1. late \cap Chat = {} /\ pc = "idle" /\ mem = disk
    BY <1>2 DEF HostScan, Lost, OfflineInv, CopiesInv
  <2>2. DeletionInv' /\ Additions(versions, disk)
    BY <1>2, <2>1, HostScanStays
  <2> QED BY <1>1, <2>1, <2>2, EditsRevive
<1>3. ASSUME NEW r \in Resource, NEW ok \in BOOLEAN, HelperScan(r, ok)
      PROVE  DeletionInv' /\ OnlyEditsRevive
  <2>1. DeletionInv' /\ Additions(Read(mem), mem) /\ pc = "scan"
    BY <1>3, HelperScanStays DEF HelperScan
  <2>2. IsLog(Read(mem)) /\ Grows(Read(mem), versions)
    BY ReadIsLog
  <2> QED BY <2>1, <2>2, EditsRevive
<1>4. ASSUME NEW N \in SUBSET Chat, NEW g \in [N -> Content], Settle(N, g)
      PROVE  DeletionInv' /\ OnlyEditsRevive
  <2>1. DeletionInv' /\ Additions(versions, mem) /\ pc = "settle"
    BY <1>4, SettleStays DEF Settle
  <2> QED BY <1>1, <2>1, EditsRevive
<1>5. ASSUME NEW unfinished \in SUBSET Chat, SyncAndApply(unfinished)
      PROVE  DeletionInv' /\ OnlyEditsRevive
  <2>1. DeletionInv' /\ Additions(Read(disk), disk) /\ pc = "idle" /\ mem = disk
    BY <1>5, SyncAndApplyStays DEF SyncAndApply, OfflineInv, CopiesInv
  <2>2. IsLog(Read(disk)) /\ Grows(Read(disk), versions)
    BY ReadIsLog
  <2> QED BY <2>1, <2>2, EditsRevive
<1> QED BY <1>2, <1>3, <1>4, <1>5

(* The steps that add nothing to the log.                                  *)
LEMMA OthersStay ==
    ASSUME OfflineAssumption, OfflineInv, DeletionInv, ~Lost,
           \/ \E r \in Resource, ok \in BOOLEAN : HostApply(r, ok)
           \/ HostSave \/ HelperStart \/ HelperExported \/ Interrupted \/ Freeze
           \/ \E pg \in SUBSET Candidates : TakePage(pg)
           \/ Drained
           \/ \E out \in [{v \in page : Res(v) \in Chat} -> Outcomes] : WriteDatabase(out)
           \/ \E v \in todo \cap page, out \in Outcomes : WriteFile(v, out)
           \/ MarkPage \/ UserEdits \/ OpenCursor \/ Crash
           \/ \E m \in {"final", "export"} : CloseCursor(m)
    PROVE  DeletionInv' /\ OnlyEditsRevive
<1>1. versions' = versions
  <2>1. ASSUME NEW r, NEW ok, HostApply(r, ok) PROVE versions' = versions
    BY <2>1 DEF HostApply
  <2>2. HostSave \/ HelperStart \/ HelperExported \/ Interrupted \/ Freeze \/ Drained
          \/ MarkPage \/ OpenCursor \/ Crash => versions' = versions
    BY DEF HostSave, HelperStart, HelperExported, Interrupted, Freeze, Drained, MarkPage,
           OpenCursor, Crash, Ends
  <2>3. ASSUME NEW pg, TakePage(pg) PROVE versions' = versions
    BY <2>3 DEF TakePage
  <2>4. ASSUME NEW out, WriteDatabase(out) PROVE versions' = versions
    BY <2>4 DEF WriteDatabase
  <2>5. ASSUME NEW v, NEW out, WriteFile(v, out) PROVE versions' = versions
    BY <2>5 DEF WriteFile
  <2>6. ASSUME NEW r, NEW c, Edit(r, c) PROVE versions' = versions
    BY <2>6 DEF Edit
  <2>7. ASSUME NEW m, CloseCursor(m) PROVE versions' = versions
    BY <2>7 DEF CloseCursor
  <2> QED BY <2>1, <2>2, <2>3, <2>4, <2>5, <2>6, <2>7 DEF UserEdits
<1>2. OnlyEditsRevive
  BY <1>1 DEF OnlyEditsRevive
<1>3. Interrupted \/ Drained \/ Crash => DeletionInv'
  <2>1. Drained => pc \notin {"apply", "files"}
    BY DEF Drained
  <2> QED BY <2>1, EndsStay DEF Interrupted, Drained, Lost
<1>4. DeletionInv'
  BY <1>3, HostApplyStays, EndsStay, HelperStartStays, HelperExportedStays, FreezeStays,
     TakePageStays, WriteDatabaseStays, WriteFileStays, MarkPageStays, UserStays DEF UserEdits
<1> QED BY <1>2, <1>4

(* Every step.                                                             *)
LEMMA DeletionNextInv ==
    ASSUME OfflineAssumption, OfflineInv, DeletionInv, EditsDuringCycle = FALSE, Next, ~Lost
    PROVE  DeletionInv' /\ OnlyEditsRevive
<1>1. CASE HostStep
  <2>1. CASE \E late \in SUBSET Resource, failed \in BOOLEAN, N \in SUBSET Setting :
                \E g \in [N -> Content] : HostScan(late, failed, N, g)
    BY <2>1, ScansStay
  <2>2. CASE HostSave \/ \E r \in Resource, ok \in BOOLEAN : HostApply(r, ok)
    BY <2>2, OthersStay
  <2> QED BY <1>1, <2>1, <2>2 DEF HostStep
<1>2. CASE HelperStep
  <2>1. CASE \E r \in Resource, ok \in BOOLEAN : HelperScan(r, ok)
    BY <2>1, ScansStay
  <2>2. CASE \E N \in SUBSET Chat : \E g \in [N -> Content] : Settle(N, g)
    BY <2>2, ScansStay
  <2>3. CASE \E pg \in SUBSET Candidates : TakePage(pg)
    BY <2>3, OthersStay
  <2>4. CASE \E out \in [{v \in page : Res(v) \in Chat} -> Outcomes] : WriteDatabase(out)
    BY <2>4, OthersStay
  <2>5. CASE \E v \in todo \cap page, out \in Outcomes : WriteFile(v, out)
    BY <2>5, OthersStay
  <2>6. CASE HelperStart \/ HelperExported \/ Interrupted \/ Freeze \/ Drained \/ MarkPage
    BY <2>6, OthersStay
  <2> QED BY <1>2, <2>1, <2>2, <2>3, <2>4, <2>5, <2>6 DEF HelperStep
<1>3. CASE \E r \in Resource, c \in Content \cup {Absent} :
              \E parents \in {{v} : v \in Of(versions, r)} \cup {Tips(versions, r)} :
                 PeerPublish(r, c, parents)
  <2>0. PICK r \in Resource, c \in Content \cup {Absent} :
                \E P \in {{v} : v \in Of(versions, r)} \cup {Tips(versions, r)} :
                   PeerPublish(r, c, P)
    BY <1>3
  <2>1. PICK P \in {{v} : v \in Of(versions, r)} \cup {Tips(versions, r)} :
                PeerPublish(r, c, P)
    BY <2>0
  <2>2. P \in SUBSET Of(versions, r) /\ OfflineInv'
    BY ActiveIs, OfflineNextInv DEF OfflineInv, OfflineTypeInv
  <2>3. DeletionInv'
    BY <2>1, <2>2, PeerStays
  <2>4. OnlyEditsRevive
    <3>1. PICK x, e : /\ x = Version(r, c, FALSE, P) /\ e = [x EXCEPT !.own = FALSE]
                      /\ versions' = Append(versions, e)
      BY <2>1 DEF PeerPublish
    <3>2. ~e.own
      BY <3>1 DEF Version
    <3>3. \A v \in DOMAIN versions' \ DOMAIN versions : versions'[v] = e
      <4>1. PICK n : n = Len(versions) /\ n \in Nat /\ DOMAIN versions = 1..n
        BY LenProperties DEF OfflineInv, OfflineTypeInv, IsLog
      <4>2. DOMAIN versions' = 1..(n + 1) /\ versions'[n + 1] = e
        BY <3>1, <4>1
      <4> QED BY <4>1, <4>2
    <3> QED BY <3>2, <3>3 DEF OnlyEditsRevive, Revives
  <2> QED BY <2>3, <2>4
<1>4. CASE \E unfinished \in SUBSET Chat : SyncAndApply(unfinished)
  BY <1>4, ScansStay
<1>5. CASE UserEdits \/ OpenCursor \/ Crash \/ \E m \in {"final", "export"} : CloseCursor(m)
  BY <1>5, OthersStay
<1> QED BY <1>1, <1>2, <1>3, <1>4, <1>5 DEF Next

LEMMA DeletionInit ==
    ASSUME OfflineAssumption, Init, OfflineInv
    PROVE  DeletionInv
<1>1. /\ local = [r \in Resource |-> Initial] /\ mem = disk /\ pc = "idle" /\ scan = Nobody
      /\ disk.proj = [r \in Resource |-> At(versions, Active(versions, r))]
  <2>1. PICK f, n : /\ f = [r \in Resource |-> At(versions, Active(versions, r))]
                    /\ n = Len(versions)
    OBVIOUS
  <2>2. disk = [proj |-> f, pending |-> {}, seen |-> n]
    BY <2>1 DEF Init
  <2> QED BY <2>1, <2>2 DEF Init
<1>2. ASSUME NEW v \in DOMAIN versions PROVE versions[v].hash = Initial
  <2>1. PICK F : /\ F = {Version(r, Initial, FALSE, {}) : r \in Resource}
                 /\ versions = SetToSeq(F)
    BY DEF Init
  <2>2. IsFiniteSet(F)
    <3>1. PICK W : W = [r \in Resource |-> Version(r, Initial, FALSE, {})]
      OBVIOUS
    <3>2. W \in Surjection(Resource, F)
      BY <2>1, <3>1 DEF Surjection
    <3> QED BY <3>2, FS_Surjection DEF OfflineAssumption
  <2>3. versions \in Seq(F)
    BY <2>1, <2>2, SetToSeqIs
  <2>4. versions[v] \in F
    BY <2>3, LenProperties, ElementOfSeq
  <2>5. PICK r \in Resource : versions[v] = Version(r, Initial, FALSE, {})
    BY <2>1, <2>4
  <2>6. Version(r, Initial, FALSE, {}).hash = Initial
    BY DEF Version
  <2> QED BY <2>5, <2>6
<1>3. Initial # Absent /\ Initial # None
  BY DEF OfflineAssumption
<1>4. Words
  BY <1>2, <1>3 DEF Words
<1>5. Pages
  BY <1>1 DEF Pages
<1>6. ASSUME NEW r \in Chat
      PROVE  ChatInv(r) /\ CopyInv(r) /\ CycledInv(r) /\ ReadInv(r) /\ WrittenInv(r)
  <2>1. r \in Resource
    BY DEF Resource
  <2>2. mem.proj[r].hash = Initial
    <3>1. mem.proj[r].v \in DOMAIN versions /\ mem.proj[r].hash = versions[mem.proj[r].v].hash
      BY <2>1 DEF OfflineInv, CopiesInv, Stands, StandsFor, Of
    <3> QED BY <1>2, <3>1
  <2>3. mem.proj[r].kept = None
    BY <1>1, <2>1 DEF At
  <2> QED BY <1>1, <1>3, <2>1, <2>2, <2>3
          DEF ChatInv, CopyInv, CycledInv, ReadInv, WasRead, WrittenInv, Nobody, OfflineAssumption
<1> QED BY <1>4, <1>5, <1>6 DEF DeletionInv

(* Another device's deletion of a conversation is not undone by publishing *)
(* the copy that was kept, for any number of chats, edits, versions and    *)
(* faults, as long as every cycle finishes its scan of the chats, and no   *)
(* process dies, or finds Cursor back, between what it writes or notes and *)
(* what it saves (ordinaryApplyDecision, exportFinalChanges,               *)
(* markAppliedProjections).                                                *)
THEOREM DeletionsStand ==
    ASSUME EditsDuringCycle = FALSE
    PROVE  MCSpec /\ [][~Lost]_vars => DeleteStays
<1> DEFINE Good == OfflineInv /\ DeletionInv
           Stay == \A v \in DOMAIN versions' \ DOMAIN versions :
                      LET new == versions'[v]
                      IN  new.own /\ ~new.synth /\ new.res \in Chat
                          /\ (\E t \in new.parents \cap Tips(versions, new.res) :
                                 versions[t].hash = Absent)
                          => new.res \in dirty
<1>1. MCInit => Good
  BY OfflineAssumption, OfflineInitInv, DeletionInit DEF MCInit
<1>2. Good /\ [MCNext]_<<part, vars, gitVars, forkVars, chatVars>> /\ [~Lost]_vars /\ OfflineInv'
        => Good' /\ [Stay]_vars
  <2>1. ASSUME Good, Next, ~Lost PROVE DeletionInv' /\ Stay
    <3>1. DeletionInv' /\ OnlyEditsRevive
      BY <2>1, OfflineAssumption, DeletionNextInv
    <3> QED BY <3>1 DEF OnlyEditsRevive, Revives
  <2>2. ASSUME Good, UNCHANGED vars PROVE DeletionInv'
    <3>1. /\ UNCHANGED <<versions, local, cursor, dirty, disk, mem, pc, frozen, todo, scan,
                         deferred, page, done>>
      BY <2>2 DEF vars, host, cycle, drain
    <3>2. Grows(versions, versions') /\ Words'
      BY <2>2, <3>1, GrowsItself DEF OfflineInv, OfflineTypeInv, DeletionInv, Words, Res
    <3> QED BY <2>2, <3>1, <3>2, OfflineAssumption, EnvironmentStays
  <2> HIDE DEF Stay
  <2> QED BY <2>1, <2>2, OfflineMoves
<1> HIDE DEF Good, Stay
<1>3. MCSpec /\ [][~Lost]_vars => [][Stay]_vars
  BY <1>1, <1>2, OfflineInvariance, PTL DEF MCSpec
<1> QED BY <1>3 DEF DeleteStays, Stay
=============================================================================
