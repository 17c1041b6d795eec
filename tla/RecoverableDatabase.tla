------------------------- MODULE RecoverableDatabase -------------------------
(***************************************************************************)
(* What the offline helper promises about Cursor's database: it changes as *)
(* a whole or not at all, and never before a copy of what the user had is  *)
(* complete; the newest copy stays until there is a newer one.             *)
(***************************************************************************)
CONSTANTS Page, Use      \* pages of changes; things the user writes

VARIABLES
    db,        \* the pages and uses the database contains
    points,    \* the contents a restore can bring back
    newest,    \* the newest of them
    covered    \* has nobody used the database since newest was taken?

vars == <<db, points, newest, covered>>

Init == db = {} /\ points = {} /\ newest = {} /\ covered = FALSE

Uses(u) ==
    /\ db' = db \cup {u} /\ covered' = FALSE
    /\ UNCHANGED <<points, newest>>

Snapshot ==
    /\ points' = points \cup {db} /\ newest' = db /\ covered' = TRUE
    /\ UNCHANGED db

Write(content) ==
    /\ covered /\ newest \in points
    /\ (\E p \in Page : content = db \cup {p}) \/ content \in points
    /\ db' = content /\ UNCHANGED <<points, newest, covered>>

Forget ==
    /\ points' \subseteq points /\ newest \in points'
    /\ UNCHANGED <<db, newest, covered>>

Next ==
    \/ \E u \in Use : Uses(u)
    \/ Snapshot
    \/ \E content \in SUBSET (Page \cup Use) : Write(content)
    \/ Forget

Spec == Init /\ [][Next]_vars
=============================================================================
