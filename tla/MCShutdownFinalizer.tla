------------------------ MODULE MCShutdownFinalizer ------------------------
(* ShutdownFinalizer on small sets of windows and processes.  No symmetry: *)
(* the run checks liveness.                                                *)
EXTENDS ShutdownFinalizer

(* It begins when one of the windows, all alike until then, has become the *)
(* leader.                                                                 *)
FirstElected ==
    LET w == CHOOSE v \in Window : TRUE
    IN  /\ NothingYet /\ leader = w /\ opened = {w}
        /\ wanted = [v \in Window |-> IF v = w THEN "role" ELSE "no"]
MCSpec == FirstElected /\ [][Next]_vars /\ Fairness

(* The two acts are not quitting and switching off at the same time.       *)
OneAtATime ==
    ~(off # "no" /\ (helper \/ veto # {} \/ \E w \in Window : quit[w] # "no"))
=============================================================================
