------------------------- MODULE MCSharedRepository -------------------------
EXTENDS SharedRepository

(* The bounds are not all reached together: three events and a checkpoint, *)
(* or two and two.  A marker after a prune is one of the events.           *)
FewFiles == EventCount + Len(cps) <= 4
=============================================================================
