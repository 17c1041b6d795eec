------------------------ MODULE MCDatabaseRecovery ------------------------
(* Two pages, one thing written by the user, three backups.                *)
EXTENDS DatabaseRecovery, TLC

(* The bounds are not all reached together: three backups and one fault,   *)
(* or two and two.                                                         *)
FewFaults == Len(backups) + faults <= 4

Pages == Permutations(Page)
=============================================================================
