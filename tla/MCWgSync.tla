------------------------------- MODULE MCWgSync -------------------------------
(* Three overlapping syncs, one change of the table, two edits.     *)
EXTENDS WgSync, TLC

CONSTANTS p1, p2, p3, t1, t2, t3

Symmetric == Permutations(Runs) \cup Permutations(Temps)
=============================================================================
