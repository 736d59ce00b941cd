------------------------------- MODULE MCDevice -------------------------------
(* Instances of Device for TLC.                                            *)
EXTENDS Device, TLC

CONSTANTS b1, b2, q1, q2, q3

Symmetric == Permutations(Boots) \cup Permutations(Runs)
=============================================================================
