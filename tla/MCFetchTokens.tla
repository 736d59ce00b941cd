---------------------------- MODULE MCFetchTokens ----------------------------
(* Two tokens that share a prefix, so that a prefix names more than one row. *)
EXTENDS FetchTokens, TLC

CONSTANTS m1, m2, v1, d1, d2, d3, bench, blank, pre

SharedPrefix == [m \in Mints |-> pre]

Symmetric == Permutations(Mints) \cup Permutations(Downloads)
=============================================================================
