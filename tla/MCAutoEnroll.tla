----------------------------- MODULE MCAutoEnroll -----------------------------
(* Instances of AutoEnroll for TLC.                                        *)
EXTENDS AutoEnroll, FiniteSets, TLC

CONSTANTS r1, r2, r3, c1, s1, s2, k1, k2, k3

Body(s, k, i) == [serial |-> s, key |-> k, ident |-> i, secret |-> TRUE]

\* Two routers: the first comes with its first key, or reset with a second key
\* and the default name; the second with the default name too.
MCFleet == {Body(s1, k1, "conv1"), Body(s1, k2, "default"), Body(s2, k3, "default")}

\* Two routers that have nothing in common.
MCDistinct == {Body(s1, k1, "conv1"), Body(s2, k2, "conv2")}

\* Two routers that come with the same name, the second at times with a bad
\* secret.
MCNamesakes ==
    {Body(s1, k1, "default"), Body(s2, k2, "default"),
     [Body(s2, k2, "default") EXCEPT !.secret = FALSE]}

Symmetric == Permutations(Reqs)
=============================================================================
