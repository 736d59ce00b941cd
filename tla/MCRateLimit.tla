----------------------------- MODULE MCRateLimit -----------------------------
(* Buckets small enough for every schedule of checks over three refills.   *)
EXTENDS RateLimit, TLC

CONSTANTS ip, serial

Symmetric == Permutations(Buckets)
=============================================================================
