----------------------------- MODULE MCTelemetry -----------------------------
(* One router that is enrolled up to twice, and its heartbeats.            *)
EXTENDS Telemetry, TLC

CONSTANTS b1, b2, b3, r1, t1, t2

OneOwner == [t \in Tokens |-> r1]

Symmetric == Permutations(Beats) \cup Permutations(Tokens)
=============================================================================
