------------------------------ MODULE RateLimit ------------------------------
(***************************************************************************)
(* The in-memory token buckets of app/services/rate_limit.py.              *)
(*                                                                         *)
(* Time passes in ticks, and a bucket holds integer units: a request costs *)
(* Cost of them and Rate are added per tick, so that a fraction of a token *)
(* can be in a bucket, as in the code's floats.  The code's bucket is      *)
(* Capacity = 10 * Cost, with 10 * Cost units added per minute.            *)
(* A bucket is made, full, by the first check of its (scope, key).         *)
(***************************************************************************)
EXTENDS Integers

CONSTANTS
    Buckets,    \* (scope, key) pairs that are checked
    Capacity,   \* units a full bucket has
    Cost,       \* units a request takes
    Rate,       \* units added per tick
    MaxTime,    \* bound: the last tick
    MaxRestarts,    \* bound: restarts that an observer sees
    NoBucket    \* no request has been seen for the key

ASSUME CapacityAssumption ==
    Rate \in Nat \ {0} /\ Cost \in Nat \ {0} /\ Capacity \in Nat /\ Capacity >= Cost
ASSUME TimeAssumption     == MaxTime \in Nat /\ MaxRestarts \in Nat

Bucket == [tokens : 0 .. Capacity, last : 0 .. MaxTime]
ASSUME NoBucketAssumption == NoBucket \notin Bucket

VARIABLES
    now,       \* time.monotonic()
    bucket,    \* the dictionary _buckets
    start,     \* a moment an observer starts counting (history)
    restarts,  \* restarts of the process since then (history)
    admitted,  \* checks passed per bucket since then (history)
    passed     \* when a check of the bucket passed last, or the start (history)

vars == <<now, bucket, start, restarts, admitted, passed>>

Smaller(x, y) == IF x < y THEN x ELSE y

\* Mutant: capacity is only looked at when the bucket is made.
RefilledUncapped(b) == b.tokens + (now - b.last) * Rate

\* What is in a bucket when it is looked at now.
Refilled(b) == Smaller(Capacity, b.tokens + (now - b.last) * Rate)

Tokens(k) == IF bucket[k] = NoBucket THEN Capacity ELSE Refilled(bucket[k])

Init ==
    /\ now = 0
    /\ bucket = [k \in Buckets |-> NoBucket]
    /\ start = 0
    /\ restarts = 0
    /\ admitted = [k \in Buckets |-> 0]
    /\ passed = [k \in Buckets |-> 0]

\* Mutant: the bucket may go into debt.
PassOverdrawn(k) ==
    /\ Tokens(k) > 0
    /\ bucket' = [bucket EXCEPT ![k] = [tokens |-> Tokens(k) - Cost, last |-> now]]
    /\ admitted' = [admitted EXCEPT ![k] = @ + 1]
    /\ passed' = [passed EXCEPT ![k] = now]
    /\ UNCHANGED <<now, start, restarts>>

\* check_rate_limit when it returns True, and when it returns False.  The lock
\* makes each call one step.
Pass(k) ==
    /\ Tokens(k) >= Cost
    /\ bucket' = [bucket EXCEPT ![k] = [tokens |-> Tokens(k) - Cost, last |-> now]]
    /\ admitted' = [admitted EXCEPT ![k] = @ + 1]
    /\ passed' = [passed EXCEPT ![k] = now]
    /\ UNCHANGED <<now, start, restarts>>

\* Mutant: what has been added is kept only if the check passes.
RefuseForgetful(k) ==
    /\ Tokens(k) < Cost
    /\ bucket' = [bucket EXCEPT ![k] = [tokens |-> bucket[k].tokens, last |-> now]]
    /\ UNCHANGED <<now, start, restarts, admitted, passed>>

Refuse(k) ==
    /\ Tokens(k) < Cost
    /\ bucket' = [bucket EXCEPT ![k] = [tokens |-> Tokens(k), last |-> now]]
    /\ UNCHANGED <<now, start, restarts, admitted, passed>>

Tick ==
    /\ now < MaxTime
    /\ now' = now + 1
    /\ UNCHANGED <<bucket, start, restarts, admitted, passed>>

\* The process starts over: every bucket is forgotten.
Restart ==
    /\ restarts < MaxRestarts
    /\ restarts' = restarts + 1
    /\ bucket' = [k \in Buckets |-> NoBucket]
    /\ UNCHANGED <<now, start, admitted, passed>>

\* An observer starts counting anew, at any moment.
Observe ==
    /\ start' = now
    /\ restarts' = 0
    /\ admitted' = [k \in Buckets |-> 0]
    /\ UNCHANGED <<now, bucket, passed>>

Next ==
    \/ \E k \in Buckets : Pass(k) \/ Refuse(k)
    \/ Tick \/ Restart \/ Observe

Spec == Init /\ [][Next]_vars

-----------------------------------------------------------------------------
TypeOK ==
    /\ now \in 0 .. MaxTime
    /\ bucket \in [Buckets -> Bucket \cup {NoBucket}]
    /\ start \in 0 .. MaxTime
    /\ restarts \in 0 .. MaxRestarts
    /\ admitted \in [Buckets -> Nat]
    /\ passed \in [Buckets -> 0 .. MaxTime]

\* What a key passes from any moment on is bounded by what has been added since
\* and one full bucket, plus one for each restart, which forgets the buckets:
\* however checks, pauses and restarts alternate.
BurstBound ==
    \A k \in Buckets :
        Cost * admitted[k] <= Capacity * (1 + restarts) + Rate * (now - start)

\* Refusals cost nothing: a key is refused only while less than one request's
\* worth has been added since it last passed, however often it has been refused
\* in between.  A device that keeps trying is not starved by its own attempts,
\* and a fraction of a token is never lost to one of them.
NeverStarved ==
    \A k \in Buckets : Tokens(k) < Cost => (now - passed[k]) * Rate < Cost
=============================================================================
