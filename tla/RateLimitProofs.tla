--------------------------- MODULE RateLimitProofs ---------------------------
(* Proofs about RateLimit, for any capacity, cost, rate and set of keys.   *)
EXTENDS RateLimit, TLAPS

USE CapacityAssumption, TimeAssumption, NoBucketAssumption

\* No bucket has been looked at in the future, no check has passed there, and the
\* observer began before.
Clock ==
    /\ start <= now
    /\ \A k \in Buckets : passed[k] <= now
    /\ \A k \in Buckets : bucket[k] # NoBucket => bucket[k].last <= now

\* What has passed since the start, and what could pass now, was in the bucket
\* then, or in the buckets of a restart, or has been added since.
Account(k) ==
    Cost * admitted[k] + Tokens(k) <= Capacity * (1 + restarts) + Rate * (now - start)

\* A bucket has all that has been added since a check passed, up to a full one.
Gained(k) == Tokens(k) >= Smaller(Capacity, (now - passed[k]) * Rate)

IInv == TypeOK /\ Clock /\ \A k \in Buckets : Account(k) /\ Gained(k)

\* Tokens(k) is between nothing and a full bucket.
LEMMA TokensType ==
    ASSUME TypeOK, Clock, NEW k \in Buckets
    PROVE  Tokens(k) \in 0 .. Capacity
<1>1. CASE bucket[k] = NoBucket
  BY <1>1 DEF Tokens
<1>2. CASE bucket[k] # NoBucket
  <2>1. bucket[k] \in Bucket /\ now - bucket[k].last \in Nat
    BY <1>2 DEF TypeOK, Clock, Bucket
  <2>2. (now - bucket[k].last) * Rate \in Nat
    BY <2>1
  <2> QED
    BY <1>2, <2>1, <2>2 DEF Tokens, Refilled, Smaller, Bucket
<1> QED
  BY <1>1, <1>2

\* A tick adds Rate to a bucket, as far as it goes in.
LEMMA TickAdds ==
    ASSUME TypeOK, Clock, Tick, NEW k \in Buckets
    PROVE  Tokens(k)' = Smaller(Capacity, Tokens(k) + Rate)
<1>1. CASE bucket[k] = NoBucket
  BY <1>1 DEF Tokens, Tick, Smaller
<1>2. CASE bucket[k] # NoBucket
  <2>1. bucket[k] \in Bucket /\ now - bucket[k].last \in Nat
        /\ now' = now + 1 /\ bucket' = bucket /\ now \in Int
    BY <1>2 DEF TypeOK, Clock, Bucket, Tick
  <2>2. (now - bucket[k].last) * Rate \in Nat
        /\ (now + 1 - bucket[k].last) * Rate = (now - bucket[k].last) * Rate + Rate
    BY <2>1 DEF Bucket
  <2> QED
    BY <1>2, <2>1, <2>2 DEF Tokens, Refilled, Smaller, Bucket
<1> QED
  BY <1>1, <1>2

\* A bucket that has just been looked at holds what the look left in it.
LEMMA Looked ==
    ASSUME TypeOK, Clock, NEW k \in Buckets, NEW left \in 0 .. Capacity,
           bucket' = [bucket EXCEPT ![k] = [tokens |-> left, last |-> now]],
           now' = now
    PROVE  /\ Tokens(k)' = left
           /\ \A j \in Buckets \ {k} : Tokens(j)' = Tokens(j)
           /\ bucket' \in [Buckets -> Bucket \cup {NoBucket}]
           /\ \A j \in Buckets : bucket'[j] # NoBucket => bucket'[j].last <= now'
<1>1. [tokens |-> left, last |-> now] \in Bucket
  BY DEF TypeOK, Bucket
<1>2. bucket'[k] = [tokens |-> left, last |-> now] /\ bucket'[k] # NoBucket
  BY <1>1 DEF TypeOK
<1>3. (now - now) * Rate = 0 /\ now \in Int
  BY DEF TypeOK
<1>4. Tokens(k)' = left
  BY <1>2, <1>3 DEF Tokens, Refilled, Smaller
<1>5. \A j \in Buckets \ {k} : Tokens(j)' = Tokens(j)
  BY DEF Tokens, Refilled, TypeOK
<1>6. bucket' \in [Buckets -> Bucket \cup {NoBucket}]
  BY <1>1 DEF TypeOK
<1>7. ASSUME NEW j \in Buckets, bucket'[j] # NoBucket
      PROVE  bucket'[j].last <= now'
  BY <1>2, <1>3, <1>7 DEF TypeOK, Clock
<1> QED
  BY <1>4, <1>5, <1>6, <1>7

\* A tick keeps what a bucket has gained.
LEMMA TickGains ==
    ASSUME TypeOK, Clock, Tick, NEW k \in Buckets, Gained(k)
    PROVE  Gained(k)'
<1>1. Tokens(k)' = Smaller(Capacity, Tokens(k) + Rate) /\ Tokens(k) \in 0 .. Capacity
  BY TickAdds, TokensType
<1>2. now' = now + 1 /\ passed' = passed /\ now \in Int /\ passed[k] \in Int
  BY DEF Tick, TypeOK
<1>3. PICK d \in Int : d = now - passed[k]
  BY <1>2
<1>4. now' - passed'[k] = d + 1 /\ (d + 1) * Rate = d * Rate + Rate /\ d * Rate \in Int
  BY <1>2, <1>3
<1>5. Tokens(k) >= Smaller(Capacity, d * Rate)
  BY <1>3 DEF Gained
<1>6. Tokens(k)' >= Smaller(Capacity, d * Rate + Rate)
  BY <1>1, <1>4, <1>5 DEF Smaller
<1> QED
  BY <1>4, <1>6 DEF Gained

LEMMA Step ==
    ASSUME IInv, [Next]_vars
    PROVE  IInv'
<1>t. TypeOK /\ Clock /\ now \in Int /\ start \in Int /\ now - start \in Nat
  BY DEF IInv, TypeOK, Clock
<1>m. Rate * (now - start) \in Nat
  BY <1>t
<1>r. restarts \in Nat /\ Capacity * (1 + restarts) \in Nat
  BY <1>t DEF TypeOK
<1>a. \A k \in Buckets : admitted[k] \in Nat /\ Cost * admitted[k] \in Nat
  BY <1>t DEF TypeOK
<1>1. ASSUME NEW k \in Buckets, Pass(k)
      PROVE  IInv'
  <2>1. Tokens(k) - Cost \in 0 .. Capacity
    BY <1>t, <1>1, TokensType DEF Pass
  <2>2. /\ Tokens(k)' = Tokens(k) - Cost
        /\ \A j \in Buckets \ {k} : Tokens(j)' = Tokens(j)
        /\ bucket' \in [Buckets -> Bucket \cup {NoBucket}]
        /\ \A j \in Buckets : bucket'[j] # NoBucket => bucket'[j].last <= now'
    BY <1>t, <1>1, <2>1, Looked DEF Pass
  <2>3. TypeOK' /\ Clock'
    BY <1>t, <1>1, <2>2 DEF Pass, TypeOK, Clock
  <2>4. /\ admitted'[k] = admitted[k] + 1
        /\ \A j \in Buckets \ {k} : admitted'[j] = admitted[j]
        /\ now' = now /\ start' = start /\ restarts' = restarts
    BY <1>1, <1>t DEF Pass, TypeOK
  <2>5. Cost * (admitted[k] + 1) = Cost * admitted[k] + Cost
    BY <1>a
  <2>6. ASSUME NEW j \in Buckets
        PROVE  Account(j)'
    <3>1. Account(j) /\ Tokens(j) \in Int
      BY <1>t, TokensType DEF IInv
    <3>2. CASE j = k
      BY <1>a, <1>m, <1>r, <2>1, <2>2, <2>4, <2>5, <3>1, <3>2 DEF Account
    <3>3. CASE j # k
      BY <1>a, <1>m, <1>r, <2>2, <2>4, <3>1, <3>3 DEF Account
    <3> QED
      BY <3>2, <3>3
  <2>7. ASSUME NEW j \in Buckets
        PROVE  Gained(j)'
    <3>1. passed' = [passed EXCEPT ![k] = now]
      BY <1>1 DEF Pass
    <3>2. CASE j = k
      <4>1. passed'[k] = now /\ now' = now /\ (now - now) * Rate = 0
        BY <1>t, <2>4, <3>1 DEF TypeOK
      <4> QED
        BY <2>1, <2>2, <3>2, <4>1 DEF Gained, Smaller
    <3>3. CASE j # k
      BY <1>t, <2>2, <2>4, <3>1, <3>3 DEF Gained, IInv, TypeOK
    <3> QED
      BY <3>2, <3>3
  <2> QED
    BY <2>3, <2>6, <2>7 DEF IInv
<1>2. ASSUME NEW k \in Buckets, Refuse(k)
      PROVE  IInv'
  <2>1. Tokens(k) \in 0 .. Capacity
    BY <1>t, TokensType
  <2>2. /\ \A j \in Buckets : Tokens(j)' = Tokens(j)
        /\ bucket' \in [Buckets -> Bucket \cup {NoBucket}]
        /\ \A j \in Buckets : bucket'[j] # NoBucket => bucket'[j].last <= now'
    BY <1>t, <1>2, <2>1, Looked DEF Refuse
  <2>3. TypeOK' /\ Clock'
    BY <1>t, <1>2, <2>2 DEF Refuse, TypeOK, Clock
  <2>4. \A j \in Buckets : Account(j)' /\ Gained(j)'
    BY <1>2, <2>2 DEF Refuse, Account, Gained, IInv
  <2> QED
    BY <2>3, <2>4 DEF IInv
<1>3. CASE Tick
  <2>1. TypeOK' /\ Clock'
    BY <1>t, <1>3 DEF Tick, TypeOK, Clock, Bucket
  <2>2. Rate * (now' - start') = Rate * (now - start) + Rate
    <3>1. now' = now + 1 /\ start' = start
      BY <1>3 DEF Tick
    <3>2. PICK d \in Int : d = now - start
      BY <1>t
    <3>3. now' - start' = d + 1
      BY <1>t, <3>1, <3>2
    <3>4. Rate * (d + 1) = Rate * d + Rate
      OBVIOUS
    <3> QED
      BY <3>2, <3>3, <3>4
  <2>3. ASSUME NEW k \in Buckets
        PROVE  Account(k)' /\ Gained(k)'
    <3>1. Account(k) /\ Gained(k) /\ Tokens(k) \in 0 .. Capacity
      BY <1>t, TokensType DEF IInv
    <3>2. Tokens(k)' \in Int /\ Tokens(k)' <= Tokens(k) + Rate
      BY <1>t, <1>3, <3>1, TickAdds DEF Smaller
    <3>3. admitted' = admitted /\ restarts' = restarts
      BY <1>3 DEF Tick
    <3>4. Account(k)'
      BY <1>a, <1>m, <1>r, <2>2, <3>1, <3>2, <3>3 DEF Account
    <3> QED
      BY <1>t, <1>3, <3>1, <3>4, TickGains
  <2> QED
    BY <2>1, <2>3 DEF IInv
<1>4. CASE Restart
  <2>1. TypeOK' /\ Clock'
    BY <1>t, <1>4 DEF Restart, TypeOK, Clock
  <2>2. Capacity * (1 + restarts') = Capacity * (1 + restarts) + Capacity
    BY <1>r, <1>4 DEF Restart
  <2>3. ASSUME NEW k \in Buckets
        PROVE  Account(k)' /\ Gained(k)'
    <3>1. Account(k) /\ Tokens(k) \in 0 .. Capacity /\ Tokens(k)' = Capacity
      BY <1>t, <1>4, TokensType DEF IInv, Restart, Tokens
    <3>2. Account(k)'
      BY <1>4, <1>a, <1>m, <1>r, <2>2, <3>1 DEF Account, Restart
    <3>3. now' - passed'[k] \in Int
      BY <1>t, <1>4 DEF Restart, TypeOK
    <3>4. (now' - passed'[k]) * Rate \in Int
      BY <3>3
    <3> QED
      BY <3>1, <3>2, <3>4 DEF Gained, Smaller
  <2> QED
    BY <2>1, <2>3 DEF IInv
<1>6. CASE Observe
  <2>1. TypeOK' /\ Clock'
    BY <1>t, <1>6 DEF Observe, TypeOK, Clock
  <2>2. ASSUME NEW k \in Buckets
        PROVE  Account(k)' /\ Gained(k)'
    <3>1. Tokens(k)' \in 0 .. Capacity
      BY <1>t, <1>6, TokensType DEF Observe, Tokens, Refilled
    <3>2. admitted'[k] = 0 /\ start' = now /\ now' = now /\ restarts' = 0
      BY <1>6 DEF Observe
    <3>3. Account(k)'
      BY <1>t, <3>1, <3>2 DEF Account
    <3>4. Gained(k)'
      BY <1>6 DEF Observe, Gained, Tokens, Refilled, IInv
    <3> QED
      BY <3>3, <3>4
  <2> QED
    BY <2>1, <2>2 DEF IInv
<1>5. CASE UNCHANGED vars
  BY <1>5 DEF vars, IInv, TypeOK, Clock, Account, Gained, Tokens, Refilled
<1> QED
  BY <1>1, <1>2, <1>3, <1>4, <1>5, <1>6 DEF Next

THEOREM Inductive == Spec => []IInv
<1>1. Init => IInv
  BY DEF Init, IInv, TypeOK, Clock, Account, Gained, Smaller, Tokens
<1>2. IInv /\ [Next]_vars => IInv'
  BY Step
<1> QED
  BY <1>1, <1>2, PTL DEF Spec

\* Every variable of the limiter has its type.
THEOREM TypeCorrect == Spec => []TypeOK
<1>1. IInv => TypeOK
  BY DEF IInv
<1> QED
  BY <1>1, Inductive, PTL

\* rate_limit.py:24-32: from any moment on, a key passes at most a full bucket
\* per life of the process, and what has been added since.
THEOREM BurstIsBounded == Spec => []BurstBound
<1>1. ASSUME IInv, NEW k \in Buckets
      PROVE  Cost * admitted[k] <= Capacity * (1 + restarts) + Rate * (now - start)
  <2>1. Tokens(k) \in 0 .. Capacity /\ Account(k)
    BY <1>1, TokensType DEF IInv
  <2>2. Cost * admitted[k] \in Int /\ Rate * (now - start) \in Int
        /\ Capacity * (1 + restarts) \in Int
    BY <1>1 DEF IInv, TypeOK
  <2> QED
    BY <2>1, <2>2 DEF Account
<1>2. IInv => BurstBound
  BY <1>1 DEF BurstBound
<1> QED
  BY <1>2, Inductive, PTL

\* rate_limit.py:24-32: a key is refused only while less than one request's worth
\* has been added since it last passed, whatever has been refused in between.
THEOREM NobodyIsStarved == Spec => []NeverStarved
<1>1. ASSUME IInv, NEW k \in Buckets, Tokens(k) < Cost
      PROVE  (now - passed[k]) * Rate < Cost
  <2>1. Tokens(k) \in 0 .. Capacity /\ Gained(k)
    BY <1>1, TokensType DEF IInv
  <2>2. now - passed[k] \in Int
    BY <1>1 DEF IInv, TypeOK
  <2>3. (now - passed[k]) * Rate \in Int
    BY <2>2
  <2> QED
    BY <1>1, <2>1, <2>3 DEF Gained, Smaller
<1>2. IInv => NeverStarved
  BY <1>1 DEF NeverStarved
<1> QED
  BY <1>2, Inductive, PTL
===============================================================================
