--------------------------- MODULE FetchTokensProofs ---------------------------
(***************************************************************************)
(* For every number of tokens, revocations and downloads: a revoked token  *)
(* stays revoked, a dead one serves nothing, a listing hides none that is  *)
(* usable, and the use count is neither zero after a use nor above the     *)
(* number of downloads.                                                    *)
(***************************************************************************)
EXTENDS FetchTokens, FiniteSetTheorems, TLAPS

\* What a session holds in each place of its code, and which rows exist then.
Sessions ==
    /\ \A m \in Mints :
         /\ pc[m] = "commit" => held[m] \in Row /\ held[m].uses = 0 /\ ~Exists(m)
         /\ Exists(m) => pc[m] = "minted"
    /\ \A v \in Revokes : \A m \in matched[v] : Exists(m)
    /\ \A d \in Downloads :
         /\ pc[d] = "count" => held[d] \in Row /\ Exists(asks[d])
         /\ pc[d] \in {"answer", "served"} => Exists(asks[d]) /\ row[asks[d]].uses > 0

\* What a listing has left out was inactive then, and is inactive for good.
Listed == \A m \in hidden : Exists(m) /\ ~Active(m)

\* The downloads with token m that have counted themselves, or never will.
Past(m) == {d \in Downloads : asks[d] = m /\ pc[d] \notin {"idle", "find", "count"}}

\* No count, in the table or in a session, is above their number.
Tallied ==
    /\ \A m \in Mints : Exists(m) => row[m].uses <= Cardinality(Past(m))
    /\ \A d \in Downloads :
         pc[d] = "count" => held[d].uses <= Cardinality(Past(asks[d]))

\* A download that came in with an inactive token is refused by its lookup, at
\* whatever moment that runs, as the token is not valid at the download's clock.
Late ==
    \A d \in late :
        /\ pc[d] \in {"find", "denied", "failed"}
        /\ pc[d] = "find" => Exists(asks[d]) /\ ~Valid(asks[d], clock[d])

IInv == TypeOK /\ Sessions /\ Listed /\ Tallied /\ Late

USE ProcsAssumption, PrefixAssumption, TimesAssumption, NoRowAssumption

LEMMA Counting ==
    ASSUME NEW m
    PROVE  /\ IsFiniteSet(Past(m))
           /\ Cardinality(Past(m)) \in Nat
           /\ Cardinality(Past(m)) <= Cardinality({d \in Downloads : asks[d] = m})
           /\ Cardinality({d \in Downloads : asks[d] = m}) \in Nat
<1>1. IsFiniteSet({d \in Downloads : asks[d] = m})
  BY FiniteAssumption, FS_Subset
<1>2. Past(m) \subseteq {d \in Downloads : asks[d] = m}
  BY DEF Past
<1> QED
  BY <1>1, <1>2, FS_Subset, FS_CardinalityType

LEMMA TypeStep ==
    ASSUME TypeOK, Sessions, [Next]_vars
    PROVE  TypeOK'
<1>1. ASSUME NEW m \in Mints, Mint(m)
      PROVE  TypeOK'
  <2>1. ASSUME NEW label \in Labels \cup {Blank}, NEW ttl \in Ttls, Issue(m, label, ttl)
        PROVE  TypeOK'
    <3>1. [label |-> label, expires |-> now + ttl, revoked |-> FALSE, uses |-> 0] \in Row
      BY <2>1 DEF Issue, Row, TypeOK
    <3> QED
      BY <2>1, <3>1 DEF Issue, Goto, TypeOK, Procs
  <2>2. ASSUME NEW label \in Labels \cup {Blank}, NEW ttl \in Ttls, RefuseIssue(m, label, ttl)
        PROVE  TypeOK'
    BY <2>2 DEF RefuseIssue, Goto, TypeOK, Procs, Ended
  <2>3. CASE CommitIssue(m)
    BY <2>3 DEF CommitIssue, Goto, TypeOK, Procs, Ended
  <2> QED
    BY <1>1, <2>1, <2>2, <2>3 DEF Mint
<1>2. ASSUME NEW v \in Revokes, Select(v)
      PROVE  TypeOK'
  BY <1>2 DEF Select, Goto, TypeOK, Procs
<1>3. ASSUME NEW v \in Revokes, Revoke(v)
      PROVE  TypeOK'
  <2>1. \A m \in matched[v] : row[m] \in Row
    BY DEF Sessions, TypeOK, Exists
  <2>2. \A m \in matched[v] : [row[m] EXCEPT !.revoked = TRUE] \in Row
    BY <2>1 DEF Row
  <2>3. row' \in [Mints -> Row \cup {NoRow}]
    BY <1>3, <2>2 DEF Revoke, TypeOK
  <2> QED
    BY <1>3, <2>3 DEF Revoke, Goto, TypeOK, Procs, Ended
<1>4. CASE List
  BY <1>4 DEF List, TypeOK
<1>5. ASSUME NEW d \in Downloads, Download(d)
      PROVE  TypeOK'
  <2>1. CASE RateLimited(d) \/ Arrive(d)
    BY <2>1 DEF RateLimited, Arrive, Goto, TypeOK, Procs, Ended
  <2>2. CASE Find(d)
    <3>1. held' \in [Mints \cup Downloads -> Row \cup {NoRow}]
      BY <2>2 DEF Find, TypeOK
    <3>2. pc' \in [Procs -> Ended \cup {"idle", "commit", "write", "find", "count", "answer"}]
      BY <2>2 DEF Find, Goto, TypeOK, Procs, Ended
    <3>3. clock' \in [Downloads -> 0 .. MaxTime]
      BY <2>2 DEF Find, TypeOK
    <3> QED
      BY <2>2, <3>1, <3>2, <3>3 DEF Find, TypeOK
  <2>3. CASE Count(d)
    <3>1. held[d] \in Row /\ row[asks[d]] \in Row
      BY <2>3 DEF Count, Sessions, TypeOK, Exists
    <3>2. [row[asks[d]] EXCEPT !.uses = held[d].uses + 1] \in Row
      BY <3>1 DEF Row
    <3>3. row' \in [Mints -> Row \cup {NoRow}]
      BY <2>3, <3>2 DEF Count, TypeOK
    <3> QED
      BY <2>3, <3>3 DEF Count, Goto, TypeOK, Procs
  <2>4. CASE Serve(d)
    BY <2>4 DEF Serve, Goto, TypeOK, Procs, Ended
  <2> QED
    BY <1>5, <2>1, <2>2, <2>3, <2>4 DEF Download
<1>6. ASSUME NEW p \in Procs, Fail(p)
      PROVE  TypeOK'
  BY <1>6 DEF Fail, Goto, TypeOK, Procs, Ended
<1>7. CASE Tick
  BY <1>7 DEF Tick, TypeOK
<1>8. CASE UNCHANGED vars
  BY <1>8 DEF vars, TypeOK
<1> QED
  BY <1>1, <1>2, <1>3, <1>4, <1>5, <1>6, <1>7, <1>8 DEF Next, Finished

\* No step takes a row away, moves its label or expiry, or un-revokes it.
RowsKept ==
    \A m \in Mints :
        Exists(m) =>
            /\ row'[m] # NoRow
            /\ row[m].revoked => row'[m].revoked
            /\ row'[m].label = row[m].label
            /\ row'[m].expires = row[m].expires

LEMMA RowStep ==
    ASSUME TypeOK, Sessions, [Next]_vars
    PROVE  RowsKept
<1>1. ASSUME NEW m \in Mints, CommitIssue(m)
      PROVE  RowsKept
  BY <1>1 DEF CommitIssue, Sessions, TypeOK, RowsKept, Exists
<1>2. ASSUME NEW v \in Revokes, Revoke(v)
      PROVE  RowsKept
  <2>2. ASSUME NEW m \in Mints, Exists(m)
        PROVE  /\ row[m] \in Row
               /\ row'[m] = row[m] \/ row'[m] = [row[m] EXCEPT !.revoked = TRUE]
    BY <1>2, <2>2 DEF Revoke, TypeOK, Exists
  <2>3. \A r \in Row : /\ [r EXCEPT !.revoked = TRUE] \in Row
                       /\ [r EXCEPT !.revoked = TRUE].revoked
                       /\ [r EXCEPT !.revoked = TRUE].label = r.label
                       /\ [r EXCEPT !.revoked = TRUE].expires = r.expires
    BY DEF Row
  <2> QED
    BY <2>2, <2>3 DEF RowsKept, Exists
<1>3. ASSUME NEW d \in Downloads, Count(d)
      PROVE  RowsKept
  <2>1. held[d].uses + 1 \in Nat
    BY <1>3 DEF Count, Sessions, Row
  <2>2. ASSUME NEW m \in Mints, Exists(m)
        PROVE  /\ row[m] \in Row
               /\ row'[m] = row[m] \/ row'[m] = [row[m] EXCEPT !.uses = held[d].uses + 1]
    <3>1. row[m] \in Row
      BY <2>2 DEF TypeOK, Exists
    <3>2. asks[d] # m => row'[m] = row[m]
      BY <1>3 DEF Count, TypeOK
    <3>3. asks[d] = m => row'[m] = [row[m] EXCEPT !.uses = held[d].uses + 1]
      BY <1>3 DEF Count, TypeOK
    <3> QED
      BY <3>1, <3>2, <3>3
  <2>3. \A r \in Row, n \in Nat : /\ [r EXCEPT !.uses = n] \in Row
                                  /\ [r EXCEPT !.uses = n].revoked = r.revoked
                                  /\ [r EXCEPT !.uses = n].label = r.label
                                  /\ [r EXCEPT !.uses = n].expires = r.expires
    BY DEF Row
  <2>4. ASSUME NEW m \in Mints, Exists(m)
        PROVE  /\ row'[m] \in Row
               /\ row'[m].revoked = row[m].revoked
               /\ row'[m].label = row[m].label
               /\ row'[m].expires = row[m].expires
    <3>1. CASE row'[m] = row[m]
      BY <2>2, <2>4, <3>1
    <3>2. CASE row'[m] = [row[m] EXCEPT !.uses = held[d].uses + 1]
      BY <2>1, <2>2, <2>3, <2>4, <3>2
    <3> QED
      BY <2>2, <2>4, <3>1, <3>2
  <2> QED
    BY <2>4 DEF RowsKept
<1>4. CASE UNCHANGED row
  BY <1>4 DEF RowsKept, Exists
<1> QED
  BY <1>1, <1>2, <1>3, <1>4
     DEF Next, Mint, Issue, RefuseIssue, Select, List, Download, RateLimited,
         Arrive, Find, Serve, Fail, Tick, Finished, vars

LEMMA SessionStep ==
    ASSUME TypeOK, Sessions, [Next]_vars
    PROVE  Sessions'
<1>0. TypeOK' /\ RowsKept
  BY TypeStep, RowStep
<1>1. ASSUME NEW m \in Mints, Mint(m)
      PROVE  Sessions'
  <2>1. ASSUME NEW label \in Labels \cup {Blank}, NEW ttl \in Ttls, Issue(m, label, ttl)
        PROVE  Sessions'
    <3>1. [label |-> label, expires |-> now + ttl, revoked |-> FALSE, uses |-> 0] \in Row
      BY <2>1 DEF Issue, Row, TypeOK
    <3> QED
      BY <2>1, <3>1 DEF Issue, Goto, TypeOK, Procs, Sessions, Exists
  <2>2. ASSUME NEW label \in Labels \cup {Blank}, NEW ttl \in Ttls, RefuseIssue(m, label, ttl)
        PROVE  Sessions'
    BY <2>2 DEF RefuseIssue, Goto, TypeOK, Procs, Sessions, Exists
  <2>3. CASE CommitIssue(m)
    <3>1. ~Exists(m) /\ \A n \in Mints \ {m} : row'[n] = row[n]
      BY <2>3 DEF CommitIssue, TypeOK, Sessions
    <3>2. \A n \in Mints : Exists(n) => n # m
      BY <3>1
    <3> QED
      BY <2>3, <3>1, <3>2 DEF CommitIssue, Goto, TypeOK, Procs, Sessions, Exists
  <2> QED
    BY <1>1, <2>1, <2>2, <2>3 DEF Mint
<1>2. ASSUME NEW v \in Revokes, Select(v)
      PROVE  Sessions'
  BY <1>2 DEF Select, Goto, TypeOK, Procs, Sessions, Exists
<1>3. ASSUME NEW v \in Revokes, Revoke(v)
      PROVE  Sessions'
  <2>1. \A m \in Mints : Exists(m)' = Exists(m)
    BY <1>0, <1>3 DEF Revoke, Sessions, TypeOK, RowsKept, Exists
  <2>2. \A m \in Mints : Exists(m) => row'[m].uses = row[m].uses
    <3>1. \A m \in Mints : Exists(m) => row[m] \in Row
      BY DEF TypeOK, Exists
    <3>2. \A r \in Row : [r EXCEPT !.revoked = TRUE].uses = r.uses
      BY DEF Row
    <3> QED
      BY <1>3, <3>1, <3>2 DEF Revoke, TypeOK
  <2> QED
    BY <1>3, <2>1, <2>2 DEF Revoke, Goto, TypeOK, Procs, Sessions
<1>4. CASE List
  BY <1>4 DEF List, Sessions, Exists
<1>5. ASSUME NEW d \in Downloads, Download(d)
      PROVE  Sessions'
  <2>1. CASE RateLimited(d) \/ Arrive(d)
    BY <2>1 DEF RateLimited, Arrive, Goto, TypeOK, Procs, Sessions, Exists
  <2>2. CASE Find(d)
    <3>1. Valid(asks[d], clock[d]) => Exists(asks[d]) /\ row[asks[d]] \in Row
      BY DEF Valid, Exists, TypeOK
    <3> QED
      BY <2>2, <3>1 DEF Find, Goto, TypeOK, Procs, Sessions, Exists
  <2>3. CASE Count(d)
    <3>1. held[d].uses + 1 \in Nat /\ held[d].uses + 1 > 0
      BY <2>3 DEF Count, Sessions, Row
    <3>2. Exists(asks[d]) /\ row[asks[d]] \in Row
      BY <2>3 DEF Count, Sessions, TypeOK, Exists
    <3>3. \A m \in Mints : Exists(m)' = Exists(m)
      BY <1>0, <2>3, <3>2 DEF Count, TypeOK, RowsKept, Exists
    <3>4. /\ row'[asks[d]].uses = held[d].uses + 1
          /\ \A m \in Mints \ {asks[d]} : row'[m] = row[m]
      BY <2>3, <3>2 DEF Count, TypeOK, Row
    <3>5. \A e \in Downloads : asks[e] = asks[d] \/ row'[asks[e]] = row[asks[e]]
      BY <3>4 DEF TypeOK
    <3>6. /\ \A e \in Downloads \ {d} : pc'[e] = pc[e] /\ asks'[e] = asks[e]
          /\ asks'[d] = asks[d] /\ pc'[d] = "answer" /\ held' = held
          /\ matched' = matched
          /\ \A p \in Mints \cup Revokes : pc'[p] = pc[p]
      BY <2>3 DEF Count, Goto, TypeOK, Procs
    <3>7. ASSUME NEW e \in Downloads
          PROVE  /\ pc'[e] = "count" => held'[e] \in Row /\ Exists(asks[e])'
                 /\ pc'[e] \in {"answer", "served"} =>
                        Exists(asks[e])' /\ row'[asks'[e]].uses > 0
      <4>1. asks' = asks /\ asks[e] \in Mints
        BY <2>3 DEF Count, TypeOK
      <4>2. row'[asks[e]].uses > 0 \/ (e # d /\ row'[asks[e]] = row[asks[e]])
        BY <3>1, <3>4, <3>5
      <4>3. row'[asks[e]] # NoRow <=> row[asks[e]] # NoRow
        BY <3>3, <4>1 DEF Exists
      <4>4. CASE e = d
        BY <3>2, <3>4, <3>1, <3>6, <4>1, <4>3, <4>4 DEF Exists
      <4>5. CASE e # d
        BY <3>6, <4>1, <4>2, <4>3, <4>5 DEF Sessions, Exists
      <4> QED
        BY <4>4, <4>5
    <3> QED
      BY <3>3, <3>6, <3>7 DEF Sessions, Exists, TypeOK
  <2>4. CASE Serve(d)
    BY <2>4 DEF Serve, Goto, TypeOK, Procs, Sessions, Exists
  <2> QED
    BY <1>5, <2>1, <2>2, <2>3, <2>4 DEF Download
<1>6. ASSUME NEW p \in Procs, Fail(p)
      PROVE  Sessions'
  BY <1>6 DEF Fail, Goto, TypeOK, Procs, Sessions, Exists, Ended
<1>7. CASE Tick \/ UNCHANGED vars
  BY <1>7 DEF Tick, vars, Sessions, Exists
<1> QED
  BY <1>1, <1>2, <1>3, <1>4, <1>5, <1>6, <1>7 DEF Next, Finished

LEMMA ListedStep ==
    ASSUME TypeOK, Sessions, Listed, [Next]_vars
    PROVE  Listed'
<1>1. TypeOK' /\ RowsKept
  BY TypeStep, RowStep
<1>2. now \in Int /\ now' \in Int /\ now <= now'
  <2>1. now' = now \/ now' = now + 1
    BY DEF Next, Mint, Issue, RefuseIssue, CommitIssue, Select, Revoke, List,
           Download, RateLimited, Arrive, Find, Count, Serve, Fail, Tick,
           Finished, vars
  <2> QED
    BY <2>1 DEF TypeOK
<1>3. ASSUME NEW m \in Mints, Exists(m), ~Active(m)
      PROVE  Exists(m)' /\ ~Active(m)'
  <2>1. row[m] \in Row /\ row[m].expires \in Int /\ row[m].revoked \in BOOLEAN
    BY <1>3 DEF TypeOK, Exists, Row
  <2> QED
    BY <1>1, <1>2, <1>3, <2>1 DEF RowsKept, Exists, Active
<1>4. \A m \in hidden' : m \in Mints /\ Exists(m) /\ ~Active(m)
  BY DEF Next, Mint, Issue, RefuseIssue, CommitIssue, Select, Revoke, List,
         Download, RateLimited, Arrive, Find, Count, Serve, Fail, Tick,
         Finished, vars, Listed, TypeOK
<1> QED
  BY <1>3, <1>4 DEF Listed

\* A step moves no download back out of Past, so that the tally only grows.
LEMMA PastGrows ==
    ASSUME TypeOK, [Next]_vars
    PROVE  /\ asks' = asks
           /\ \A m \in Mints : Past(m) \subseteq Past(m)'
<1>1. asks' = asks
  BY DEF Next, Mint, Issue, RefuseIssue, CommitIssue, Select, Revoke, List,
         Download, RateLimited, Arrive, Find, Count, Serve, Fail, Tick,
         Finished, vars
<1>2. ASSUME NEW d \in Downloads, pc[d] \notin {"idle", "find", "count"}
      PROVE  pc'[d] \notin {"idle", "find", "count"}
  <2>1. CASE \E m \in Mints : Mint(m)
    BY <1>2, <2>1 DEF Mint, Issue, RefuseIssue, CommitIssue, Goto, TypeOK, Procs
  <2>2. CASE \E v \in Revokes : Select(v) \/ Revoke(v)
    BY <1>2, <2>2 DEF Select, Revoke, Goto, TypeOK, Procs
  <2>3. CASE \E e \in Downloads : Download(e)
    BY <1>2, <2>3 DEF Download, RateLimited, Arrive, Find, Count, Serve, Goto, TypeOK, Procs
  <2>4. CASE \E p \in Procs : Fail(p)
    BY <1>2, <2>4 DEF Fail, Goto, TypeOK, Procs
  <2>5. CASE List \/ Tick \/ UNCHANGED vars
    BY <1>2, <2>5 DEF List, Tick, vars
  <2> QED
    BY <2>1, <2>2, <2>3, <2>4, <2>5 DEF Next, Finished
<1> QED
  BY <1>1, <1>2 DEF Past

LEMMA TalliedStep ==
    ASSUME TypeOK, Sessions, Tallied, [Next]_vars
    PROVE  Tallied'
<1>1. TypeOK' /\ Sessions'
  BY TypeStep, SessionStep
<1>2. asks' = asks /\ \A m \in Mints : Past(m) \subseteq Past(m)'
  BY PastGrows
<1>3. \A m \in Mints : /\ IsFiniteSet(Past(m)')
                       /\ Cardinality(Past(m)) \in Nat
                       /\ Cardinality(Past(m)') \in Nat
                       /\ Cardinality(Past(m)) <= Cardinality(Past(m)')
  <2>1. \A m \in Mints : Past(m)' \subseteq Downloads
    BY DEF Past
  <2>2. \A m \in Mints : IsFiniteSet(Past(m)')
    BY <2>1, FiniteAssumption, FS_Subset
  <2> QED
    BY <1>2, <2>2, FS_Subset, FS_CardinalityType
<1>4. ASSUME \A m \in Mints : row'[m] # NoRow =>
                  (row[m] # NoRow /\ row'[m].uses = row[m].uses) \/ row'[m].uses = 0,
             \A d \in Downloads : pc'[d] = "count" =>
                  \/ pc[d] = "count" /\ held'[d] = held[d]
                  \/ row[asks[d]] # NoRow /\ held'[d] = row[asks[d]]
      PROVE  Tallied'
  <2>1. ASSUME NEW m \in Mints, row'[m] # NoRow
        PROVE  row'[m].uses <= Cardinality(Past(m)')
    <3>1. CASE row[m] # NoRow /\ row'[m].uses = row[m].uses
      <4>1. row[m].uses \in Nat /\ row[m].uses <= Cardinality(Past(m))
        BY <3>1 DEF TypeOK, Tallied, Exists, Row
      <4> QED
        BY <1>3, <3>1, <4>1
    <3>2. CASE row'[m].uses = 0
      BY <1>3, <3>2
    <3> QED
      BY <1>4, <2>1, <3>1, <3>2
  <2>2. ASSUME NEW d \in Downloads, pc'[d] = "count",
               NEW m \in Mints, m = asks[d]
        PROVE  held'[d].uses <= Cardinality(Past(m)')
    <3>1. CASE pc[d] = "count" /\ held'[d] = held[d]
      <4>1. held[d].uses \in Nat /\ held[d].uses <= Cardinality(Past(m))
        BY <2>2, <3>1 DEF Sessions, Tallied, Row
      <4> QED
        BY <1>3, <3>1, <4>1
    <3>2. CASE row[m] # NoRow /\ held'[d] = row[m]
      <4>1. row[m].uses \in Nat /\ row[m].uses <= Cardinality(Past(m))
        BY <3>2 DEF TypeOK, Tallied, Exists, Row
      <4> QED
        BY <1>3, <3>2, <4>1
    <3> QED
      BY <1>4, <2>2, <3>1, <3>2
  <2>3. ASSUME NEW m \in Mints, Exists(m)'
        PROVE  row'[m].uses <= Cardinality(Past(m))'
    BY <2>1, <2>3 DEF Exists
  <2>4. ASSUME NEW d \in Downloads, pc'[d] = "count"
        PROVE  held'[d].uses <= Cardinality(Past(asks[d]))'
    <3>1. PICK m \in Mints : m = asks[d] /\ m = asks'[d]
      BY <1>2 DEF TypeOK
    <3>2. held'[d].uses <= Cardinality(Past(m)')
      BY <2>2, <2>4, <3>1
    <3> QED
      BY <3>1, <3>2
  <2> QED
    BY <2>3, <2>4 DEF Tallied
<1>5. CASE \E m \in Mints : Mint(m)
  <2>1. PICK m \in Mints : Mint(m)
    BY <1>5
  <2>2. CASE CommitIssue(m)
    BY <1>4, <2>2 DEF CommitIssue, Goto, TypeOK, Procs, Sessions, Exists
  <2>3. CASE ~CommitIssue(m)
    BY <1>4, <2>1, <2>3 DEF Mint, Issue, RefuseIssue, Goto, TypeOK, Procs
  <2> QED
    BY <2>2, <2>3
<1>6. CASE \E v \in Revokes : Select(v) \/ Revoke(v)
  <2>1. PICK v \in Revokes : Select(v) \/ Revoke(v)
    BY <1>6
  <2>2. CASE Select(v)
    BY <1>4, <2>2 DEF Select, Goto, TypeOK, Procs
  <2>3. CASE Revoke(v)
    <3>1. \A m \in Mints : row'[m] # NoRow =>
              row[m] # NoRow /\ row'[m].uses = row[m].uses
      <4>1. \A r \in Row : [r EXCEPT !.revoked = TRUE].uses = r.uses
        BY DEF Row
      <4>2. \A m \in matched[v] : row[m] \in Row /\ row[m] # NoRow
        BY DEF Sessions, Exists, TypeOK
      <4> QED
        BY <2>3, <4>1, <4>2 DEF Revoke
    <3> QED
      BY <1>4, <2>3, <3>1 DEF Revoke, Goto, TypeOK, Procs
  <2> QED
    BY <2>1, <2>2, <2>3
<1>7. CASE List \/ Tick \/ UNCHANGED vars
  BY <1>4, <1>7 DEF List, Tick, vars
<1>8. ASSUME NEW p \in Procs, Fail(p)
      PROVE  Tallied'
  BY <1>4, <1>8 DEF Fail, Goto, TypeOK, Procs
<1>9. ASSUME NEW d \in Downloads, RateLimited(d) \/ Arrive(d) \/ Find(d) \/ Serve(d)
      PROVE  Tallied'
  <2>1. CASE RateLimited(d) \/ Arrive(d) \/ Serve(d)
    BY <1>4, <2>1 DEF RateLimited, Arrive, Serve, Goto, TypeOK, Procs
  <2>2. CASE Find(d)
    BY <1>4, <2>2 DEF Find, Valid, Exists, Goto, TypeOK, Procs
  <2> QED
    BY <1>9, <2>1, <2>2
<1>10. ASSUME NEW d \in Downloads, Count(d)
       PROVE  Tallied'
  <2>1. PICK a \in Mints : a = asks[d]
    BY DEF TypeOK
  <2>2. Past(a)' = Past(a) \cup {d} /\ d \notin Past(a)
    BY <1>10, <2>1 DEF Count, Goto, Past, TypeOK, Procs
  <2>3. Cardinality(Past(a)') = Cardinality(Past(a)) + 1
    <3>1. IsFiniteSet(Past(a))
      BY Counting
    <3> QED
      BY <2>2, <3>1, FS_AddElement
  <2>4. held[d].uses \in Nat /\ held[d].uses <= Cardinality(Past(a))
    BY <1>10, <2>1 DEF Count, Sessions, Tallied, Row
  <2>5. row[a] \in Row /\ row[a] # NoRow
    BY <1>10, <2>1 DEF Count, Sessions, TypeOK, Exists
  <2>6. row'[a].uses = held[d].uses + 1 /\ \A m \in Mints \ {a} : row'[m] = row[m]
    BY <1>10, <2>1, <2>5 DEF Count, TypeOK, Row
  <2>7. ASSUME NEW m \in Mints, Exists(m)'
        PROVE  row'[m].uses <= Cardinality(Past(m))'
    <3>1. CASE m = a
      BY <1>3, <2>3, <2>4, <2>6, <3>1
    <3>2. CASE m # a
      <4>1. row'[m] = row[m] /\ Exists(m)
        BY <2>6, <2>7, <3>2 DEF Exists
      <4>2. row[m].uses \in Nat /\ row[m].uses <= Cardinality(Past(m))
        BY <4>1 DEF Tallied, TypeOK, Exists, Row
      <4> QED
        BY <1>3, <4>1, <4>2
    <3> QED
      BY <3>1, <3>2
  <2>8. ASSUME NEW e \in Downloads, pc'[e] = "count"
        PROVE  held'[e].uses <= Cardinality(Past(asks[e]))'
    <3>1. PICK m \in Mints : m = asks[e] /\ m = asks'[e]
      BY <1>2 DEF TypeOK
    <3>2. pc[e] = "count" /\ held'[e] = held[e]
      BY <1>10, <2>8 DEF Count, Goto, TypeOK, Procs
    <3>3. held[e].uses \in Nat /\ held[e].uses <= Cardinality(Past(m))
      BY <3>1, <3>2 DEF Sessions, Tallied, Row
    <3>4. held'[e].uses <= Cardinality(Past(m)')
      BY <1>3, <3>2, <3>3
    <3> QED
      BY <3>1, <3>4
  <2> QED
    BY <2>7, <2>8 DEF Tallied
<1> QED
  BY <1>5, <1>6, <1>7, <1>8, <1>9, <1>10 DEF Next, Download, Finished

LEMMA LateStep ==
    ASSUME TypeOK, Sessions, Late, [Next]_vars
    PROVE  Late'
<1>1. TypeOK' /\ RowsKept /\ asks' = asks
  BY TypeStep, RowStep, PastGrows
<1>2. ASSUME NEW d \in Downloads, pc[d] = "find", pc'[d] = "find",
             clock'[d] = clock[d], Exists(asks[d]), ~Valid(asks[d], clock[d])
      PROVE  Exists(asks[d])' /\ ~Valid(asks[d], clock[d])'
  <2>1. PICK m \in Mints : m = asks[d] /\ m = asks'[d]
    BY <1>1 DEF TypeOK
  <2>2. row[m] \in Row /\ row[m].expires \in Int /\ row[m].revoked \in BOOLEAN
    BY <1>2, <2>1 DEF TypeOK, Exists, Row
  <2> QED
    BY <1>1, <1>2, <2>1, <2>2 DEF RowsKept, Exists, Valid
<1>3. ASSUME late' = late,
             \A d \in late : \/ pc'[d] = pc[d] /\ clock'[d] = clock[d]
                             \/ pc'[d] \in {"denied", "failed"}
      PROVE  Late'
  BY <1>2, <1>3 DEF Late, TypeOK
<1>4. ASSUME NEW m \in Mints, Mint(m)
      PROVE  Late'
  BY <1>3, <1>4 DEF Mint, Issue, RefuseIssue, CommitIssue, Goto, TypeOK, Procs
<1>5. ASSUME NEW v \in Revokes, Select(v) \/ Revoke(v)
      PROVE  Late'
  BY <1>3, <1>5 DEF Select, Revoke, Goto, TypeOK, Procs
<1>6. CASE List \/ Tick \/ UNCHANGED vars
  BY <1>3, <1>6 DEF List, Tick, vars
<1>7. ASSUME NEW d \in Downloads, Arrive(d)
      PROVE  Late'
  <2>1. d \notin late
    BY <1>7 DEF Arrive, Late
  <2>2. /\ pc'[d] = "find" /\ clock'[d] = now /\ row' = row
        /\ \A e \in Downloads \ {d} : pc'[e] = pc[e] /\ clock'[e] = clock[e]
    BY <1>7 DEF Arrive, Goto, TypeOK, Procs
  <2>3. \A e \in late' : e \in late \/ (e = d /\ Exists(asks[d]) /\ ~Active(asks[d]))
    BY <1>7 DEF Arrive
  <2>4. ASSUME Exists(asks[d]), ~Active(asks[d])
        PROVE  Exists(asks[d])' /\ ~Valid(asks[d], clock[d])'
    BY <1>1, <2>2, <2>4 DEF Exists, Active, Valid
  <2>5. ASSUME NEW e \in late', e # d
        PROVE  /\ pc'[e] \in {"find", "denied", "failed"}
               /\ pc'[e] = "find" => Exists(asks[e])' /\ ~Valid(asks[e], clock[e])'
    BY <1>1, <2>2, <2>3, <2>5 DEF Late, Exists, Valid, TypeOK
  <2>6. d \in late' => Exists(asks[d])' /\ ~Valid(asks[d], clock[d])'
    BY <2>1, <2>3, <2>4
  <2>7. ASSUME NEW e \in late'
        PROVE  /\ pc'[e] \in {"find", "denied", "failed"}
               /\ pc'[e] = "find" => Exists(asks[e])' /\ ~Valid(asks[e], clock[e])'
    <3>1. CASE e = d
      BY <2>2, <2>6, <2>7, <3>1
    <3>2. CASE e # d
      BY <2>5, <2>7, <3>2
    <3> QED
      BY <3>1, <3>2
  <2> QED
    BY <2>7 DEF Late
<1>8. ASSUME NEW d \in Downloads, RateLimited(d) \/ Count(d) \/ Serve(d)
      PROVE  Late'
  <2>1. d \notin late
    BY <1>8 DEF RateLimited, Count, Serve, Late
  <2> QED
    BY <1>3, <1>8, <2>1 DEF RateLimited, Count, Serve, Goto, TypeOK, Procs
<1>9. ASSUME NEW d \in Downloads, Find(d)
      PROVE  Late'
  <2>1. d \in late => pc'[d] = "denied"
    BY <1>9 DEF Find, Late, Goto, TypeOK, Procs
  <2> QED
    BY <1>3, <1>9, <2>1 DEF Find, Goto, TypeOK, Procs
<1>10. ASSUME NEW p \in Procs, Fail(p)
       PROVE  Late'
  BY <1>3, <1>10 DEF Fail, Goto, TypeOK, Procs
<1> QED
  BY <1>4, <1>5, <1>6, <1>7, <1>8, <1>9, <1>10 DEF Next, Download, Finished

LEMMA Initially ==
    ASSUME Init
    PROVE  IInv
<1>1. now \in 0 .. MaxTime /\ clock \in [Downloads -> 0 .. MaxTime]
  BY DEF Init
<1>2. TypeOK
  BY <1>1 DEF Init, TypeOK
<1>3. Sessions /\ Listed /\ Tallied /\ Late
  BY DEF Init, Sessions, Listed, Tallied, Late, Exists, Procs
<1> QED
  BY <1>2, <1>3 DEF IInv

\* The inductive invariant holds of every reachable state.
THEOREM Inductive == Spec => []IInv
<1>1. Init => IInv
  BY Initially
<1>2. IInv /\ [Next]_vars => IInv'
  BY TypeStep, SessionStep, ListedStep, TalliedStep, LateStep DEF IInv
<1> QED
  BY <1>1, <1>2, PTL DEF Spec

\* Every variable of the fetch token commands and downloads keeps its type.
THEOREM TypeCorrect == Spec => []TypeOK
<1>1. IInv => TypeOK
  BY DEF IInv
<1> QED
  BY <1>1, Inductive, PTL

\* No listing leaves out a token that a later download could still use.
THEOREM HiddenTokensAreDead == Spec => []HiddenIsDead
<1>1. IInv => HiddenIsDead
  BY DEF IInv, TypeOK, Listed, HiddenIsDead, Active, Valid
<1> QED
  BY <1>1, Inductive, PTL

\* No download that comes in with a revoked or expired token is ever served.
THEOREM DeadTokensAreDead == Spec => []DeadTokenIsDead
<1>1. IInv => DeadTokenIsDead
  BY DEF IInv, Late, DeadTokenIsDead
<1> QED
  BY <1>1, Inductive, PTL

\* A token that has served an installer has a use count that is not zero, and
\* at most the number of downloads that presented it.
THEOREM UsesAreRecorded == Spec => []UseIsRecorded
<1>1. ASSUME IInv, NEW m \in Mints
      PROVE  /\ (\E d \in {e \in Downloads : asks[e] = m} : pc[d] = "served") =>
                    Exists(m) /\ row[m].uses > 0
             /\ Exists(m) =>
                    row[m].uses <= Cardinality({e \in Downloads : asks[e] = m})
  <2>1. (\E d \in {e \in Downloads : asks[e] = m} : pc[d] = "served") =>
            Exists(m) /\ row[m].uses > 0
    BY <1>1 DEF IInv, Sessions
  <2>2. ASSUME Exists(m)
        PROVE  row[m].uses <= Cardinality({e \in Downloads : asks[e] = m})
    <3>1. row[m].uses \in Nat /\ row[m].uses <= Cardinality(Past(m))
      BY <1>1, <2>2 DEF IInv, TypeOK, Tallied, Exists, Row
    <3> QED
      BY <3>1, Counting
  <2> QED
    BY <2>1, <2>2
<1>2. IInv => UseIsRecorded
  BY <1>1 DEF UseIsRecorded
<1> QED
  BY <1>2, Inductive, PTL

\* Whatever downloads are under way when a token is revoked, and whenever they
\* write its row, it stays revoked.
THEOREM RevocationIsFinal == Spec => RevokedForGood
<1>1. IInv /\ [Next]_vars =>
        [\A m \in Mints :
            Exists(m) /\ row[m].revoked =>
                /\ row'[m] # NoRow
                /\ row'[m].revoked
                /\ row'[m].label = row[m].label
                /\ row'[m].expires = row[m].expires]_vars
  BY RowStep DEF IInv, RowsKept
<1> QED
  BY <1>1, Inductive, PTL DEF Spec, RevokedForGood
=============================================================================
