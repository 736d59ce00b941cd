--------------------------- MODULE AutoEnrollProofs ---------------------------
(* Proofs about AutoEnroll, for any number of requests, routers and syncs. *)
EXTENDS AutoEnroll, TLAPS

\* Where a request's transaction has not committed, and where it has.
Before == {"idle", "find", "allocate", "insert", "update", "tokens", "commit"}
After  == {"fetch", "write", "load", "apply", "hung", "audit", "ok"}

\* What the session of a request holds, and how it agrees with the database.
Session(r) ==
    /\ loaded[r] # NoRow =>
          Enrolled(Serial(r)) /\ routers[Serial(r)].ip = loaded[r].ip
    /\ pc[r] \in {"idle", "find", "allocate", "insert"} => loaded[r] = NoRow
    /\ pc[r] \in {"update", "tokens"} => loaded[r] # NoRow
    /\ pc[r] \in Before \ {"commit"} => seen[r] = {}
    /\ pc[r] = "insert" =>
          /\ draft[r] \in Row
          /\ draft[r].ip # ServerIP
          /\ draft[r].status \in {"active", "pending"}
    /\ pc[r] \in Before => token[r] = "none"
    /\ pc[r] \in After =>
          /\ token[r] # "none"
          /\ Enrolled(Serial(r))
          /\ routers[Serial(r)].ip = AnsweredIP(r)

\* What a transaction that has written knows of the database until it commits.
Held(h) ==
    /\ draft[h] \in Row
    /\ ~Duplicate(Serial(h), draft[h])
    /\ loaded[h] = NoRow =>
          /\ ~Enrolled(Serial(h))
          /\ draft[h].ip # ServerIP
          /\ draft[h].status \in {"active", "pending"}
    /\ loaded[h] # NoRow =>
          /\ draft[h].ip = routers[Serial(h)].ip
          /\ draft[h].status = routers[Serial(h)].status
    /\ pc[h] = "commit" => seen[h] = ActiveTokens(Serial(h))

\* Two transactions that have written neither share a row nor a UNIQUE value.
Apart ==
    \A g, h \in Holding :
        g # h => Serial(g) # Serial(h) /\ ~Overlap(draft[g], draft[h])

Locks == Apart /\ \A h \in Holding : Held(h)

IInv ==
    /\ TypeOK
    /\ \A r \in Reqs : Session(r)
    /\ Locks
    /\ AddressesDistinct
    /\ OneActiveToken
-----------------------------------------------------------------------------
USE ProcsAssumption, PayloadAssumption, HostsAssumption, StatusAssumption,
    NoRowAssumption

\* What a payload's fields are.
LEMMA PayloadFields ==
    ASSUME TypeOK, NEW r \in Reqs
    PROVE  /\ Serial(r) \in Serials
           /\ payload[r].key \in Keys
           /\ payload[r].ident \in Idents
           /\ r \in Procs
BY DEF TypeOK, Serial, Procs

\* A step that drops sessions keeps their variables well typed.
LEMMA DropType ==
    ASSUME TypeOK, NEW P, NEW label \in Labels, Drop(P, label)
    PROVE  /\ pc'     \in [Procs -> Labels]
           /\ loaded' \in [Reqs -> Row \cup {NoRow}]
           /\ draft'  \in [Reqs -> Row \cup {NoRow}]
           /\ seen'   \in [Reqs -> SUBSET Reqs]
           /\ image'  \in [Procs -> SUBSET Peer]
BY DEF TypeOK, Drop

\* The peers rendered from a well-typed table are peers.
LEMMA ActivePeersType ==
    ASSUME TypeOK
    PROVE  ActivePeers \in SUBSET Peer
BY DEF TypeOK, ActivePeers, Enrolled, PeerOf, Row, Peer

\* The row an UPDATE leaves is a row, when the one it found is.
LEMMA ChangedType ==
    ASSUME TypeOK, NEW r \in Reqs, Enrolled(Serial(r))
    PROVE  /\ Changed(r) \in Row
           /\ Changed(r).ip = routers[Serial(r)].ip
           /\ Changed(r).status = routers[Serial(r)].status
<1>1. routers[Serial(r)] \in Row
  BY PayloadFields DEF TypeOK, Enrolled
<1> QED
  BY <1>1, PayloadFields DEF Changed, Row

\* The labels the actions go to are labels.
LEMMA TypeStep ==
    ASSUME IInv, [Next]_vars
    PROVE  TypeOK'
<1> USE DEF Goto, db, wg, own, Labels, Ended, Procs
<1>t. TypeOK
  BY DEF IInv
<1>1. CASE UNCHANGED vars
  BY <1>t, <1>1 DEF TypeOK, vars
<1>2. ASSUME NEW r \in Reqs, RateLimited(r) \/ Reject(r) \/ Admit(r)
      PROVE  TypeOK'
  <2>1. CASE RateLimited(r)
    BY <1>t, <2>1 DEF TypeOK, RateLimited
  <2>2. CASE Reject(r)
    BY <1>t, <2>2 DEF TypeOK, Reject
  <2>3. CASE Admit(r)
    BY <1>t, <2>3 DEF TypeOK, Admit
  <2> QED
    BY <1>2, <2>1, <2>2, <2>3
<1>3. ASSUME NEW r \in Reqs, Find(r)
      PROVE  TypeOK'
  BY <1>t, <1>3, PayloadFields DEF TypeOK, Find
<1>4. ASSUME NEW r \in Reqs, Allocate(r)
      PROVE  TypeOK'
  <2>1. PICK ip \in FreeHosts :
          draft' = [draft EXCEPT ![r] =
                        [ident  |-> payload[r].ident,
                         key    |-> payload[r].key,
                         ip     |-> ip,
                         status |-> InitialStatus(payload[r].ident)]]
    BY <1>4 DEF Allocate
  <2>2. [ident |-> payload[r].ident, key |-> payload[r].key, ip |-> ip,
         status |-> InitialStatus(payload[r].ident)] \in Row
    BY <1>t, PayloadFields DEF Row, InitialStatus, Status, FreeHosts
  <2>3. draft' \in [Reqs -> Row \cup {NoRow}]
    BY <1>t, <2>1, <2>2 DEF TypeOK
  <2> QED
    BY <1>t, <1>4, <2>3 DEF TypeOK, Allocate
<1>5. ASSUME NEW r \in Reqs, Exhaust(r) \/ PoolTimeout(r)
      PROVE  TypeOK'
  BY <1>t, <1>5, DropType DEF TypeOK, Exhaust, PoolTimeout
<1>6. ASSUME NEW r \in Reqs, Insert(r)
      PROVE  TypeOK'
  <2>1. CASE Drop({r}, "clash")
    BY <1>t, <1>6, <2>1, DropType DEF TypeOK, Insert
  <2>2. CASE Goto(r, "commit") /\ UNCHANGED own
    BY <1>t, <1>6, <2>2 DEF TypeOK, Insert
  <2> QED
    BY <1>6, <2>1, <2>2 DEF Insert
<1>7. ASSUME NEW r \in Reqs, Update(r)
      PROVE  TypeOK'
  <2>1. CASE Drop({r}, "clash")
    BY <1>t, <1>7, <2>1, DropType DEF TypeOK, Update
  <2>2. CASE /\ Goto(r, "tokens")
             /\ draft' = [draft EXCEPT ![r] = Changed(r)]
             /\ UNCHANGED <<loaded, seen, image>>
    <3>1. Enrolled(Serial(r))
      BY <1>7 DEF IInv, Session, Update
    <3>2. Changed(r) \in Row
      BY <1>t, <3>1, ChangedType
    <3> QED
      BY <1>t, <1>7, <2>2, <3>2 DEF TypeOK, Update
  <2> QED
    BY <1>7, <2>1, <2>2 DEF Update
<1>8. ASSUME NEW r \in Reqs, FindTokens(r)
      PROVE  TypeOK'
  BY <1>t, <1>8 DEF TypeOK, FindTokens, ActiveTokens
<1>9. ASSUME NEW r \in Reqs, Commit(r)
      PROVE  TypeOK'
  <2>1. draft[r] \in Row
    BY <1>9 DEF IInv, Locks, Held, Holding, Commit
  <2> QED
    BY <1>t, <1>9, <2>1, PayloadFields DEF TypeOK, Commit
<1>10. ASSUME NEW r \in Reqs, Answer(r)
       PROVE  TypeOK'
  BY <1>t, <1>10 DEF TypeOK, Answer
<1>11. ASSUME NEW p \in Procs, FetchPeers(p)
       PROVE  TypeOK'
  BY <1>t, <1>11, ActivePeersType DEF TypeOK, FetchPeers
<1>12. ASSUME NEW p \in Procs,
              WriteConf(p) \/ HelperRead(p) \/ HelperApply(p) \/ Hang(p)
       PROVE  TypeOK'
  BY <1>t, <1>12 DEF TypeOK, WriteConf, HelperRead, HelperApply, Hang
<1>13. ASSUME NEW p \in Procs, SyncFails(p)
       PROVE  TypeOK'
  BY <1>t, <1>13, DropType DEF TypeOK, SyncFails
<1>14. ASSUME NEW p \in Procs, Fail(p)
       PROVE  TypeOK'
  BY <1>t, <1>14, DropType DEF TypeOK, Fail
<1>15. ASSUME NEW c \in Syncs, StartSync(c)
       PROVE  TypeOK'
  BY <1>t, <1>15 DEF TypeOK, StartSync
<1>16. CASE Crash
  BY <1>t, <1>16, DropType DEF TypeOK, Crash
<1>17. CASE Reboot
  BY <1>t, <1>17, DropType DEF TypeOK, Reboot
<1>18. ASSUME NEW s \in Serials, NEW status \in AdminStatuses, SetStatus(s, status)
       PROVE  TypeOK'
  <2>1. routers[s] \in Row
    BY <1>t, <1>18 DEF TypeOK, SetStatus, Enrolled
  <2>2. [routers[s] EXCEPT !.status = status] \in Row
    BY <2>1 DEF Row, Status
  <2> QED
    BY <1>t, <1>18, <2>2 DEF TypeOK, SetStatus
<1> QED
  BY <1>1, <1>2, <1>3, <1>4, <1>5, <1>6, <1>7, <1>8, <1>9, <1>10, <1>11,
     <1>12, <1>13, <1>14, <1>15, <1>16, <1>17, <1>18
     DEF Next, Handle, Sync, Operate, Finished
-----------------------------------------------------------------------------
(* Rows and tokens: only Commit and SetStatus write them.                  *)

Kept(s) == Enrolled(s) => routers'[s] # NoRow /\ routers'[s].ip = routers[s].ip

\* Every step but a commit and an operator's leaves rows and tokens alone.
LEMMA Writers ==
    ASSUME [Next]_vars
    PROVE  \/ UNCHANGED <<routers, token>>
           \/ \E r \in Reqs : Commit(r)
           \/ \E s \in Serials, status \in AdminStatuses : SetStatus(s, status)
BY DEF Next, Handle, Sync, Operate, Finished, vars, RateLimited, Reject, Admit,
       PoolTimeout, Find, Allocate, Exhaust, Insert, Update, FindTokens, Answer,
       FetchPeers, Hang, WriteConf, HelperRead, HelperApply, SyncFails, Fail, StartSync, Crash,
       Reboot, db

\* What a request carries never changes.
LEMMA PayloadFixed ==
    ASSUME [Next]_vars
    PROVE  payload' = payload
BY DEF Next, Handle, Sync, Operate, Finished, vars, RateLimited, Reject, Admit,
       PoolTimeout, Find, Allocate, Exhaust, Insert, Update, FindTokens, Commit,
       Answer, FetchPeers, Hang, WriteConf, HelperRead, HelperApply, SyncFails, Fail,
       StartSync, Crash, Reboot, SetStatus

\* What the transaction that commits knows.
LEMMA CommitKnows ==
    ASSUME IInv, NEW r \in Reqs, Commit(r)
    PROVE  /\ r \in Holding
           /\ Held(r)
           /\ Serial(r) \in Serials
           /\ draft[r] \in Row
           /\ seen[r] = ActiveTokens(Serial(r))
           /\ token[r] = "none"
           /\ routers' = [routers EXCEPT ![Serial(r)] = draft[r]]
BY PayloadFields DEF IInv, Commit, Locks, Held, Holding, Session, Before

\* An operator's step keeps every row but for its status.
LEMMA SetStatusKeeps ==
    ASSUME IInv, NEW s \in Serials, NEW status \in AdminStatuses,
           SetStatus(s, status), NEW t \in Serials
    PROVE  /\ Enrolled(t)' <=> Enrolled(t)
           /\ Enrolled(t) => /\ routers'[t].ip = routers[t].ip
                             /\ routers'[t].key = routers[t].key
                             /\ routers'[t].ident = routers[t].ident
           /\ t # s => routers'[t] = routers[t]
           /\ \A h \in Holding : Serial(h) # s
           /\ UNCHANGED <<token, pc, loaded, draft, seen>>
<1>1. routers[s] \in Row
  BY DEF IInv, TypeOK, SetStatus, Enrolled
<1>2. [routers[s] EXCEPT !.status = status] \in Row
  BY <1>1 DEF Row, Status
<1>3. routers' = [routers EXCEPT ![s] = [routers[s] EXCEPT !.status = status]]
  BY DEF SetStatus
<1>4. routers \in [Serials -> Row \cup {NoRow}]
  BY DEF IInv, TypeOK
<1>5. CASE t = s
  <2>1. routers'[t] = [routers[t] EXCEPT !.status = status]
    BY <1>3, <1>4, <1>5
  <2> QED
    BY <1>1, <1>2, <1>5, <2>1 DEF SetStatus, Enrolled, own, Row
<1>6. CASE t # s
  BY <1>3, <1>4, <1>6 DEF SetStatus, Enrolled, own
<1> QED
  BY <1>5, <1>6

\* Rows stay, with their addresses.
LEMMA RowsKept ==
    ASSUME IInv, [Next]_vars, NEW s \in Serials
    PROVE  Kept(s)
<1>1. CASE UNCHANGED <<routers, token>>
  BY <1>1 DEF Kept, Enrolled
<1>2. ASSUME NEW r \in Reqs, Commit(r)
      PROVE  Kept(s)
  <2>1. CASE s = Serial(r)
    <3>1. routers'[s] = draft[r]
      BY <1>2, <2>1, CommitKnows DEF IInv, TypeOK
    <3>2. Enrolled(s) => draft[r].ip = routers[s].ip
      BY <1>2, <2>1, CommitKnows DEF Held
    <3> QED
      BY <1>2, <3>1, <3>2, CommitKnows DEF Kept, Enrolled
  <2>2. CASE s # Serial(r)
    BY <1>2, <2>2, CommitKnows DEF Kept, Enrolled, IInv, TypeOK
  <2> QED
    BY <2>1, <2>2
<1>3. ASSUME NEW t \in Serials, NEW status \in AdminStatuses, SetStatus(t, status)
      PROVE  Kept(s)
  BY <1>3, SetStatusKeeps DEF Kept, Enrolled
<1> QED
  BY <1>1, <1>2, <1>3, Writers

\* A token comes into being only when its own request commits, and stays.
LEMMA TokensKept ==
    ASSUME IInv, [Next]_vars, NEW q \in Reqs
    PROVE  \/ (token'[q] = "none") <=> (token[q] = "none")
           \/ Commit(q)
<1>1. ASSUME NEW r \in Reqs, Commit(r), r # q
      PROVE  (token'[q] = "none") <=> (token[q] = "none")
  BY <1>1, CommitKnows DEF Commit, ActiveTokens
<1> QED
  BY <1>1, Writers, SetStatusKeeps
-----------------------------------------------------------------------------
(* The sessions.                                                           *)

\* A session that a step does not touch stays in agreement with the database.
LEMMA SessionUntouched ==
    ASSUME IInv, [Next]_vars, NEW q \in Reqs, ~Commit(q),
           pc'[q] = pc[q], loaded'[q] = loaded[q], draft'[q] = draft[q],
           seen'[q] = seen[q]
    PROVE  Session(q)'
<1>1. Session(q)
  BY DEF IInv
<1>2. Kept(Serial(q)) /\ Serial(q)' = Serial(q)
  BY RowsKept, PayloadFields, PayloadFixed DEF IInv, Serial
<1>3. (token'[q] = "none") <=> (token[q] = "none")
  BY TokensKept
<1> QED
  BY <1>1, <1>2, <1>3 DEF Session, Kept, Enrolled, AnsweredIP

\* A session that is dropped holds nothing.
LEMMA SessionDropped ==
    ASSUME IInv, [Next]_vars, NEW q \in Reqs, NEW P, q \in P,
           NEW label \in Ended \ {"ok"}, Drop(P, label)
    PROVE  Session(q)'
<1>1. pc'[q] = label /\ loaded'[q] = NoRow /\ seen'[q] = {}
  BY DEF Drop, Procs
<1> QED
  BY <1>1 DEF Session, Ended, Before, After

\* A step that drops sessions commits none.
LEMMA DropCommitsNone ==
    ASSUME TypeOK, NEW q \in Reqs, NEW P, NEW label \in Ended, Drop(P, label)
    PROVE  ~Commit(q)
BY DEF Drop, Commit, Goto, TypeOK, Procs, Ended

\* A step that drops others leaves a session alone.
LEMMA DropOthers ==
    ASSUME TypeOK, NEW q \in Reqs, NEW P, q \notin P, NEW label, Drop(P, label)
    PROVE  /\ pc'[q] = pc[q] /\ loaded'[q] = loaded[q]
           /\ draft'[q] = draft[q] /\ seen'[q] = seen[q]
BY DEF Drop, Procs, TypeOK

LEMMA DropSession ==
    ASSUME IInv, [Next]_vars, NEW q \in Reqs, NEW P,
           NEW label \in Ended \ {"ok"}, Drop(P, label)
    PROVE  Session(q)'
BY SessionDropped, DropOthers, DropCommitsNone, SessionUntouched DEF IInv

LEMMA SessionStep ==
    ASSUME IInv, [Next]_vars, NEW q \in Reqs
    PROVE  Session(q)'
<1> USE DEF Goto, own
<1>t. TypeOK /\ Session(q) /\ q \in Procs
  BY DEF IInv, Procs
<1>k. Kept(Serial(q)) /\ Serial(q)' = Serial(q)
  BY RowsKept, PayloadFields, PayloadFixed DEF IInv, Serial
<1>n. ((token'[q] = "none") <=> (token[q] = "none")) \/ Commit(q)
  BY TokensKept
<1>1. CASE UNCHANGED vars
  BY <1>1, <1>t, SessionUntouched DEF vars, Commit, TypeOK
<1>2. ASSUME NEW r \in Reqs, RateLimited(r) \/ Reject(r) \/ Admit(r)
      PROVE  Session(q)'
  <2>1. UNCHANGED own /\ pc[r] = "idle" /\ ~Commit(q)
    <3>1. pc[r] = "idle" /\ pc' # [pc EXCEPT ![q] = "fetch"]
      BY <1>2, <1>t DEF RateLimited, Reject, Admit, TypeOK, Procs
    <3> QED
      BY <1>2, <3>1 DEF RateLimited, Reject, Admit, Commit
  <2>2. CASE r # q
    BY <1>2, <1>t, <2>1, <2>2, SessionUntouched DEF RateLimited, Reject, Admit, TypeOK
  <2>3. CASE r = q
    BY <1>2, <1>t, <1>k, <1>n, <2>1, <2>3
       DEF RateLimited, Reject, Admit, TypeOK, Session, Before, After, db
  <2> QED
    BY <2>2, <2>3
<1>3. ASSUME NEW r \in Reqs, Find(r)
      PROVE  Session(q)'
  <2>1. CASE r # q
    BY <1>3, <1>t, <2>1, SessionUntouched DEF Find, TypeOK, Commit
  <2>2. CASE r = q
    BY <1>3, <1>t, <1>k, <2>2
       DEF Find, TypeOK, Session, Before, After, db, Enrolled
  <2> QED
    BY <2>1, <2>2
<1>4. ASSUME NEW r \in Reqs, Allocate(r)
      PROVE  Session(q)'
  <2>1. CASE r # q
    BY <1>4, <1>t, <2>1, SessionUntouched DEF Allocate, TypeOK, Commit
  <2>2. CASE r = q
    <3>1. PICK ip \in FreeHosts :
            draft' = [draft EXCEPT ![r] =
                        [ident  |-> payload[r].ident,
                         key    |-> payload[r].key,
                         ip     |-> ip,
                         status |-> InitialStatus(payload[r].ident)]]
      BY <1>4 DEF Allocate
    <3>2. /\ draft'[q] \in Row /\ draft'[q].ip # ServerIP
          /\ draft'[q].status \in {"active", "pending"}
      BY <1>t, <2>2, <3>1, PayloadFields
         DEF Row, InitialStatus, Status, FreeHosts, TypeOK
    <3> QED
      BY <1>4, <1>t, <1>k, <2>2, <3>2
         DEF Allocate, TypeOK, Session, Before, After, db, Enrolled
  <2> QED
    BY <2>1, <2>2
<1>5. ASSUME NEW r \in Reqs, Exhaust(r) \/ PoolTimeout(r)
      PROVE  Session(q)'
  BY <1>5, DropSession DEF Exhaust, PoolTimeout, Ended
<1>6. ASSUME NEW r \in Reqs, Insert(r)
      PROVE  Session(q)'
  <2>1. CASE Drop({r}, "clash")
    BY <2>1, DropSession DEF Ended
  <2>2. CASE Goto(r, "commit") /\ UNCHANGED own
    <3>1. CASE r # q
      BY <1>6, <1>t, <2>2, <3>1, SessionUntouched DEF Insert, TypeOK, Commit
    <3>2. CASE r = q
      BY <1>6, <1>t, <1>k, <2>2, <3>2
         DEF Insert, TypeOK, Session, Before, After, db, Enrolled
    <3> QED
      BY <3>1, <3>2
  <2> QED
    BY <1>6, <2>1, <2>2 DEF Insert
<1>7. ASSUME NEW r \in Reqs, Update(r)
      PROVE  Session(q)'
  <2>1. CASE Drop({r}, "clash")
    BY <2>1, DropSession DEF Ended
  <2>2. CASE /\ Goto(r, "tokens")
             /\ draft' = [draft EXCEPT ![r] = Changed(r)]
             /\ UNCHANGED <<loaded, seen, image>>
    <3>1. CASE r # q
      BY <1>7, <1>t, <2>2, <3>1, SessionUntouched DEF Update, TypeOK, Commit
    <3>2. CASE r = q
      BY <1>7, <1>t, <1>k, <2>2, <3>2
         DEF Update, TypeOK, Session, Before, After, db, Enrolled
    <3> QED
      BY <3>1, <3>2
  <2> QED
    BY <1>7, <2>1, <2>2 DEF Update
<1>8. ASSUME NEW r \in Reqs, FindTokens(r)
      PROVE  Session(q)'
  <2>1. CASE r # q
    BY <1>8, <1>t, <2>1, SessionUntouched DEF FindTokens, TypeOK, Commit
  <2>2. CASE r = q
    BY <1>8, <1>t, <1>k, <2>2
       DEF FindTokens, TypeOK, Session, Before, After, db, Enrolled
  <2> QED
    BY <2>1, <2>2
<1>9. ASSUME NEW r \in Reqs, Commit(r)
      PROVE  Session(q)'
  <2>1. CASE r # q
    <3>1. ~Commit(q)
      BY <1>9, <1>t, <2>1 DEF Commit, TypeOK
    <3> QED
      BY <1>9, <1>t, <2>1, <3>1, SessionUntouched DEF Commit, TypeOK
  <2>2. CASE r = q
    <3>1. routers'[Serial(q)] = draft[q] /\ draft[q] \in Row
      BY <1>9, <2>2, CommitKnows DEF IInv, TypeOK
    <3>2. token'[q] = "active" /\ pc'[q] = "fetch" /\ draft'[q] = draft[q]
          /\ loaded'[q] = loaded[q] /\ seen'[q] = {}
      BY <1>9, <1>t, <2>2 DEF Commit, TypeOK
    <3>3. loaded[q] # NoRow => draft[q].ip = loaded[q].ip
      BY <1>9, <1>t, <2>2, CommitKnows DEF Held, Session
    <3> QED
      BY <1>k, <3>1, <3>2, <3>3
         DEF Session, Before, After, Enrolled, AnsweredIP
  <2> QED
    BY <2>1, <2>2
<1>10. ASSUME NEW r \in Reqs, Answer(r)
       PROVE  Session(q)'
  <2>1. CASE r # q
    BY <1>10, <1>t, <2>1, SessionUntouched DEF Answer, TypeOK, Commit
  <2>2. CASE r = q
    BY <1>10, <1>t, <1>k, <2>2
       DEF Answer, TypeOK, Session, Before, After, Enrolled, AnsweredIP
  <2> QED
    BY <2>1, <2>2
<1>11. ASSUME NEW p \in Procs,
              FetchPeers(p) \/ WriteConf(p) \/ HelperRead(p) \/ HelperApply(p)
              \/ Hang(p)
       PROVE  Session(q)'
  <2>1. /\ UNCHANGED <<routers, token, payload, loaded, draft, seen>>
        /\ pc[p] \in {"fetch", "write", "load", "apply"}
        /\ \E label \in {"write", "load", "apply", "hung", "audit", "ok"} :
              /\ label = "ok" => p \notin Reqs
              /\ Goto(p, label)
    BY <1>11 DEF FetchPeers, WriteConf, HelperRead, HelperApply, Hang, own, db
  <2>2. CASE p # q
    BY <1>t, <2>1, <2>2, SessionUntouched DEF TypeOK, Commit
  <2>3. CASE p = q
    BY <1>t, <1>k, <2>1, <2>3
       DEF TypeOK, Session, Before, After, Enrolled, AnsweredIP
  <2> QED
    BY <2>2, <2>3
<1>13. ASSUME NEW p \in Procs, SyncFails(p) \/ Fail(p)
       PROVE  Session(q)'
  BY <1>13, DropSession DEF SyncFails, Fail, Ended
<1>15. ASSUME NEW c \in Syncs, StartSync(c)
       PROVE  Session(q)'
  BY <1>15, <1>t, SessionUntouched DEF StartSync, TypeOK, Commit
<1>16. CASE Crash \/ Reboot
  BY <1>16, DropSession DEF Crash, Reboot, Ended
<1>18. ASSUME NEW s \in Serials, NEW status \in AdminStatuses, SetStatus(s, status)
       PROVE  Session(q)'
  BY <1>18, <1>t, SessionUntouched DEF SetStatus, TypeOK, Commit
<1> QED
  BY <1>1, <1>2, <1>3, <1>4, <1>5, <1>6, <1>7, <1>8, <1>9, <1>10, <1>11,
     <1>13, <1>15, <1>16, <1>18
     DEF Next, Handle, Sync, Operate, Finished
-----------------------------------------------------------------------------
(* The transactions that have written.                                     *)

\* A commit makes its token the only valid one of its router.
LEMMA CommitTokens ==
    ASSUME IInv, [Next]_vars, NEW r \in Reqs, Commit(r), NEW s \in Serials
    PROVE  ActiveTokens(s)' = IF s = Serial(r) THEN {r} ELSE ActiveTokens(s)
<1>1. seen[r] = ActiveTokens(Serial(r)) /\ payload' = payload
  BY CommitKnows, PayloadFixed
<1>2. \A q \in Reqs : token'[q] = IF q = r THEN "active"
                                  ELSE IF q \in seen[r] THEN "revoked"
                                  ELSE token[q]
  BY DEF Commit
<1> QED
  BY <1>1, <1>2 DEF ActiveTokens, Serial

\* The transaction that holds h's locks, if it has any left, acts for itself.
LEMMA HolderCases ==
    ASSUME IInv, [Next]_vars, NEW h \in Holding'
    PROVE  \/ /\ h \in Holding /\ pc'[h] = pc[h] /\ loaded'[h] = loaded[h]
              /\ draft'[h] = draft[h] /\ seen'[h] = seen[h]
           \/ Insert(h) /\ Goto(h, "commit") /\ UNCHANGED own
           \/ Update(h) /\ Goto(h, "tokens") /\ UNCHANGED <<loaded, seen>>
              /\ draft' = [draft EXCEPT ![h] = Changed(h)]
           \/ FindTokens(h)
<1> DEFINE Goal ==
           \/ /\ h \in Holding /\ pc'[h] = pc[h] /\ loaded'[h] = loaded[h]
              /\ draft'[h] = draft[h] /\ seen'[h] = seen[h]
           \/ Insert(h) /\ Goto(h, "commit") /\ UNCHANGED own
           \/ Update(h) /\ Goto(h, "tokens") /\ UNCHANGED <<loaded, seen>>
              /\ draft' = [draft EXCEPT ![h] = Changed(h)]
           \/ FindTokens(h)
<1>t. TypeOK /\ h \in Reqs /\ h \in Procs /\ pc'[h] \in {"tokens", "commit"}
  BY DEF IInv, Holding, Procs
<1>d. ASSUME NEW P, NEW label \in Ended, Drop(P, label)
      PROVE  Goal
  <2>1. h \notin P
    BY <1>d, <1>t DEF Drop, Ended
  <2> QED
    BY <1>d, <1>t, <2>1, DropOthers DEF Drop, Holding
<1>1. CASE UNCHANGED vars
  BY <1>1, <1>t DEF vars, Holding
<1>2. ASSUME NEW r \in Reqs,
             RateLimited(r) \/ Reject(r) \/ Admit(r) \/ Find(r) \/ Allocate(r)
             \/ Commit(r) \/ Answer(r)
      PROVE  Goal
  <2>1. \E label \in Labels \ {"tokens", "commit"} : Goto(r, label)
    BY <1>2 DEF RateLimited, Reject, Admit, Find, Allocate, Commit, Answer, Labels
  <2>2. h # r
    BY <1>t, <2>1 DEF Goto, TypeOK
  <2>3. pc'[h] = pc[h]
    BY <1>t, <2>1, <2>2 DEF Goto, TypeOK
  <2> QED
    BY <1>2, <1>t, <2>2, <2>3
       DEF RateLimited, Reject, Admit, Find, Allocate, Commit, Answer, own,
           Holding, TypeOK
<1>5. ASSUME NEW r \in Reqs, Exhaust(r) \/ PoolTimeout(r)
      PROVE  Goal
  BY <1>5, <1>d DEF Exhaust, PoolTimeout, Ended
<1>6. ASSUME NEW r \in Reqs, Insert(r)
      PROVE  Goal
  <2>1. CASE Drop({r}, "clash")
    BY <2>1, <1>d DEF Ended
  <2>2. CASE Goto(r, "commit") /\ UNCHANGED own
    BY <1>6, <1>t, <2>2 DEF Goto, own, TypeOK, Holding
  <2> QED
    BY <1>6, <2>1, <2>2 DEF Insert
<1>7. ASSUME NEW r \in Reqs, Update(r)
      PROVE  Goal
  <2>1. CASE Drop({r}, "clash")
    BY <2>1, <1>d DEF Ended
  <2>2. CASE /\ Goto(r, "tokens")
             /\ draft' = [draft EXCEPT ![r] = Changed(r)]
             /\ UNCHANGED <<loaded, seen, image>>
    BY <1>7, <1>t, <2>2 DEF Goto, TypeOK, Holding
  <2> QED
    BY <1>7, <2>1, <2>2 DEF Update
<1>8. ASSUME NEW r \in Reqs, FindTokens(r)
      PROVE  Goal
  BY <1>8, <1>t DEF FindTokens, Goto, TypeOK, Holding
<1>11. ASSUME NEW p \in Procs,
              FetchPeers(p) \/ WriteConf(p) \/ HelperRead(p) \/ HelperApply(p)
              \/ Hang(p)
       PROVE  Goal
  <2>1. /\ UNCHANGED <<loaded, draft, seen>>
        /\ \E label \in {"write", "load", "apply", "hung", "audit", "ok"} :
              Goto(p, label)
    BY <1>11 DEF FetchPeers, WriteConf, HelperRead, HelperApply, Hang, own
  <2>2. h # p
    BY <1>t, <2>1 DEF Goto, TypeOK
  <2> QED
    BY <1>t, <2>1, <2>2 DEF Goto, TypeOK, Holding
<1>13. ASSUME NEW p \in Procs, SyncFails(p) \/ Fail(p)
       PROVE  Goal
  BY <1>13, <1>d DEF SyncFails, Fail, Ended
<1>15. ASSUME NEW c \in Syncs, StartSync(c)
       PROVE  Goal
  BY <1>15, <1>t DEF StartSync, Goto, own, TypeOK, Holding
<1>16. CASE Crash \/ Reboot
  BY <1>16, <1>d DEF Crash, Reboot, Ended
<1>18. ASSUME NEW s \in Serials, NEW status \in AdminStatuses, SetStatus(s, status)
       PROVE  Goal
  BY <1>18, <1>t DEF SetStatus, own, Holding
<1> QED
  BY <1>1, <1>2, <1>5, <1>6, <1>7, <1>8, <1>11, <1>13, <1>15, <1>16, <1>18
     DEF Next, Handle, Sync, Operate, Finished
\* While a transaction holds its locks, the others leave what it knows true.
LEMMA HeldUntouched ==
    ASSUME IInv, [Next]_vars, NEW h \in Holding, pc'[h] = pc[h],
           loaded'[h] = loaded[h], draft'[h] = draft[h], seen'[h] = seen[h]
    PROVE  Held(h)'
<1> DEFINE s == Serial(h)
<1>1. /\ TypeOK /\ h \in Reqs /\ h \in Procs /\ Held(h)
      /\ s \in Serials /\ s' = s /\ pc[h] \in {"tokens", "commit"}
  BY PayloadFields, PayloadFixed DEF IInv, Locks, Holding, Procs, Serial
<1>2. ASSUME routers'[s] = routers[s] \/ (routers' = routers /\ token' = token),
             ~Duplicate(s, draft[h])', ActiveTokens(s)' = ActiveTokens(s)
      PROVE  Held(h)'
  BY <1>1, <1>2 DEF Held, Enrolled
<1>3. CASE UNCHANGED <<routers, token>>
  <2>1. ActiveTokens(s)' = ActiveTokens(s)
    BY <1>1, <1>3, PayloadFixed DEF ActiveTokens, Serial
  <2>2. ~Duplicate(s, draft[h])'
    BY <1>1, <1>3 DEF Held, Duplicate, Enrolled
  <2> QED
    BY <1>2, <1>3, <2>1, <2>2
<1>4. ASSUME NEW r \in Reqs, Commit(r)
      PROVE  Held(h)'
  <2>1. r # h /\ r \in Holding /\ Serial(r) # s /\ ~Overlap(draft[h], draft[r])
    BY <1>1, <1>4, CommitKnows DEF IInv, Locks, Apart, Commit, Goto, TypeOK
  <2>2. \A t \in Serials : routers'[t] = IF t = Serial(r) THEN draft[r] ELSE routers[t]
    BY <1>1, <1>4, CommitKnows DEF TypeOK
  <2>3. ~Duplicate(s, draft[h])'
    BY <1>1, <2>1, <2>2 DEF Held, Duplicate, Enrolled
  <2>4. ActiveTokens(s)' = ActiveTokens(s)
    BY <1>1, <1>4, <2>1, CommitTokens
  <2> QED
    BY <1>1, <1>2, <2>1, <2>2, <2>3, <2>4
<1>5. ASSUME NEW t \in Serials, NEW status \in AdminStatuses, SetStatus(t, status)
      PROVE  Held(h)'
  <2>1. s # t
    BY <1>5, <1>1, SetStatusKeeps
  <2>2. routers'[s] = routers[s]
    BY <1>5, <1>1, <2>1, SetStatusKeeps
  <2>3. \A u \in Serials : /\ Enrolled(u)' <=> Enrolled(u)
                           /\ Enrolled(u) => /\ routers'[u].ip = routers[u].ip
                                             /\ routers'[u].key = routers[u].key
                                             /\ routers'[u].ident = routers[u].ident
    BY <1>5, SetStatusKeeps
  <2>4. ~Duplicate(s, draft[h])'
    BY <1>1, <2>3 DEF Held, Duplicate, Overlap
  <2>5. ActiveTokens(s)' = ActiveTokens(s)
    BY <1>1, <1>5, PayloadFixed DEF ActiveTokens, Serial, SetStatus
  <2> QED
    BY <1>2, <2>2, <2>4, <2>5
<1> QED
  BY <1>3, <1>4, <1>5, Writers

\* A row that is written by INSERT waits for no one and duplicates nothing.
LEMMA InsertHolds ==
    ASSUME IInv, [Next]_vars, NEW r \in Reqs, Insert(r), Goto(r, "commit"),
           UNCHANGED own
    PROVE  Held(r)' /\ r \notin Holding /\ Unblocked(Serial(r), draft[r])
<1>1. TypeOK /\ Session(r) /\ pc[r] = "insert" /\ pc'[r] = "commit"
      /\ UNCHANGED <<routers, token, payload, loaded, draft, seen>>
  BY DEF IInv, Insert, Goto, own, db, TypeOK, Procs
<1>2. ~Enrolled(Serial(r)) /\ ~Duplicate(Serial(r), draft[r])
  <2>1. ~Drop({r}, "clash")
    BY <1>1 DEF Drop, Procs
  <2> QED
    BY <2>1 DEF Insert
<1>3. ActiveTokens(Serial(r)) = {}
  BY <1>1, <1>2, PayloadFields DEF IInv, OneActiveToken
<1>4. Held(r)'
  BY <1>1, <1>2, <1>3
     DEF Held, Session, Before, Duplicate, Enrolled, Overlap, ActiveTokens, Serial
<1> QED
  BY <1>1, <1>4 DEF Holding, Insert

\* Nor does one that is written by UPDATE.
LEMMA UpdateHolds ==
    ASSUME IInv, [Next]_vars, NEW r \in Reqs, Update(r), Goto(r, "tokens"),
           UNCHANGED <<loaded, seen>>, draft' = [draft EXCEPT ![r] = Changed(r)]
    PROVE  Held(r)' /\ r \notin Holding /\ Unblocked(Serial(r), draft'[r])
<1>1. TypeOK /\ Session(r) /\ pc[r] = "update" /\ pc'[r] = "tokens"
      /\ UNCHANGED <<routers, token, payload, loaded, seen>>
      /\ draft'[r] = Changed(r) /\ Unblocked(Serial(r), Changed(r))
  BY DEF IInv, Update, Goto, db, TypeOK, Procs
<1>2. ~Duplicate(Serial(r), Changed(r))
  <2>1. ~Drop({r}, "clash")
    BY <1>1 DEF Drop, Procs
  <2> QED
    BY <2>1 DEF Update
<1>3. loaded[r] # NoRow /\ Enrolled(Serial(r))
  BY <1>1 DEF Session
<1>4. Changed(r) \in Row /\ Changed(r).ip = routers[Serial(r)].ip
      /\ Changed(r).status = routers[Serial(r)].status
  BY <1>1, <1>3, ChangedType
<1>5. ~Duplicate(Serial(r), draft[r])'
  BY <1>1, <1>2 DEF Duplicate, Enrolled, Serial
<1>6. Held(r)'
  BY <1>1, <1>3, <1>4, <1>5 DEF Held, Serial
<1> QED
  BY <1>1, <1>6 DEF Holding

\* The tokens found under the row lock are the valid ones.
LEMMA FindTokensHolds ==
    ASSUME IInv, [Next]_vars, NEW r \in Reqs, FindTokens(r)
    PROVE  Held(r)' /\ r \in Holding /\ draft'[r] = draft[r]
<1>1. TypeOK /\ Session(r) /\ pc[r] = "tokens" /\ pc'[r] = "commit"
      /\ UNCHANGED <<routers, token, payload, loaded, draft>>
      /\ seen'[r] = ActiveTokens(Serial(r)) /\ r \in Holding /\ Held(r)
  BY DEF IInv, FindTokens, Goto, db, TypeOK, Procs, Holding, Locks
<1>2. ActiveTokens(Serial(r))' = ActiveTokens(Serial(r)) /\ Serial(r)' = Serial(r)
  BY <1>1 DEF ActiveTokens, Serial
<1>3. ~Duplicate(Serial(r), draft[r])'
  BY <1>1 DEF Held, Duplicate, Enrolled, Serial
<1>4. Held(r)'
  BY <1>1, <1>2, <1>3 DEF Held, Enrolled
<1> QED
  BY <1>1, <1>4

\* What a transaction does to its own locks, or that it does nothing.
Took(r) == r \notin Holding /\ Unblocked(Serial(r), draft'[r])
Keeps(r) == r \in Holding /\ draft'[r] = draft[r]

LEMMA LocksStep ==
    ASSUME IInv, [Next]_vars
    PROVE  Locks'
<1>1. ASSUME NEW h \in Holding'
      PROVE  /\ h \in Reqs /\ Serial(h)' = Serial(h)
             /\ Held(h)' /\ (Took(h) \/ Keeps(h))
             /\ Took(h) => pc' = [pc EXCEPT ![h] = "commit"]
                           \/ pc' = [pc EXCEPT ![h] = "tokens"]
  <2>1. h \in Reqs /\ Serial(h)' = Serial(h)
    BY PayloadFixed DEF Holding, Serial
  <2>2. CASE /\ h \in Holding /\ pc'[h] = pc[h] /\ loaded'[h] = loaded[h]
             /\ draft'[h] = draft[h] /\ seen'[h] = seen[h]
    BY <2>1, <2>2, HeldUntouched DEF Keeps, Took
  <2>3. CASE Insert(h) /\ Goto(h, "commit") /\ UNCHANGED own
    BY <2>1, <2>3, InsertHolds DEF Keeps, Took, own, Goto
  <2>4. CASE Update(h) /\ Goto(h, "tokens") /\ UNCHANGED <<loaded, seen>>
             /\ draft' = [draft EXCEPT ![h] = Changed(h)]
    BY <2>1, <2>4, UpdateHolds DEF Keeps, Took, Goto
  <2>5. CASE FindTokens(h)
    BY <2>1, <2>5, FindTokensHolds DEF Keeps, Took
  <2> QED
    BY <2>2, <2>3, <2>4, <2>5, HolderCases
<1>2. ASSUME NEW g \in Holding', NEW h \in Holding', g # h
      PROVE  (Serial(g) # Serial(h) /\ ~Overlap(draft[g], draft[h]))'
  <2>1. CASE Keeps(g) /\ Keeps(h)
    BY <1>1, <1>2, <2>1 DEF IInv, Locks, Apart, Keeps, Overlap
  <2>2. CASE Took(g) /\ Keeps(h)
    BY <1>1, <1>2, <2>2 DEF Took, Keeps, Unblocked, Overlap
  <2>3. CASE Keeps(g) /\ Took(h)
    BY <1>1, <1>2, <2>3 DEF Took, Keeps, Unblocked, Overlap
  <2>4. CASE Took(g) /\ Took(h)
    BY <1>1, <1>2, <2>4 DEF Took, Holding, IInv, TypeOK, Procs
  <2> QED
    BY <1>1, <2>1, <2>2, <2>3, <2>4
<1> QED
  BY <1>1, <1>2 DEF Locks, Apart
-----------------------------------------------------------------------------
(* The committed tables.                                                   *)

LEMMA AddressesStep ==
    ASSUME IInv, [Next]_vars
    PROVE  AddressesDistinct'
<1>1. CASE UNCHANGED <<routers, token>>
  BY <1>1 DEF IInv, AddressesDistinct, Enrolled
<1>2. ASSUME NEW r \in Reqs, Commit(r)
      PROVE  AddressesDistinct'
  <2>1. \A t \in Serials : routers'[t] = IF t = Serial(r) THEN draft[r] ELSE routers[t]
    BY <1>2, CommitKnows DEF IInv, TypeOK
  <2>2. draft[r].ip # ServerIP
    BY <1>2, CommitKnows DEF Held, IInv, Session, AddressesDistinct
  <2> QED
    BY <1>2, <2>1, <2>2, CommitKnows
       DEF IInv, AddressesDistinct, Enrolled, Held, Duplicate, Overlap
<1>3. ASSUME NEW t \in Serials, NEW status \in AdminStatuses, SetStatus(t, status)
      PROVE  AddressesDistinct'
  BY <1>3, SetStatusKeeps DEF IInv, AddressesDistinct, Overlap
<1> QED
  BY <1>1, <1>2, <1>3, Writers

LEMMA OneActiveTokenStep ==
    ASSUME IInv, [Next]_vars
    PROVE  OneActiveToken'
<1> SUFFICES ASSUME NEW s \in Serials
             PROVE  (IF Enrolled(s)
                     THEN \E r \in Reqs : ActiveTokens(s) = {r}
                     ELSE ActiveTokens(s) = {})'
  BY DEF OneActiveToken
<1>o. IF Enrolled(s) THEN \E r \in Reqs : ActiveTokens(s) = {r}
                     ELSE ActiveTokens(s) = {}
  BY DEF IInv, OneActiveToken
<1>1. CASE UNCHANGED <<routers, token>>
  <2>1. ActiveTokens(s)' = ActiveTokens(s)
    BY <1>1, PayloadFixed DEF ActiveTokens, Serial
  <2> QED
    BY <1>1, <1>o, <2>1 DEF Enrolled
<1>2. ASSUME NEW r \in Reqs, Commit(r)
      PROVE  (IF Enrolled(s) THEN \E q \in Reqs : ActiveTokens(s) = {q}
                             ELSE ActiveTokens(s) = {})'
  <2>1. ActiveTokens(s)' = IF s = Serial(r) THEN {r} ELSE ActiveTokens(s)
    BY <1>2, CommitTokens
  <2>2. routers'[s] = IF s = Serial(r) THEN draft[r] ELSE routers[s]
    BY <1>2, CommitKnows DEF IInv, TypeOK
  <2>3. draft[r] # NoRow
    BY <1>2, CommitKnows
  <2> QED
    BY <1>o, <2>1, <2>2, <2>3 DEF Enrolled
<1>3. ASSUME NEW t \in Serials, NEW status \in AdminStatuses, SetStatus(t, status)
      PROVE  (IF Enrolled(s) THEN \E q \in Reqs : ActiveTokens(s) = {q}
                             ELSE ActiveTokens(s) = {})'
  <2>1. ActiveTokens(s)' = ActiveTokens(s)
    BY <1>3, PayloadFixed DEF ActiveTokens, Serial, SetStatus
  <2>2. Enrolled(s)' <=> Enrolled(s)
    BY <1>3, SetStatusKeeps
  <2> QED
    BY <1>o, <2>1, <2>2
<1> QED
  BY <1>1, <1>2, <1>3, Writers

LEMMA InitIInv ==
    ASSUME Init
    PROVE  IInv
<1>1. TypeOK
  BY DEF Init, TypeOK, Labels
<1>2. ASSUME NEW r \in Reqs
      PROVE  Session(r) /\ r \notin Holding
  BY <1>2 DEF Init, Session, Before, After, Holding, Procs
<1>3. Locks
  BY <1>2 DEF Locks, Apart, Holding
<1>4. AddressesDistinct
  BY DEF Init, AddressesDistinct, Enrolled
<1>5. OneActiveToken
  BY DEF Init, OneActiveToken, Enrolled, ActiveTokens
<1> QED
  BY <1>1, <1>2, <1>3, <1>4, <1>5 DEF IInv

LEMMA StepIInv ==
    ASSUME IInv, [Next]_vars
    PROVE  IInv'
<1>1. TypeOK'
  BY TypeStep
<1>2. Locks' /\ AddressesDistinct' /\ OneActiveToken'
  BY LocksStep, AddressesStep, OneActiveTokenStep
<1>3. \A r \in Reqs : Session(r)'
  BY SessionStep
<1> QED
  BY <1>1, <1>2, <1>3 DEF IInv

\* The inductive invariant of the enrollment transactions.
THEOREM Inductive == Spec => []IInv
<1>1. Init => IInv
  BY InitIInv
<1>2. IInv /\ [Next]_vars => IInv'
  BY StepIInv
<1> QED
  BY <1>1, <1>2, PTL DEF Spec

-----------------------------------------------------------------------------
(* The properties.                                                         *)

\* Every variable has its type, for every choice of the constants.
THEOREM TypeCorrect == Spec => []TypeOK
<1>1. IInv => TypeOK
  BY DEF IInv
<1> QED
  BY <1>1, Inductive, PTL

\* auto_enroll.py:340-362: an enrolled router has one valid telemetry token.
THEOREM TokenUnique == Spec => []OneActiveToken
<1>1. IInv => OneActiveToken
  BY DEF IInv
<1> QED
  BY <1>1, Inductive, PTL

\* wireguard.py:167-197: routers never share an address, or have the server's.
THEOREM AddressesAreDistinct == Spec => []AddressesDistinct
<1>1. IInv => AddressesDistinct
  BY DEF IInv
<1> QED
  BY <1>1, Inductive, PTL

\* auto_enroll.py:411-424: an answered script names the router's address.
THEOREM AnswersStand == Spec => []AnswerStands
<1>1. IInv => AnswerStands
  BY DEF IInv, AnswerStands, Session, After
<1> QED
  BY <1>1, Inductive, PTL

\* auto_enroll.py:328-330: a re-enrolled router keeps its overlay address.
THEOREM AddressIsKept == Spec => AddressKept
<1>1. ASSUME IInv, [Next]_vars, NEW s \in Serials
      PROVE  Enrolled(s) => routers'[s] # NoRow /\ routers'[s].ip = routers[s].ip
  BY <1>1, RowsKept DEF Kept
<1>2. IInv /\ [Next]_vars =>
        [\A s \in Serials :
           Enrolled(s) => /\ routers'[s] # NoRow
                          /\ routers'[s].ip = routers[s].ip]_vars
  BY <1>1
<1> QED
  BY <1>2, Inductive, PTL DEF AddressKept, Spec

\* auto_enroll.py:331-338: no handler changes the status of a router.
THEOREM StatusIsKept == Spec => StatusKept
<1>1. ASSUME IInv, [Next]_vars, NEW s \in Serials, Enrolled(s),
             routers'[s].status # routers[s].status
      PROVE  UNCHANGED <<pc, token>>
  <2>1. ASSUME NEW r \in Reqs, Commit(r)
        PROVE  FALSE
    <3>1. routers'[s] = IF s = Serial(r) THEN draft[r] ELSE routers[s]
      BY <1>1, <2>1, CommitKnows DEF IInv, TypeOK
    <3>2. s = Serial(r) /\ draft[r].status # routers[s].status
      BY <1>1, <3>1
    <3> QED
      BY <1>1, <2>1, <3>2, CommitKnows DEF Held
  <2>2. ~UNCHANGED <<routers, token>>
    BY <1>1
  <2> QED
    BY <1>1, <2>1, <2>2, Writers, SetStatusKeeps
<1>2. IInv /\ [Next]_vars =>
        [\A s \in Serials :
           Enrolled(s) /\ routers'[s].status # routers[s].status
              => UNCHANGED <<pc, token>>]_vars
  BY <1>1
<1> QED
  BY <1>2, Inductive, PTL DEF StatusKept, Spec

\* auto_enroll.py:340-366: a token is revoked only by its successor's commit.
THEOREM TokensAreHandedOver == Spec => TokenHandover
<1>1. ASSUME IInv, [Next]_vars, NEW q \in Reqs
      PROVE  /\ token[q] = "revoked" => token'[q] = "revoked"
             /\ token[q] = "active" /\ token'[q] # "active" =>
                  \E r \in Reqs \ {q} :
                    /\ Serial(r) = Serial(q)
                    /\ token[r] = "none"
                    /\ token'[r] = "active"
  <2>1. ASSUME NEW r \in Reqs, Commit(r)
        PROVE  /\ token[r] = "none" /\ token'[r] = "active"
               /\ q \in ActiveTokens(Serial(r)) => Serial(r) = Serial(q)
               /\ token'[q] = IF q = r THEN "active"
                              ELSE IF q \in ActiveTokens(Serial(r)) THEN "revoked"
                              ELSE token[q]
    BY <1>1, <2>1, CommitKnows DEF Commit, ActiveTokens
  <2> QED
    BY <1>1, <2>1, Writers, SetStatusKeeps
<1>2. IInv /\ [Next]_vars =>
        [\A q \in Reqs :
          /\ token[q] = "revoked" => token'[q] = "revoked"
          /\ token[q] = "active" /\ token'[q] # "active" =>
                \E r \in Reqs \ {q} :
                    /\ Serial(r) = Serial(q)
                    /\ token[r] = "none"
                    /\ token'[r] = "active"]_vars
  BY <1>1
<1> QED
  BY <1>2, Inductive, PTL DEF TokenHandover, Spec

-----------------------------------------------------------------------------
(* The promise of module Inventory.                                        *)

Records == [s \in {t \in Serials : Enrolled(t)} |-> RecordOf(routers[s])]
Valid   == [s \in Serials |-> ActiveTokens(s)]
Spent   == {q \in Reqs : token[q] # "none"}

\* A commit is an enrollment of the inventory.
LEMMA CommitEnrolls ==
    ASSUME IInv, [Next]_vars, NEW r \in Reqs, Commit(r)
    PROVE  Promised!Next
<1> DEFINE s   == Serial(r)
           new == RecordOf(draft[r])
<1>1. /\ TypeOK /\ s \in Serials /\ draft[r] \in Row /\ Held(r) /\ token[r] = "none"
      /\ \A t \in Serials : routers'[t] = IF t = s THEN draft[r] ELSE routers[t]
  BY CommitKnows DEF IInv, TypeOK
<1>2. new \in Promised!Record
  BY <1>1 DEF RecordOf, Row, Promised!Record
<1>3. r \notin Spent /\ Spent' = Spent \cup {r}
  <2>1. \A q \in Reqs : token'[q] # "none" <=> q = r \/ token[q] # "none"
    BY CommitKnows DEF Commit, ActiveTokens
  <2> QED
    BY <1>1, <2>1 DEF Spent
<1>4. Valid' = [Valid EXCEPT ![s] = {r}]
  <2>1. \A t \in Serials : ActiveTokens(t)' = IF t = s THEN {r} ELSE ActiveTokens(t)
    BY CommitTokens
  <2> QED
    BY <2>1 DEF Valid
<1>5. {t \in Serials : Enrolled(t)}' = {t \in Serials : Enrolled(t)} \cup {s}
  BY <1>1, NoRowAssumption DEF Enrolled
<1>6. Records' = [e \in DOMAIN Records \cup {s} |-> IF e = s THEN new ELSE Records[e]]
  BY <1>1, <1>5 DEF Records
<1>7. IF s \in DOMAIN Records
      THEN new = Records[s]
      ELSE /\ new.address \notin {Records[d].address : d \in DOMAIN Records} \cup {ServerIP}
           /\ new.status \in {"active", "pending"}
  <2>1. CASE Enrolled(s)
    BY <1>1, <2>1 DEF Held, RecordOf, Records
  <2>2. CASE ~Enrolled(s)
    <3>1. loaded[r] = NoRow
      BY <2>2 DEF IInv, Session
    <3>2. \A t \in DOMAIN Records : Records[t].address # draft[r].ip
      BY <1>1, <2>2 DEF Held, Duplicate, Overlap, Records, RecordOf
    <3> QED
      BY <1>1, <2>2, <3>1, <3>2 DEF Held, RecordOf, Records
  <2> QED
    BY <2>1, <2>2
<1>8. PICK d \in Serials, rec \in Promised!Record : d = s /\ rec = new
  BY <1>1, <1>2
<1>9. Promised!Enroll(d, r, rec)
  BY <1>3, <1>4, <1>6, <1>7, <1>8
     DEF Promised!Enroll, Promised!Taken, Records, Valid, Spent
<1> QED
  BY <1>9 DEF Promised!Next

\* So is an operator's step one of the inventory.
LEMMA SetStatusSets ==
    ASSUME IInv, [Next]_vars, NEW s \in Serials, NEW status \in AdminStatuses,
           SetStatus(s, status)
    PROVE  Promised!Next
<1>1. TypeOK /\ Enrolled(s) /\ routers[s] \in Row
  BY DEF IInv, TypeOK, SetStatus, Enrolled
<1>2. /\ \A t \in Serials : Enrolled(t)' <=> Enrolled(t)
      /\ \A t \in Serials \ {s} : routers'[t] = routers[t]
      /\ UNCHANGED token /\ payload' = payload
  BY SetStatusKeeps, PayloadFixed
<1>3. RecordOf(routers'[s]) = [RecordOf(routers[s]) EXCEPT !.status = status]
  <2>1. routers'[s] = [routers[s] EXCEPT !.status = status]
    BY <1>1 DEF SetStatus, TypeOK
  <2> QED
    BY <1>1, <2>1 DEF RecordOf, Row
<1>4. Records' = [Records EXCEPT ![s].status = status]
  BY <1>1, <1>2, <1>3 DEF Records, RecordOf
<1>5. UNCHANGED <<Valid, Spent>>
  BY <1>2 DEF Valid, Spent, ActiveTokens, Serial
<1>6. Promised!SetStatus(s, status)
  BY <1>1, <1>4, <1>5 DEF Promised!SetStatus, Records, Valid, Spent
<1> QED
  BY <1>6 DEF Promised!Next

\* auto_enroll.py:287-366: what all handlers, syncs, failures and crashes do to
\* the database is what the inventory of module Inventory allows.
THEOREM PromiseIsKept == Spec => KeepsPromise
<1>1. Init => Promised!Init
  <2>1. ASSUME Init
        PROVE  /\ {t \in Serials : Enrolled(t)} = {}
               /\ Valid = [s \in Serials |-> {}]
               /\ Spent = {}
    BY <2>1 DEF Init, Enrolled, Valid, ActiveTokens, Spent
  <2> QED
    BY <2>1 DEF Promised!Init, Valid, Spent
<1>2. IInv /\ [Next]_vars => [Promised!Next]_(Promised!vars)
  <2> SUFFICES ASSUME IInv, [Next]_vars
               PROVE  Promised!Next \/ UNCHANGED Promised!vars
    OBVIOUS
  <2>1. CASE UNCHANGED <<routers, token>>
    BY <2>1, PayloadFixed DEF Promised!vars, Enrolled, ActiveTokens, Serial
  <2> QED
    BY <2>1, Writers, CommitEnrolls, SetStatusSets
<1> QED
  BY <1>1, <1>2, Inductive, PTL DEF Spec, KeepsPromise, Promised!Spec
===============================================================================
