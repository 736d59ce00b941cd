------------------------- MODULE AutoEnrollPeerProofs -------------------------
(* Proofs about the peers that AutoEnroll renders, writes and loads, on top *)
(* of the inductive invariant IInv of its transactions.                     *)
EXTENDS AutoEnrollProofs

\* A key that a committed request of the same router brought.
Brought(s, key) ==
    \E r \in Reqs : token[r] # "none" /\ Serial(r) = s /\ payload[r].key = key

RowsGenuine == \A s \in Serials : Enrolled(s) => Brought(s, routers[s].key)

\* The key of a row that is written, but not committed yet.
DraftKey(r) ==
    /\ pc[r] = "insert" => draft[r].key = payload[r].key
    /\ r \in Holding =>
          \/ draft[r].key = payload[r].key
          \/ Enrolled(Serial(r)) /\ draft[r].key = routers[Serial(r)].key

\* All that is rendered, in a file, a process or the kernel.
Rendered == {conf, kernel} \cup {image[p] : p \in Procs}

WithoutPending(peers) ==
    \A s \in Serials :
        Enrolled(s) /\ routers[s].status = "pending" =>
            \A peer \in peers : peer.ip # routers[s].ip

AllGenuine(peers) == \A peer \in peers : Genuine(peer)

PInv ==
    /\ IInv
    /\ RowsGenuine
    /\ \A r \in Reqs : DraftKey(r)
    /\ \A peers \in Rendered : AllGenuine(peers) /\ Unambiguous(peers)

-----------------------------------------------------------------------------
\* The keys that committed requests have brought stay brought.
LEMMA BroughtStays ==
    ASSUME IInv, [Next]_vars, NEW s \in Serials, NEW key, Brought(s, key)
    PROVE  Brought(s, key)'
<1>1. PICK r \in Reqs : token[r] # "none" /\ Serial(r) = s /\ payload[r].key = key
  BY DEF Brought
<1>2. token'[r] # "none"
  <2>1. CASE Commit(r)
    BY <2>1, CommitKnows DEF IInv, TypeOK, Commit
  <2> QED
    BY <1>1, <2>1, TokensKept
<1> QED
  BY <1>1, <1>2, PayloadFixed DEF Brought, Serial

LEMMA GenuineStays ==
    ASSUME IInv, [Next]_vars, NEW peer, Genuine(peer)
    PROVE  Genuine(peer)'
<1>1. PICK r \in Reqs : /\ token[r] # "none" /\ payload[r].key = peer.key
                        /\ Enrolled(Serial(r)) /\ routers[Serial(r)].ip = peer.ip
  BY DEF Genuine
<1>2. Serial(r) \in Serials /\ payload' = payload /\ Kept(Serial(r))
  BY PayloadFields, PayloadFixed, RowsKept DEF IInv
<1>3. token'[r] # "none"
  <2>1. CASE Commit(r)
    BY <2>1, CommitKnows DEF IInv, TypeOK, Commit
  <2> QED
    BY <1>1, <2>1, TokensKept
<1> QED
  BY <1>1, <1>2, <1>3 DEF Genuine, Serial, Kept, Enrolled

\* The peers of the table are genuine, and as distinct as its rows.
LEMMA ActivePeersGenuine ==
    ASSUME IInv, RowsGenuine
    PROVE  AllGenuine(ActivePeers) /\ Unambiguous(ActivePeers)
<1>1. ASSUME NEW peer \in ActivePeers
      PROVE  Genuine(peer)
  <2>1. PICK s \in Serials : Enrolled(s) /\ peer = PeerOf(routers[s])
    BY DEF ActivePeers
  <2>2. PICK r \in Reqs : token[r] # "none" /\ Serial(r) = s /\ payload[r].key = routers[s].key
    BY <2>1 DEF RowsGenuine, Brought
  <2> QED
    BY <2>1, <2>2 DEF Genuine, PeerOf
<1>2. ASSUME NEW x \in ActivePeers, NEW y \in ActivePeers, x.key = y.key \/ x.ip = y.ip
      PROVE  x = y
  <2>1. PICK s \in Serials : Enrolled(s) /\ x = PeerOf(routers[s])
    BY DEF ActivePeers
  <2>2. PICK t \in Serials : Enrolled(t) /\ y = PeerOf(routers[t])
    BY DEF ActivePeers
  <2>3. s = t
    BY <1>2, <2>1, <2>2 DEF IInv, AddressesDistinct, PeerOf
  <2> QED
    BY <2>1, <2>2, <2>3
<1> QED
  BY <1>1, <1>2 DEF AllGenuine, Unambiguous

\* What a step renders it has from the table or from what was rendered.
LEMMA RenderedStep ==
    ASSUME TypeOK, [Next]_vars
    PROVE  Rendered' \subseteq Rendered \cup {ActivePeers, {}}
<1> USE DEF Goto, own, wg, db, Rendered
<1> DEFINE Goal == /\ conf' \in Rendered /\ kernel' \in Rendered
                   /\ \A q \in Procs : image'[q] \in Rendered \cup {ActivePeers, {}}
<1>0. SUFFICES Goal
  OBVIOUS
<1>d. ASSUME NEW P, NEW label, Drop(P, label)
      PROVE  \A q \in Procs : image'[q] \in {image[q], {}}
  BY <1>d DEF Drop
<1>1. CASE UNCHANGED <<wg, image>>
  BY <1>1
<1>2. ASSUME NEW r \in Reqs, Exhaust(r) \/ PoolTimeout(r)
      PROVE  Goal
  BY <1>2, <1>d DEF Exhaust, PoolTimeout
<1>3. ASSUME NEW r \in Reqs, Insert(r)
      PROVE  Goal
  BY <1>3, <1>d DEF Insert
<1>4. ASSUME NEW r \in Reqs, Update(r)
      PROVE  Goal
  BY <1>4, <1>d DEF Update
<1>5. ASSUME NEW p \in Procs, FetchPeers(p)
      PROVE  Goal
  BY <1>5 DEF FetchPeers, TypeOK
<1>6. ASSUME NEW p \in Procs, WriteConf(p)
      PROVE  Goal
  BY <1>6 DEF WriteConf
<1>7. ASSUME NEW p \in Procs, HelperRead(p)
      PROVE  Goal
  BY <1>7 DEF HelperRead, TypeOK
<1>8. ASSUME NEW p \in Procs, HelperApply(p)
      PROVE  Goal
  BY <1>8 DEF HelperApply, TypeOK
<1>9. ASSUME NEW p \in Procs, SyncFails(p) \/ Fail(p)
      PROVE  Goal
  BY <1>9, <1>d DEF SyncFails, Fail
<1>10. CASE Crash \/ Reboot
  BY <1>10, <1>d DEF Crash, Reboot
<1>11. \/ UNCHANGED <<wg, image>> \/ Crash \/ Reboot
       \/ \E r \in Reqs : Exhaust(r) \/ PoolTimeout(r) \/ Insert(r) \/ Update(r)
       \/ \E p \in Procs : FetchPeers(p) \/ WriteConf(p) \/ HelperRead(p)
                           \/ HelperApply(p) \/ SyncFails(p) \/ Fail(p)
  BY DEF Next, Handle, Sync, Operate, Finished, vars, RateLimited, Reject, Admit,
         Find, Allocate, FindTokens, Commit, Answer, StartSync, Hang, SetStatus
<1> HIDE DEF Goal
<1> QED
  BY <1>1, <1>2, <1>3, <1>4, <1>5, <1>6, <1>7, <1>8, <1>9, <1>10, <1>11

\* A request is about to insert because it has just been given an address.
LEMMA InsertCases ==
    ASSUME IInv, [Next]_vars, NEW r \in Reqs, pc'[r] = "insert"
    PROVE  Allocate(r) \/ (pc[r] = "insert" /\ draft'[r] = draft[r])
<1> DEFINE Goal == Allocate(r) \/ (pc[r] = "insert" /\ draft'[r] = draft[r])
<1>t. TypeOK /\ r \in Procs
  BY DEF IInv, Procs
<1>d. ASSUME NEW P, NEW label \in Ended, Drop(P, label)
      PROVE  Goal
  BY <1>d, <1>t, DropOthers DEF Drop, Ended
<1>1. ASSUME UNCHANGED <<pc, draft>>
      PROVE  Goal
  BY <1>1
<1>2. ASSUME NEW q \in Procs, NEW label \in Labels \ {"insert"}, Goto(q, label),
             UNCHANGED draft
      PROVE  Goal
  BY <1>2, <1>t DEF Goto, TypeOK
<1>3. ASSUME NEW q \in Reqs, Allocate(q)
      PROVE  Goal
  BY <1>3, <1>t DEF Allocate, Goto, TypeOK, Procs
<1>4. ASSUME NEW q \in Reqs, Insert(q)
      PROVE  Goal
  BY <1>4, <1>d, <1>2 DEF Insert, Ended, Labels, own, Procs
<1>5. ASSUME NEW q \in Reqs, Update(q)
      PROVE  Goal
  <2>1. CASE Goto(q, "tokens") /\ draft' = [draft EXCEPT ![q] = Changed(q)]
    BY <1>t, <2>1 DEF Goto, TypeOK, Procs
  <2> QED
    BY <1>5, <1>d, <2>1 DEF Update, Ended
<1>6. ASSUME NEW q \in Reqs, Exhaust(q) \/ PoolTimeout(q)
      PROVE  Goal
  BY <1>6, <1>d DEF Exhaust, PoolTimeout, Ended
<1>7. ASSUME NEW p \in Procs, SyncFails(p) \/ Fail(p)
      PROVE  Goal
  BY <1>7, <1>d DEF SyncFails, Fail, Ended
<1>8. CASE Crash \/ Reboot
  BY <1>8, <1>d DEF Crash, Reboot, Ended
<1>9. ASSUME NEW q \in Reqs,
             RateLimited(q) \/ Reject(q) \/ Admit(q) \/ Find(q) \/ FindTokens(q)
             \/ Commit(q) \/ Answer(q)
      PROVE  Goal
  BY <1>9, <1>2 DEF RateLimited, Reject, Admit, Find, FindTokens, Commit, Answer,
                    Labels, own, Procs
<1>10. ASSUME NEW p \in Procs,
              FetchPeers(p) \/ WriteConf(p) \/ HelperRead(p) \/ HelperApply(p)
              \/ Hang(p)
       PROVE  Goal
  BY <1>10, <1>2 DEF FetchPeers, WriteConf, HelperRead, HelperApply, Hang, Labels, own
<1>11. ASSUME NEW c \in Syncs, StartSync(c)
       PROVE  Goal
  BY <1>11, <1>2 DEF StartSync, Labels, own, Procs
<1>12. ASSUME NEW s \in Serials, NEW status \in AdminStatuses, SetStatus(s, status)
       PROVE  Goal
  BY <1>12, <1>1 DEF SetStatus, own
<1> QED
  BY <1>1, <1>3, <1>4, <1>5, <1>6, <1>7, <1>8, <1>9, <1>10, <1>11, <1>12
     DEF Next, Handle, Sync, Operate, Finished, vars

LEMMA DraftKeyStep ==
    ASSUME IInv, [Next]_vars, NEW r \in Reqs, DraftKey(r)
    PROVE  DraftKey(r)'
<1>1. /\ TypeOK /\ r \in Procs /\ payload' = payload /\ Serial(r) \in Serials
      /\ Serial(r)' = Serial(r)
  BY PayloadFields, PayloadFixed DEF IInv, Serial
<1>2. ASSUME r \in Holding
      PROVE  /\ Enrolled(Serial(r)) => routers'[Serial(r)].key = routers[Serial(r)].key
                                       \/ Commit(r)
             /\ Enrolled(Serial(r)) => Enrolled(Serial(r))' 
  <2>1. ASSUME NEW q \in Reqs, Commit(q), q # r
        PROVE  routers'[Serial(r)] = routers[Serial(r)]
    <3>1. Serial(q) # Serial(r) /\ routers' = [routers EXCEPT ![Serial(q)] = draft[q]]
      BY <1>2, <2>1, CommitKnows DEF IInv, Locks, Apart
    <3> QED
      BY <1>1, <3>1 DEF TypeOK
  <2> QED
    BY <1>1, <1>2, <2>1, Writers, SetStatusKeeps, RowsKept, PayloadFixed
       DEF Enrolled, Kept, Serial
<1>3. ASSUME r \in Holding'
      PROVE  \/ draft'[r].key = payload[r].key
             \/ Enrolled(Serial(r))' /\ draft'[r].key = routers'[Serial(r)].key
  <2>1. CASE r \in Holding /\ draft'[r] = draft[r] /\ pc'[r] = pc[r]
    <3>1. ~Commit(r)
      BY <1>1, <2>1 DEF Commit, Goto, TypeOK, Holding
    <3> QED
      BY <1>2, <2>1, <3>1 DEF DraftKey
  <2>2. CASE Insert(r) /\ Goto(r, "commit") /\ UNCHANGED own
    BY <1>1, <2>2 DEF Insert, own, DraftKey
  <2>3. CASE Update(r) /\ Goto(r, "tokens") /\ UNCHANGED <<loaded, seen>>
             /\ draft' = [draft EXCEPT ![r] = Changed(r)]
    <3>1. draft'[r] = Changed(r) /\ UNCHANGED routers /\ pc[r] = "update"
      BY <1>1, <2>3 DEF Update, db, TypeOK
    <3>2. Enrolled(Serial(r))
      BY <3>1 DEF IInv, Session
    <3> QED
      BY <1>1, <3>1, <3>2 DEF Changed, Enrolled
  <2>4. CASE FindTokens(r)
    BY <1>1, <2>4 DEF FindTokens, db, DraftKey, Holding, Enrolled
  <2> QED
    BY <1>1, <1>3, <2>1, <2>2, <2>3, <2>4, HolderCases
<1>4. ASSUME pc'[r] = "insert"
      PROVE  draft'[r].key = payload[r].key
  <2>1. CASE Allocate(r)
    BY <1>1, <2>1 DEF Allocate, TypeOK
  <2>2. CASE pc[r] = "insert" /\ draft'[r] = draft[r]
    BY <2>2 DEF DraftKey
  <2> QED
    BY <1>4, <2>1, <2>2, InsertCases
<1> QED
  BY <1>1, <1>3, <1>4 DEF DraftKey, Serial

LEMMA RowsGenuineStep ==
    ASSUME IInv, RowsGenuine, \A r \in Reqs : DraftKey(r), [Next]_vars
    PROVE  RowsGenuine'
<1> SUFFICES ASSUME NEW s \in Serials, Enrolled(s)'
             PROVE  Brought(s, routers[s].key)'
  BY DEF RowsGenuine
<1>1. ASSUME Enrolled(s), routers'[s].key = routers[s].key
      PROVE  Brought(s, routers[s].key)'
  BY <1>1, BroughtStays DEF RowsGenuine
<1>2. CASE UNCHANGED <<routers, token>>
  BY <1>1, <1>2 DEF Enrolled
<1>3. ASSUME NEW r \in Reqs, Commit(r)
      PROVE  Brought(s, routers[s].key)'
  <2>1. routers'[s] = IF s = Serial(r) THEN draft[r] ELSE routers[s]
    BY <1>3, CommitKnows DEF IInv, TypeOK
  <2>2. CASE s = Serial(r) /\ draft[r].key = payload[r].key
    <3>1. token'[r] # "none" /\ payload' = payload
      BY <1>3, PayloadFixed DEF IInv, TypeOK, Commit
    <3> QED
      BY <2>1, <2>2, <3>1 DEF Brought, Serial
  <2>3. CASE s = Serial(r) /\ draft[r].key # payload[r].key
    <3>1. Enrolled(s) /\ draft[r].key = routers[s].key
      BY <1>3, <2>3, CommitKnows DEF DraftKey
    <3> QED
      BY <1>1, <2>1, <2>3, <3>1
  <2>4. CASE s # Serial(r)
    BY <1>1, <2>1, <2>4 DEF Enrolled
  <2> QED
    BY <2>2, <2>3, <2>4
<1>4. ASSUME NEW t \in Serials, NEW status \in AdminStatuses, SetStatus(t, status)
      PROVE  Brought(s, routers[s].key)'
  BY <1>1, <1>4, SetStatusKeeps
<1> QED
  BY <1>2, <1>3, <1>4, Writers

LEMMA StepPInv ==
    ASSUME PInv, [Next]_vars
    PROVE  PInv'
<1>1. IInv' /\ RowsGenuine' /\ \A r \in Reqs : DraftKey(r)'
  BY StepIInv, RowsGenuineStep, DraftKeyStep DEF PInv
<1>2. ASSUME NEW peers \in Rendered'
      PROVE  AllGenuine(peers) /\ Unambiguous(peers)
  <2>1. peers \in Rendered \cup {ActivePeers, {}}
    BY RenderedStep DEF PInv, IInv
  <2> QED
    BY <2>1, ActivePeersGenuine DEF PInv, AllGenuine, Unambiguous
<1>3. ASSUME NEW peers \in Rendered', NEW peer \in peers
      PROVE  Genuine(peer)'
  BY <1>2, <1>3, GenuineStays DEF AllGenuine, PInv
<1> QED
  BY <1>1, <1>2, <1>3 DEF PInv, AllGenuine, Unambiguous

LEMMA InitPInv ==
    ASSUME Init
    PROVE  PInv
<1>1. \A peers \in Rendered : peers = {}
  BY DEF Init, Rendered
<1> QED
  BY <1>1, InitIInv
     DEF PInv, RowsGenuine, DraftKey, Init, Enrolled, Holding, Procs, AllGenuine,
         Unambiguous

\* The inductive invariant of all that is rendered from the table.
THEOREM PeersInductive == Spec => []PInv
<1>1. Init => PInv
  BY InitPInv
<1>2. PInv /\ [Next]_vars => PInv'
  BY StepPInv
<1> QED
  BY <1>1, <1>2, PTL DEF Spec

-----------------------------------------------------------------------------
\* wireguard.py:249-270: file, kernel and syncs have committed routers' peers only.
THEOREM PeersAreGenuine == Spec => []PeersGenuine
<1>1. PInv => PeersGenuine
  BY DEF PInv, PeersGenuine, Rendered, AllGenuine
<1> QED
  BY <1>1, PeersInductive, PTL

\* wireguard.py:146-164: the kernel has one key for an address, one address for a key.
THEOREM KernelIsUnambiguous == Spec => []KernelUnambiguous
<1>1. PInv => KernelUnambiguous
  BY DEF PInv, KernelUnambiguous, Rendered, Unambiguous
<1> QED
  BY <1>1, PeersInductive, PTL

LEMMA StepPending ==
    ASSUME "pending" \notin AdminStatuses, PInv, [Next]_vars,
           \A peers \in Rendered : WithoutPending(peers)
    PROVE  (\A peers \in Rendered : WithoutPending(peers))'
<1> SUFFICES ASSUME NEW peers \in Rendered', NEW s \in Serials, Enrolled(s)',
                    routers'[s].status = "pending", NEW peer \in peers
             PROVE  peer.ip # routers'[s].ip
  BY DEF WithoutPending
<1>1. peers \in Rendered \cup {ActivePeers, {}}
  BY RenderedStep DEF PInv, IInv
<1>2. PICK t \in Serials : Enrolled(t) /\ routers[t].ip = peer.ip
  BY <1>1, ActivePeersGenuine, PayloadFields DEF PInv, IInv, AllGenuine, Genuine
<1>3. ASSUME Enrolled(s), routers[s].status = "pending"
      PROVE  peer.ip # routers[s].ip
  <2>1. CASE peers = ActivePeers
    BY <1>3, <2>1 DEF ActivePeers, PeerOf, PInv, IInv, AddressesDistinct
  <2> QED
    BY <1>1, <1>3, <2>1 DEF WithoutPending
<1>4. CASE UNCHANGED <<routers, token>>
  BY <1>3, <1>4 DEF Enrolled
<1>5. ASSUME NEW r \in Reqs, Commit(r)
      PROVE  peer.ip # routers'[s].ip
  <2>1. /\ routers'[s] = IF s = Serial(r) THEN draft[r] ELSE routers[s]
        /\ Held(r)
    BY <1>5, CommitKnows DEF PInv, IInv, TypeOK
  <2>2. CASE s = Serial(r) /\ ~Enrolled(s)
    BY <1>2, <2>1, <2>2 DEF Held, Duplicate, Overlap
  <2>3. CASE s = Serial(r) /\ Enrolled(s)
    BY <1>3, <2>1, <2>3 DEF Held
  <2>4. CASE s # Serial(r)
    BY <1>3, <2>1, <2>4 DEF Enrolled
  <2> QED
    BY <2>2, <2>3, <2>4
<1>6. ASSUME NEW u \in Serials, NEW status \in AdminStatuses, SetStatus(u, status)
      PROVE  peer.ip # routers'[s].ip
  <2>1. CASE u = s
    <3>1. routers[s] \in Row
      BY <1>6, <2>1 DEF PInv, IInv, TypeOK, SetStatus, Enrolled
    <3>2. routers'[s] = [routers[s] EXCEPT !.status = status]
      BY <1>6, <2>1 DEF PInv, IInv, TypeOK, SetStatus
    <3>3. routers'[s].status = status
      BY <3>1, <3>2 DEF Row
    <3> QED
      BY <3>3
  <2>2. CASE u # s
    BY <1>3, <1>6, <2>2, SetStatusKeeps DEF PInv, Enrolled
  <2> QED
    BY <2>1, <2>2
<1> QED
  BY <1>4, <1>5, <1>6, Writers

\* auto_enroll.py:69-71: a router that waits for its approval is no peer, when
\* operators never put a router back to waiting.
THEOREM PendingAreNoPeers ==
    ASSUME "pending" \notin AdminStatuses
    PROVE  Spec => []PendingIsNoPeer
<1> DEFINE NonePending == \A peers \in Rendered : WithoutPending(peers)
<1>1. Init => NonePending
  BY DEF Init, WithoutPending, Enrolled
<1>2. PInv /\ NonePending /\ [Next]_vars => NonePending'
  BY StepPending
<1>3. NonePending => PendingIsNoPeer
  BY DEF PendingIsNoPeer, Rendered, WithoutPending
<1> QED
  BY <1>1, <1>2, <1>3, PeersInductive, PTL DEF Spec

-----------------------------------------------------------------------------
(* The promise of module Mirror.                                           *)

ActiveIsTable == ActivePeers \in {peers \in SUBSET Peer : Unambiguous(peers)}

LEMMA ActivePeersAreTable ==
    ASSUME PInv
    PROVE  ActiveIsTable
<1>1. ActivePeers \subseteq Peer
  BY DEF PInv, IInv, TypeOK, ActivePeers, Enrolled, PeerOf, Peer, Row
<1> QED
  BY <1>1, ActivePeersGenuine DEF PInv, ActiveIsTable

\* What a request does to the table, it does outside of its sync.
LEMMA OutsideStep ==
    ASSUME ActiveIsTable', UNCHANGED wg, TypeOK,
           \A q \in Procs : At(q)' = At(q) /\ Image(q)' = Image(q)
    PROVE  Mirrored!Next
<1>1. Mirrored!Change
  BY DEF Mirrored!Change, ActiveIsTable, wg
<1> QED
  BY <1>1 DEF Mirrored!Next

LEMMA GotoOutside ==
    ASSUME ActiveIsTable', UNCHANGED <<wg, image>>, TypeOK, NEW p \in Procs,
           NEW label \in Labels \ {"write", "load", "apply"}, Goto(p, label),
           pc[p] \notin {"write", "load", "apply"}
    PROVE  Mirrored!Next
<1>1. \A q \in Procs : At(q)' = At(q) /\ Image(q)' = Image(q)
  BY DEF Goto, TypeOK, At, Image
<1> QED
  BY <1>1, OutsideStep DEF wg

LEMMA DropLeaves ==
    ASSUME TypeOK, NEW P, NEW label \in Ended, Drop(P, label)
    PROVE  Mirrored!Leave(P)
<1>1. \A q \in Procs : /\ At(q)' = IF q \in P THEN "out" ELSE At(q)
                      /\ Image(q)' = IF q \in P THEN NoRow ELSE Image(q)
  BY DEF Drop, TypeOK, At, Image, Ended
<1> QED
  BY <1>1 DEF Mirrored!Leave

LEMMA DropStops ==
    ASSUME TypeOK, UNCHANGED <<routers, conf, kernel>>, NEW P \in SUBSET Procs,
           NEW label \in Ended, Drop(P, label)
    PROVE  Mirrored!Next
<1>1. Mirrored!Stop(P)
  BY DropLeaves DEF Mirrored!Stop, ActivePeers, Enrolled
<1> QED
  BY <1>1 DEF Mirrored!Next

LEMMA MirrorStep ==
    ASSUME PInv, ActiveIsTable', [Next]_vars
    PROVE  [Mirrored!Next]_(Mirrored!vars)
<1> DEFINE Goal == Mirrored!Next
<1>0. SUFFICES Goal
  OBVIOUS
<1>t. TypeOK
  BY DEF PInv, IInv
<1>d. ASSUME UNCHANGED <<routers, conf, kernel>>, NEW p \in Procs, NEW label \in Ended,
             Drop({p}, label)
      PROVE  Goal
  BY <1>t, <1>d, DropStops
<1>g. ASSUME UNCHANGED <<wg, image>>, NEW p \in Procs,
             NEW label \in Labels \ {"write", "load", "apply"}, Goto(p, label),
             pc[p] \notin {"write", "load", "apply"}
      PROVE  Goal
  BY <1>t, <1>g, GotoOutside
<1>1. ASSUME NEW r \in Reqs,
             RateLimited(r) \/ Reject(r) \/ Admit(r) \/ Find(r) \/ Allocate(r)
             \/ FindTokens(r) \/ Commit(r) \/ Answer(r)
      PROVE  Goal
  BY <1>1, <1>g DEF RateLimited, Reject, Admit, Find, Allocate, FindTokens, Commit,
                    Answer, own, Labels, Procs
<1>2. ASSUME NEW c \in Syncs, StartSync(c)
      PROVE  Goal
  BY <1>2, <1>g DEF StartSync, own, Labels, Procs
<1>3. ASSUME NEW r \in Reqs, Exhaust(r) \/ PoolTimeout(r)
      PROVE  Goal
  BY <1>3, <1>d DEF Exhaust, PoolTimeout, db, wg, Ended, Procs
<1>4. ASSUME NEW r \in Reqs, Insert(r)
      PROVE  Goal
  BY <1>4, <1>d, <1>g DEF Insert, db, wg, own, Ended, Labels, Procs
<1>5. ASSUME NEW r \in Reqs, Update(r)
      PROVE  Goal
  BY <1>5, <1>d, <1>g DEF Update, db, wg, Ended, Labels, Procs
<1>6. ASSUME NEW p \in Procs, SyncFails(p) \/ Fail(p)
      PROVE  Goal
  BY <1>6, <1>d DEF SyncFails, Fail, db, wg, Ended
<1>7. CASE Crash
  BY <1>7, <1>t, DropStops DEF Crash, InFlight, db, wg, Ended
<1>8. CASE Reboot
  <2>1. Drop(InFlight, "gone") /\ kernel' = conf /\ UNCHANGED <<routers, conf>>
    BY <1>8 DEF Reboot, db
  <2>2. \A q \in Procs : At(q)' = "out" /\ Image(q)' = NoRow
    BY <2>1, <1>t DEF Drop, InFlight, TypeOK, At, Image, Ended
  <2>3. Mirrored!Leave(Procs)
    BY <2>2 DEF Mirrored!Leave
  <2>4. Mirrored!Restart
    BY <2>1, <2>3 DEF Mirrored!Restart, ActivePeers, Enrolled
  <2> QED
    BY <2>4 DEF Mirrored!Next
<1>9. ASSUME NEW s \in Serials, NEW status \in AdminStatuses, SetStatus(s, status)
      PROVE  Goal
  <2>1. UNCHANGED <<wg, pc, image>>
    BY <1>9 DEF SetStatus, own
  <2> QED
    BY <2>1, <1>t, OutsideStep DEF At, Image
<1>10. CASE UNCHANGED vars
  BY <1>10, <1>t, OutsideStep DEF vars, wg, At, Image
<1>11. ASSUME NEW p \in Procs, Hang(p)
       PROVE  Goal
  <2>1. \A q \in Procs : /\ At(q)' = IF q \in {p} THEN "out" ELSE At(q)
                         /\ Image(q)' = IF q \in {p} THEN NoRow ELSE Image(q)
    BY <1>11, <1>t DEF Hang, Goto, own, TypeOK, At, Image
  <2>2. Mirrored!Stop({p})
    BY <1>11, <2>1 DEF Mirrored!Stop, Mirrored!Leave, Hang, db, wg, ActivePeers, Enrolled
  <2> QED
    BY <2>2 DEF Mirrored!Next
<1>12. ASSUME NEW p \in Procs, FetchPeers(p)
       PROVE  Goal
  <2>1. /\ UNCHANGED <<ActivePeers, conf, kernel>>
        /\ At(p) = "out" /\ At(p)' = "write" /\ Image(p)' = ActivePeers
        /\ \A q \in Procs \ {p} : At(q)' = At(q) /\ Image(q)' = Image(q)
    BY <1>12, <1>t DEF FetchPeers, Goto, TypeOK, At, Image, db, wg, ActivePeers, Enrolled
  <2>2. Mirrored!Move(p, "out", "write", ActivePeers)
    BY <2>1 DEF Mirrored!Move
  <2>3. Mirrored!Fetch(p)
    BY <2>1, <2>2 DEF Mirrored!Fetch
  <2> QED
    BY <2>3 DEF Mirrored!Next
<1>13. ASSUME NEW p \in Procs, WriteConf(p)
       PROVE  Goal
  <2>1. /\ UNCHANGED <<ActivePeers, kernel>> /\ conf' = Image(p)
        /\ At(p) = "write" /\ At(p)' = "load" /\ Image(p)' = NoRow
        /\ \A q \in Procs \ {p} : At(q)' = At(q) /\ Image(q)' = Image(q)
    BY <1>13, <1>t DEF WriteConf, Goto, TypeOK, At, Image, db, own, ActivePeers, Enrolled
  <2>2. Mirrored!Move(p, "write", "load", NoRow)
    BY <2>1 DEF Mirrored!Move
  <2>3. Mirrored!Write(p)
    BY <2>1, <2>2 DEF Mirrored!Write
  <2> QED
    BY <2>3 DEF Mirrored!Next
<1>14. ASSUME NEW p \in Procs, HelperRead(p)
       PROVE  Goal
  <2>1. /\ UNCHANGED <<ActivePeers, conf, kernel>>
        /\ At(p) = "load" /\ At(p)' = "apply" /\ Image(p)' = conf
        /\ \A q \in Procs \ {p} : At(q)' = At(q) /\ Image(q)' = Image(q)
    BY <1>14, <1>t DEF HelperRead, Goto, TypeOK, At, Image, db, wg, ActivePeers, Enrolled
  <2>2. Mirrored!Move(p, "load", "apply", conf)
    BY <2>1 DEF Mirrored!Move
  <2>3. Mirrored!Read(p)
    BY <2>1, <2>2 DEF Mirrored!Read
  <2> QED
    BY <2>3 DEF Mirrored!Next
<1>15. ASSUME NEW p \in Procs, HelperApply(p)
       PROVE  Goal
  <2>1. /\ UNCHANGED <<ActivePeers, conf>> /\ kernel' = Image(p)
        /\ At(p) = "apply" /\ At(p)' = "out" /\ Image(p)' = NoRow
        /\ \A q \in Procs \ {p} : At(q)' = At(q) /\ Image(q)' = Image(q)
    BY <1>15, <1>t DEF HelperApply, Goto, TypeOK, At, Image, db, ActivePeers, Enrolled
  <2>2. Mirrored!Move(p, "apply", "out", NoRow)
    BY <2>1 DEF Mirrored!Move
  <2>3. Mirrored!Apply(p)
    BY <2>1, <2>2 DEF Mirrored!Apply
  <2> QED
    BY <2>3 DEF Mirrored!Next
<1> HIDE DEF Goal
<1> QED
  BY <1>1, <1>2, <1>3, <1>4, <1>5, <1>6, <1>7, <1>8, <1>9, <1>10, <1>11, <1>12, <1>13,
     <1>14, <1>15 DEF Next, Handle, Sync, Operate, Finished

\* wireguard.py:249-270, as requests, the command and restarts use it: what is
\* committed reaches file and kernel in whole tables, never a mixture of two.
THEOREM TableIsMirrored == Spec => MirrorsTable
<1>1. Init => Mirrored!Init
  <2> SUFFICES ASSUME Init
               PROVE  Mirrored!Init
    OBVIOUS
  <2>1. ActiveIsTable
    BY InitPInv, ActivePeersAreTable
  <2>2. ActivePeers = {}
    BY DEF Init, ActivePeers, Enrolled
  <2>3. \A p \in Procs : At(p) = "out" /\ Image(p) = NoRow
    BY DEF Init, At, Image
  <2> QED
    BY <2>1, <2>2, <2>3 DEF Mirrored!Init, ActiveIsTable, Init
<1>2. PInv => ActiveIsTable
  BY ActivePeersAreTable
<1>3. PInv /\ ActiveIsTable' /\ [Next]_vars => [Mirrored!Next]_(Mirrored!vars)
  BY MirrorStep
<1> QED
  BY <1>1, <1>2, <1>3, PeersInductive, PTL DEF Spec, MirrorsTable, Mirrored!Spec
===============================================================================
