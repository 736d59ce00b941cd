------------------------------ MODULE AutoEnroll ------------------------------
(***************************************************************************)
(* POST /auto-enroll (app/routers/auto_enroll.py) together with the        *)
(* WireGuard synchronisation it runs (app/services/wireguard.py), over the *)
(* shared Postgres tables, /etc/wireguard/wg0.conf and the kernel's wg0.   *)
(*                                                                         *)
(* A handler is one asyncio task.  Every await on the database, the thread *)
(* pool or the helper process lets other handlers run, so each stretch     *)
(* between two awaits is one action here.  Postgres runs READ COMMITTED: a *)
(* statement sees what is committed when it starts, and a statement that   *)
(* writes waits for any transaction that has written the same row or the   *)
(* same UNIQUE value.                                                      *)
(*                                                                         *)
(* Abstractions.  MAC address, model and RouterOS version travel with the  *)
(* serial number and are left out.  Overlay addresses are integers in the  *)
(* order of network.hosts().  A telemetry token is named by the request    *)
(* that minted it.  A secret is only whether it matches a configured slot. *)
(***************************************************************************)
EXTENDS Integers, FiniteSets

CONSTANTS
    Reqs,           \* requests: each is one run of the handler
    Syncs,          \* runs of the command `python -m app.cli wg sync'
    Serials,        \* serial numbers of routers
    Keys,           \* WireGuard public keys of routers
    Idents,         \* router identities
    Convention,     \* the identities that follow the naming convention
    Payloads,       \* the request bodies and headers considered
    Hosts,          \* host addresses of the overlay network
    ServerIP,       \* the overlay address of the server
    AdminStatuses,  \* the statuses an operator may give a router by hand
    PoolSize,       \* connections of the engine's pool
    NoRow           \* stands for "no such row"

Status == {"active", "pending", "decommissioned", "quarantined"}
Row    == [ident : Idents, key : Keys, ip : Hosts, status : Status]
Peer   == [key : Keys, ip : Hosts]
Procs  == Reqs \cup Syncs

ASSUME ProcsAssumption   == Reqs \cap Syncs = {}
ASSUME PayloadAssumption ==
    Payloads \subseteq
        [serial : Serials, key : Keys, ident : Idents, secret : BOOLEAN]
ASSUME HostsAssumption   == Hosts \subseteq Int
ASSUME StatusAssumption  == AdminStatuses \subseteq Status
ASSUME PoolAssumption    == PoolSize \in Nat \ {0}
ASSUME NoRowAssumption   == NoRow \notin Row

VARIABLES
    routers,    \* the committed rows of table routers, by serial number
    token,      \* the committed row of router_tokens that a request minted
    audit,      \* the committed audit_log entry of a request
    conf,       \* the peers in wg0.conf
    kernel,     \* the peers of the interface wg0
    pc,         \* where a handler or command is
    payload,    \* what a request carries
    loaded,     \* the Router object a request's session has loaded
    draft,      \* the row a request's open transaction has written
    seen,       \* the tokens a request's session has found unrevoked
    image       \* the peers a sync has fetched, or its helper has read

db   == <<routers, token, audit>>
wg   == <<conf, kernel>>
own  == <<loaded, draft, seen, image>>
vars == <<routers, token, audit, conf, kernel, pc, payload,
          loaded, draft, seen, image>>

Labels ==
    {"idle", "find", "allocate", "insert", "update", "tokens",
     "commit", "fetch", "write", "load", "apply", "audit",
     "hung", "ok", "limited", "denied", "clash", "exhausted", "syncfail",
     "error", "gone"}
Ended ==
    {"ok", "limited", "denied", "clash", "exhausted", "syncfail", "error",
     "gone"}

Serial(r) == payload[r].serial

Goto(p, label) == pc' = [pc EXCEPT ![p] = label]

\* Those in P end at once, and what their sessions held is dropped.
Drop(P, label) ==
    /\ pc'     = [p \in Procs |-> IF p \in P THEN label ELSE pc[p]]
    /\ loaded' = [r \in Reqs |-> IF r \in P THEN NoRow ELSE loaded[r]]
    /\ draft'  = [r \in Reqs |-> IF r \in P THEN NoRow ELSE draft[r]]
    /\ seen'   = [r \in Reqs |-> IF r \in P THEN {} ELSE seen[r]]
    /\ image'  = [p \in Procs |-> IF p \in P THEN {} ELSE image[p]]

-----------------------------------------------------------------------------
(* What Postgres does.                                                     *)

\* The transactions that have written, and so hold locks on, a routers row.
Holding == {r \in Reqs : pc[r] \in {"tokens", "commit"}}

Enrolled(s) == routers[s] # NoRow

\* Mutant: routers.wg_overlay_ip is not UNIQUE.
OverlapWithoutIP(x, y) == x.ident = y.ident \/ x.key = y.key

\* Two rows that the UNIQUE constraints of the table do not allow together.
Overlap(x, y) == x.ident = y.ident \/ x.key = y.key \/ x.ip = y.ip

\* No open transaction makes a statement wait that writes `row' for serial s:
\* none holds the row itself, nor a UNIQUE value of it, new or being replaced.
Unblocked(s, row) ==
    \A h \in Holding :
        /\ Serial(h) # s
        /\ ~Overlap(row, draft[h])
        /\ Enrolled(Serial(h)) => ~Overlap(row, routers[Serial(h)])

\* A committed row of another router has one of the UNIQUE values of `row'.
Duplicate(s, row) ==
    \E t \in Serials \ {s} : Enrolled(t) /\ Overlap(row, routers[t])

-----------------------------------------------------------------------------
(* The connection pool of the web process.                                 *)

\* A session has a connection from its first statement until it commits, and
\* again from the query of the sync until the closing audit entry commits.
Connected ==
    {r \in Reqs : pc[r] \in {"allocate", "insert", "update", "tokens", "commit",
                            "write", "load", "apply", "hung", "audit"}}

Room == Cardinality(Connected) < PoolSize

-----------------------------------------------------------------------------
Init ==
    /\ routers = [s \in Serials |-> NoRow]
    /\ token   = [r \in Reqs |-> "none"]
    /\ audit   = [r \in Reqs |-> "none"]
    /\ conf    = {}
    /\ kernel  = {}
    /\ pc      = [p \in Procs |-> "idle"]
    /\ payload \in [Reqs -> Payloads]
    /\ loaded  = [r \in Reqs |-> NoRow]
    /\ draft   = [r \in Reqs |-> NoRow]
    /\ seen    = [r \in Reqs |-> {}]
    /\ image   = [p \in Procs |-> {}]

-----------------------------------------------------------------------------
(* The gates before the database is touched.                               *)

\* A bucket is empty (module RateLimit says when): 429, nothing is recorded.
RateLimited(r) ==
    /\ pc[r] = "idle"
    /\ Goto(r, "limited")
    /\ UNCHANGED <<db, wg, payload, own>>

\* No secret, or one that matches neither slot: 401 after an audit entry.
Reject(r) ==
    /\ pc[r] = "idle"
    /\ ~payload[r].secret
    /\ Room
    /\ audit' = [audit EXCEPT ![r] = "rejected"]
    /\ Goto(r, "denied")
    /\ UNCHANGED <<routers, token, wg, payload, own>>

Admit(r) ==
    /\ pc[r] = "idle"
    /\ payload[r].secret
    /\ Goto(r, "find")
    /\ UNCHANGED <<db, wg, payload, own>>

-----------------------------------------------------------------------------
(* The transaction.                                                        *)

WaitsForRoom(r) ==
    /\ pc[r] \in {"idle", "find", "fetch"}
    /\ pc[r] = "idle" => ~payload[r].secret
    /\ ~Room

\* Mutant: the pool lets a handler wait for ever.
PoolNeverTimesOut(r) == WaitsForRoom(r) /\ FALSE

\* No connection comes free in 30 seconds.
PoolTimeout(r) ==
    /\ WaitsForRoom(r)
    /\ Drop({r}, "error")
    /\ UNCHANGED <<db, wg, payload>>

\* SELECT the router by serial number.
Find(r) ==
    /\ pc[r] = "find"
    /\ Room
    /\ loaded' = [loaded EXCEPT ![r] = routers[Serial(r)]]
    /\ Goto(r, IF Enrolled(Serial(r)) THEN "update" ELSE "allocate")
    /\ UNCHANGED <<db, wg, payload, draft, seen, image>>

Used == {routers[s].ip : s \in {t \in Serials : Enrolled(t)}}

FreeHosts == Hosts \ (Used \cup {ServerIP})

\* Mutant: a status the table does not know.
InitialStatusApproved(ident) == IF ident \in Convention THEN "approved" ELSE "pending"

InitialStatus(ident) == IF ident \in Convention THEN "active" ELSE "pending"

\* The lowest host address that no committed row uses, for a row still to be
\* inserted.  Nothing is reserved: another handler may be given the same one.
Allocate(r) ==
    /\ pc[r] = "allocate"
    /\ \E ip \in FreeHosts :
         /\ \A other \in FreeHosts : ip <= other
         /\ draft' = [draft EXCEPT ![r] =
                        [ident  |-> payload[r].ident,
                         key    |-> payload[r].key,
                         ip     |-> ip,
                         status |-> InitialStatus(payload[r].ident)]]
    /\ Goto(r, "insert")
    /\ UNCHANGED <<db, wg, payload, loaded, seen, image>>

Exhaust(r) ==
    /\ pc[r] = "allocate"
    /\ FreeHosts = {}
    /\ Drop({r}, "exhausted")
    /\ UNCHANGED <<db, wg, payload>>

\* Mutant: a row that exists already is overwritten.
InsertUpsert(r) ==
    /\ pc[r] = "insert"
    /\ Unblocked(Serial(r), draft[r])
    /\ IF Duplicate(Serial(r), draft[r])
       THEN Drop({r}, "clash")
       ELSE Goto(r, "commit") /\ UNCHANGED own
    /\ UNCHANGED <<db, wg, payload>>

\* session.flush() of the new row.  An IntegrityError is caught nowhere.
Insert(r) ==
    /\ pc[r] = "insert"
    /\ Unblocked(Serial(r), draft[r])
    /\ IF Enrolled(Serial(r)) \/ Duplicate(Serial(r), draft[r])
       THEN Drop({r}, "clash")
       ELSE Goto(r, "commit") /\ UNCHANGED own
    /\ UNCHANGED <<db, wg, payload>>

\* Mutant: every column is written back, the status as it was when loaded.
ChangedWholeRow(r) ==
    [ident |-> payload[r].ident, key |-> payload[r].key,
     ip |-> loaded[r].ip, status |-> loaded[r].status]

\* Mutant: a re-enrolled router gets another address while one is free.
ChangedAddress(r) ==
    [ident |-> payload[r].ident, key |-> payload[r].key,
     ip |-> IF FreeHosts = {} THEN routers[Serial(r)].ip
            ELSE CHOOSE ip \in FreeHosts : TRUE,
     status |-> routers[Serial(r)].status]

\* The UPDATE names the columns whose new value differs from the loaded one;
\* the others keep what the row has when the statement gets its lock.
Changed(r) ==
    LET now == routers[Serial(r)]
        new == payload[r]
    IN  [ident  |-> IF new.ident # loaded[r].ident THEN new.ident ELSE now.ident,
         key    |-> IF new.key # loaded[r].key THEN new.key ELSE now.key,
         ip     |-> now.ip,
         status |-> now.status]

\* Mutant: no flush, and so no row lock, before the SELECT of the old tokens.
UpdateUnflushed(r) ==
    /\ pc[r] = "update"
    /\ Goto(r, "tokens")
    /\ draft' = [draft EXCEPT ![r] = Changed(r)]
    /\ UNCHANGED <<db, wg, payload, loaded, seen, image>>

\* The flush of the changed row that precedes the SELECT of the old tokens.
Update(r) ==
    /\ pc[r] = "update"
    /\ Unblocked(Serial(r), Changed(r))
    /\ IF Duplicate(Serial(r), Changed(r))
       THEN Drop({r}, "clash")
       ELSE /\ Goto(r, "tokens")
            /\ draft' = [draft EXCEPT ![r] = Changed(r)]
            /\ UNCHANGED <<loaded, seen, image>>
    /\ UNCHANGED <<db, wg, payload>>

ActiveTokens(s) == {q \in Reqs : token[q] = "active" /\ Serial(q) = s}

\* Mutant: the revocations are committed ahead of the new token.
FindTokensEager(r) ==
    /\ pc[r] = "tokens"
    /\ token' = [q \in Reqs |-> IF q \in ActiveTokens(Serial(r)) THEN "revoked"
                                ELSE token[q]]
    /\ Goto(r, "commit")
    /\ UNCHANGED <<routers, audit, wg, payload, own>>

FindTokens(r) ==
    /\ pc[r] = "tokens"
    /\ seen' = [seen EXCEPT ![r] = ActiveTokens(Serial(r))]
    /\ Goto(r, "commit")
    /\ UNCHANGED <<db, wg, payload, loaded, draft, image>>

\* The row, the revocations and the new token become visible together.
Commit(r) ==
    /\ pc[r] = "commit"
    /\ routers' = [routers EXCEPT ![Serial(r)] = draft[r]]
    /\ token' = [q \in Reqs |-> IF q = r THEN "active"
                                ELSE IF q \in seen[r] THEN "revoked"
                                ELSE token[q]]
    /\ seen' = [seen EXCEPT ![r] = {}]
    /\ Goto(r, "fetch")
    /\ UNCHANGED <<audit, wg, payload, loaded, draft, image>>

-----------------------------------------------------------------------------
(* sync_from_db, for a handler and for the command.                        *)

StartSync(c) ==
    /\ pc[c] = "idle"
    /\ Goto(c, "fetch")
    /\ UNCHANGED <<db, wg, payload, own>>

PeerOf(row) == [key |-> row.key, ip |-> row.ip]

\* Mutant: uncommitted rows are rendered too.
ActivePeersDirty ==
    {PeerOf(routers[s]) :
        s \in {t \in Serials : Enrolled(t) /\ routers[t].status = "active"}}
    \cup {PeerOf(draft[h]) : h \in Holding}

\* Mutant: only routers an operator has put away are left out.
ActivePeersLax ==
    {PeerOf(routers[s]) :
        s \in {t \in Serials : Enrolled(t) /\ routers[t].status # "quarantined"}}

ActivePeers ==
    {PeerOf(routers[s]) :
        s \in {t \in Serials : Enrolled(t) /\ routers[t].status = "active"}}

FetchPeers(p) ==
    /\ pc[p] = "fetch"
    /\ p \in Reqs => Room
    /\ image' = [image EXCEPT ![p] = ActivePeers]
    /\ Goto(p, "write")
    /\ UNCHANGED <<db, wg, payload, loaded, draft, seen>>

WriteConf(p) ==
    /\ pc[p] = "write"
    /\ conf' = image[p]
    /\ Goto(p, "load")
    /\ UNCHANGED <<db, kernel, payload, own>>

\* The helper reads the file (wg-quick strip) and hands it to wg syncconf.
HelperRead(p) ==
    /\ pc[p] = "load"
    /\ image' = [image EXCEPT ![p] = conf]
    /\ Goto(p, "apply")
    /\ UNCHANGED <<db, wg, payload, loaded, draft, seen>>

\* Mutant: wg addconf, which adds peers and removes none.
HelperApplyAdd(p) ==
    /\ pc[p] = "apply"
    /\ kernel' = kernel \cup image[p]
    /\ image' = [image EXCEPT ![p] = {}]
    /\ Goto(p, IF p \in Reqs THEN "audit" ELSE "ok")
    /\ UNCHANGED <<db, conf, payload, loaded, draft, seen>>

HelperApply(p) ==
    /\ pc[p] = "apply"
    /\ kernel' = image[p]
    /\ image' = [image EXCEPT ![p] = {}]
    /\ Goto(p, IF p \in Reqs THEN "audit" ELSE "ok")
    /\ UNCHANGED <<db, conf, payload, loaded, draft, seen>>

\* The query, the file or the helper fails: a handler records it, answers 500.
SyncFails(p) ==
    /\ pc[p] \in {"fetch", "write", "load", "apply"}
    /\ p \in Reqs /\ pc[p] = "fetch" => Room
    /\ audit' = IF p \in Reqs THEN [audit EXCEPT ![p] = "sync_failed"]
                              ELSE audit
    /\ Drop({p}, "syncfail")
    /\ UNCHANGED <<routers, token, wg, payload>>

\* The helper does not end, and nothing makes the request stop waiting for it.
Hang(p) ==
    /\ pc[p] \in {"load", "apply"}
    /\ Goto(p, "hung")
    /\ UNCHANGED <<db, wg, payload, own>>

\* The closing audit entry, and the 200 with the rendered provision script.
Answer(r) ==
    /\ pc[r] = "audit"
    /\ audit' = [audit EXCEPT ![r] = "success"]
    /\ Goto(r, "ok")
    /\ UNCHANGED <<routers, token, wg, payload, own>>

\* The overlay address in the script: that of the object the session holds.
AnsweredIP(r) == IF loaded[r] = NoRow THEN draft[r].ip ELSE loaded[r].ip

-----------------------------------------------------------------------------
(* Failures and operators.                                                 *)

\* A database error, an unset server key, an interrupted command: get_session
\* rolls back what is uncommitted, and what is committed stays.
Fail(p) ==
    /\ pc[p] \notin Ended \cup {"idle", "hung"}
    /\ Drop({p}, "error")
    /\ UNCHANGED <<db, wg, payload>>

InFlight == {p \in Procs : pc[p] \notin Ended \cup {"idle"}}

\* The service dies: its handlers, and the helpers they started, are gone.
Crash ==
    /\ InFlight \cap Reqs # {}
    /\ Drop(InFlight \cap Reqs, "gone")
    /\ UNCHANGED <<db, wg, payload>>

\* The host restarts: wg-quick brings wg0 up from the file.
Reboot ==
    /\ kernel # conf \/ InFlight # {}
    /\ kernel' = conf
    /\ Drop(InFlight, "gone")
    /\ UNCHANGED <<db, conf, payload>>

\* The status of a row is changed only by an operator, in the database.
SetStatus(s, status) ==
    /\ Enrolled(s)
    /\ routers[s].status # status
    /\ \A h \in Holding : Serial(h) # s
    /\ routers' = [routers EXCEPT ![s].status = status]
    /\ UNCHANGED <<token, audit, wg, pc, payload, own>>

-----------------------------------------------------------------------------
Handle(r) ==
    \/ RateLimited(r) \/ Reject(r) \/ Admit(r)
    \/ PoolTimeout(r) \/ Find(r) \/ Allocate(r) \/ Exhaust(r) \/ Insert(r)
    \/ Update(r) \/ FindTokens(r) \/ Commit(r) \/ Answer(r)

Sync(p) ==
    \/ FetchPeers(p) \/ WriteConf(p) \/ HelperRead(p) \/ HelperApply(p)
    \/ SyncFails(p)

Operate ==
    \/ Crash
    \/ Reboot
    \/ \E s \in Serials, status \in AdminStatuses : SetStatus(s, status)

\* Every handler and command has ended, or waits for a helper that does not.
Finished == (\A p \in Procs : pc[p] \in Ended \cup {"hung"}) /\ UNCHANGED vars

Next ==
    \/ \E r \in Reqs : Handle(r)
    \/ \E c \in Syncs : StartSync(c)
    \/ \E p \in Procs : Sync(p) \/ Hang(p) \/ Fail(p)
    \/ Operate
    \/ Finished

Spec == Init /\ [][Next]_vars

\* The event loop and the operating system run whatever is ready to run.
\* Nothing is assumed of arrivals, failures or operators.
FairSpec ==
    /\ Spec
    /\ \A r \in Reqs : WF_vars(Handle(r))
    /\ \A p \in Procs : WF_vars(Sync(p))

-----------------------------------------------------------------------------
TypeOK ==
    /\ routers \in [Serials -> Row \cup {NoRow}]
    /\ token   \in [Reqs -> {"none", "active", "revoked"}]
    /\ audit   \in [Reqs -> {"none", "rejected", "sync_failed", "success"}]
    /\ conf    \in SUBSET Peer
    /\ kernel  \in SUBSET Peer
    /\ pc      \in [Procs -> Labels]
    /\ payload \in [Reqs -> Payloads]
    /\ loaded  \in [Reqs -> Row \cup {NoRow}]
    /\ draft   \in [Reqs -> Row \cup {NoRow}]
    /\ seen    \in [Reqs -> SUBSET Reqs]
    /\ image   \in [Procs -> SUBSET Peer]

\* A router has one valid telemetry token from its first commit on, whatever
\* re-enrollments run together, fail or are cut short by a crash: the handler
\* revokes the tokens its SELECT returns, and only the row lock taken by the
\* UPDATE before it keeps that answer current until the commit.
OneActiveToken ==
    \A s \in Serials :
        IF Enrolled(s)
        THEN \E r \in Reqs : ActiveTokens(s) = {r}
        ELSE ActiveTokens(s) = {}

\* The routers' overlay addresses, and their keys, are distinct, and no address
\* is the server's, although two handlers may have been given the same free one.
AddressesDistinct ==
    \A s, t \in Serials :
        Enrolled(s) =>
            /\ routers[s].ip # ServerIP
            /\ Enrolled(t) /\ s # t => /\ routers[s].ip # routers[t].ip
                                      /\ routers[s].key # routers[t].key

\* The provisioning script of a request answered 200 names the address that is
\* the router's in the database now, and carries a token that was committed.
AnswerStands ==
    \A r \in Reqs :
        pc[r] = "ok" =>
            /\ token[r] # "none"
            /\ Enrolled(Serial(r))
            /\ routers[Serial(r)].ip = AnsweredIP(r)

\* `peer' is a router's address with a key that a committed request of the same
\* router brought.
Genuine(peer) ==
    \E r \in Reqs :
        /\ token[r] # "none"
        /\ payload[r].key = peer.key
        /\ Enrolled(Serial(r))
        /\ routers[Serial(r)].ip = peer.ip

\* Neither the file, the kernel nor a sync under way ever has a peer that is
\* not a committed router's address with a key of that same router, however
\* stale it is: a sync renders committed rows only, and addresses never move.
PeersGenuine ==
    /\ \A peer \in conf \cup kernel : Genuine(peer)
    /\ \A p \in Procs : \A peer \in image[p] : Genuine(peer)

\* No two peers have the same address, or the same key.
Unambiguous(peers) ==
    \A x, y \in peers : (x.key = y.key \/ x.ip = y.ip) => x = y

\* The kernel never has two keys for one address, nor two addresses for one
\* key: each sync is one snapshot of the table, and syncconf replaces the peers.
KernelUnambiguous == Unambiguous(kernel)

\* A router that waits for its first approval is no peer (comment at
\* auto_enroll.py:69-71), when operators only ever move rows out of "pending".
PendingIsNoPeer ==
    \A s \in Serials :
        Enrolled(s) /\ routers[s].status = "pending" =>
            \A peer \in conf \cup kernel : peer.ip # routers[s].ip

\* A router keeps its row and its overlay address through every
\* re-enrollment, clash, failed sync, crash and restart.
AddressKept ==
    [][\A s \in Serials :
          Enrolled(s) => /\ routers'[s] # NoRow
                         /\ routers'[s].ip = routers[s].ip]_vars

\* No handler changes a status: a router that is quarantined while its
\* re-enrollment is under way stays quarantined when that commits.
StatusKept ==
    [][\A s \in Serials :
          Enrolled(s) /\ routers'[s].status # routers[s].status
              => UNCHANGED <<pc, token>>]_vars

\* A valid token is revoked only in the step that makes the token of another
\* request for the same router valid, and never becomes valid again.
TokenHandover ==
    [][\A q \in Reqs :
          /\ token[q] = "revoked" => token'[q] = "revoked"
          /\ token[q] = "active" /\ token'[q] # "active" =>
                \E r \in Reqs \ {q} :
                    /\ Serial(r) = Serial(q)
                    /\ token[r] = "none"
                    /\ token'[r] = "active"]_vars

\* A request that got past the gates is answered or dies with the service: no
\* statement waits for ever for the locks of other handlers, and a helper that
\* hangs, which nothing interrupts, keeps only its own request and its
\* connection: the others get a connection of the pool or give up.
EveryRequestEnds ==
    \A r \in Reqs : pc[r] = "find" ~> pc[r] \in Ended \cup {"hung"}

-----------------------------------------------------------------------------
(* The promise.                                                            *)

RecordOf(row) == [address |-> row.ip, status |-> row.status]

Promised == INSTANCE Inventory WITH
    Devices <- Serials, Addresses <- Hosts, ServerAddress <- ServerIP,
    Credentials <- Reqs, Statuses <- Status, FirstStatuses <- {"active", "pending"},
    record <- [s \in {t \in Serials : Enrolled(t)} |-> RecordOf(routers[s])],
    valid <- [s \in Serials |-> ActiveTokens(s)],
    used <- {q \in Reqs : token[q] # "none"}

\* All that handlers, syncs, failures, crashes and operators do to the database
\* amounts to the enrollments and status changes of an inventory: interleaved
\* transactions look like one enrollment after the other, each whole or absent.
KeepsPromise == Promised!Spec

\* A sync of module Mirror has its label, or is out.
At(p) == IF pc[p] \in {"write", "load", "apply"} THEN pc[p] ELSE "out"

Image(p) == IF pc[p] \in {"write", "apply"} THEN image[p] ELSE NoRow

Mirrored == INSTANCE Mirror WITH
    Runs <- Procs, Tables <- {peers \in SUBSET Peer : Unambiguous(peers)},
    Nothing <- NoRow, table <- ActivePeers,
    at <- [p \in Procs |-> At(p)], image <- [p \in Procs |-> Image(p)]

\* Between the table, which never gives two keys one address, the file and the
\* kernel the peers move whole, in the steps that module WgSync promises, with
\* requests, commands, failures, crashes and restarts in any order.
MirrorsTable == Mirrored!Spec

-----------------------------------------------------------------------------
(* What comments and docs say, and the code does not do.                   *)

\* wireguard.py:249-253 and 01-design-wireguard-and-telemetry.md:124: wg0 is
\* regenerated from the table.  So once every handler and command has ended,
\* and none has failed, the kernel has the peers of the table.
SyncedWhenQuiet ==
    (\A p \in Procs : pc[p] \in {"idle", "ok"}) => kernel = ActivePeers
=============================================================================
