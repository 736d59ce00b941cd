------------------------------ MODULE FetchTokens ------------------------------
(***************************************************************************)
(* Admin fetch tokens: `fetch-tokens mint', `revoke' and `list'            *)
(* (app/cli.py, app/services/tokens.py) against the installer downloads    *)
(* they authorise (GET /factory/self-enroll.rsc, app/routers/factory.py).  *)
(*                                                                         *)
(* A raw token is named by the run of `mint' that printed it; the sha256   *)
(* comparison makes that name what a lookup decides by.  revoked_at is     *)
(* kept as whether it is set, and last_used_at, which is written with      *)
(* use_count and read by nobody, is left out.  An UPDATE and its COMMIT    *)
(* are one step: the row is locked, and the old one visible, between them. *)
(***************************************************************************)
EXTENDS Integers, FiniteSets

CONSTANTS
    Mints,      \* runs of `fetch-tokens mint'
    Revokes,    \* runs of `fetch-tokens revoke'
    Downloads,  \* requests for the installer
    Labels,     \* labels given to `mint'
    Blank,      \* the label that is empty when it is stripped
    Prefixes,   \* the first characters of raw tokens
    PrefixOf,   \* the prefix of each raw token
    Ttls,       \* lifetimes asked for
    MaxTime,    \* bound: the last moment
    NoRow       \* no such row, or none loaded

Procs  == Mints \cup Revokes \cup Downloads
Idents == Labels \cup Prefixes
Row    == [label : Labels, expires : Int, revoked : BOOLEAN, uses : Nat]

ASSUME ProcsAssumption ==
    Mints \cap Revokes = {} /\ Mints \cap Downloads = {} /\ Revokes \cap Downloads = {}
ASSUME PrefixAssumption == PrefixOf \in [Mints -> Prefixes]
ASSUME TimesAssumption  == MaxTime \in Nat /\ Ttls \subseteq Int
ASSUME FiniteAssumption == IsFiniteSet(Downloads)
ASSUME NoRowAssumption  == NoRow \notin Row

VARIABLES
    now,         \* datetime.now()
    row,         \* the committed admin_fetch_tokens row of each raw token
    pc,          \* where a command or a request is
    asks,        \* the raw token a download presents
    names,       \* the label or prefix a revocation is given
    held,        \* the row object in the session of a mint or a download
    matched,     \* the rows a revocation's SELECT returned
    configured,  \* a current provisioning secret is set
    clock,       \* the moment a download compares expiries with
    hidden,      \* tokens that a listing has left out as inactive (history)
    late         \* downloads that came in with an inactive token (history)

vars == <<now, row, pc, asks, names, held, matched, configured, clock, hidden, late>>

Ended == {"served", "limited", "denied", "nosecret", "minted", "refused",
          "revoked", "failed"}

Exists(m) == row[m] # NoRow

Goto(p, label) == pc' = [pc EXCEPT ![p] = label]

Init ==
    /\ now = 0
    /\ row = [m \in Mints |-> NoRow]
    /\ pc = [p \in Procs |-> "idle"]
    /\ asks \in [Downloads -> Mints]
    /\ names \in [Revokes -> Idents]
    /\ held = [p \in Mints \cup Downloads |-> NoRow]
    /\ matched = [v \in Revokes |-> {}]
    /\ configured \in BOOLEAN
    /\ clock = [d \in Downloads |-> 0]
    /\ hidden = {}
    /\ late = {}

-----------------------------------------------------------------------------
(* mint                                                                    *)

\* Mutant: what the operator typed is not looked at.
IssueUnchecked(m, label, ttl) ==
    /\ pc[m] = "idle"
    /\ held' = [held EXCEPT ![m] = [label   |-> label,
                                    expires |-> now + ttl,
                                    revoked |-> FALSE,
                                    uses    |-> 0]]
    /\ Goto(m, "commit")
    /\ UNCHANGED <<now, row, asks, names, matched, configured, clock, hidden, late>>

\* issue_admin_fetch_token: the row is inserted, and not yet committed.
Issue(m, label, ttl) ==
    /\ pc[m] = "idle"
    /\ ttl > 0 /\ label # Blank
    /\ held' = [held EXCEPT ![m] = [label   |-> label,
                                    expires |-> now + ttl,
                                    revoked |-> FALSE,
                                    uses    |-> 0]]
    /\ Goto(m, "commit")
    /\ UNCHANGED <<now, row, asks, names, matched, configured, clock, hidden, late>>

RefuseIssue(m, label, ttl) ==
    /\ pc[m] = "idle"
    /\ ttl <= 0 \/ label = Blank
    /\ Goto(m, "refused")
    /\ UNCHANGED <<now, row, asks, names, held, matched, configured, clock, hidden, late>>

\* The commit, after which the raw token is printed.
CommitIssue(m) ==
    /\ pc[m] = "commit"
    /\ row' = [row EXCEPT ![m] = held[m]]
    /\ held' = [held EXCEPT ![m] = NoRow]
    /\ Goto(m, "minted")
    /\ UNCHANGED <<now, asks, names, matched, configured, clock, hidden, late>>

-----------------------------------------------------------------------------
(* revoke                                                                  *)

Matches(m, ident) == row[m].label = ident \/ PrefixOf[m] = ident

Select(v) ==
    /\ pc[v] = "idle"
    /\ matched' = [matched EXCEPT ![v] =
         {m \in Mints : Exists(m) /\ ~row[m].revoked /\ Matches(m, names[v])}]
    /\ Goto(v, "write")
    /\ UNCHANGED <<now, row, asks, names, held, configured, clock, hidden, late>>

\* The UPDATE of the rows found, by primary key, and the commit.
Revoke(v) ==
    /\ pc[v] = "write"
    /\ row' = [m \in Mints |-> IF m \in matched[v]
                               THEN [row[m] EXCEPT !.revoked = TRUE]
                               ELSE row[m]]
    /\ matched' = [matched EXCEPT ![v] = {}]
    /\ Goto(v, "revoked")
    /\ UNCHANGED <<now, asks, names, held, configured, clock, hidden, late>>

-----------------------------------------------------------------------------
(* list                                                                    *)

Active(m) == ~row[m].revoked /\ row[m].expires > now

List ==
    /\ ~({m \in Mints : Exists(m) /\ ~Active(m)} \subseteq hidden)
    /\ hidden' = hidden \cup {m \in Mints : Exists(m) /\ ~Active(m)}
    /\ UNCHANGED <<now, row, pc, asks, names, held, matched, configured, clock, late>>

-----------------------------------------------------------------------------
(* A download.                                                             *)

\* A bucket of module RateLimit is empty: 429.
RateLimited(d) ==
    /\ pc[d] = "idle"
    /\ Goto(d, "limited")
    /\ UNCHANGED <<now, row, asks, names, held, matched, configured, clock, hidden, late>>

\* find_valid_admin_token reads the clock before it sends its query.
Arrive(d) ==
    /\ pc[d] = "idle"
    /\ clock' = [clock EXCEPT ![d] = now]
    /\ late' = IF Exists(asks[d]) /\ ~Active(asks[d]) THEN late \cup {d} ELSE late
    /\ Goto(d, "find")
    /\ UNCHANGED <<now, row, asks, names, held, matched, configured, hidden>>

\* Mutant: a token is good through its last moment.
ValidThrough(m, moment) ==
    Exists(m) /\ ~row[m].revoked /\ row[m].expires >= moment

\* What the query asks of the row.
Valid(m, moment) == Exists(m) /\ ~row[m].revoked /\ row[m].expires > moment

\* The query, and the checks of what it returns: 401, 500, or on.
Find(d) ==
    /\ pc[d] = "find"
    /\ IF Valid(asks[d], clock[d]) /\ configured
       THEN /\ held' = [held EXCEPT ![d] = row[asks[d]]]
            /\ Goto(d, "count")
       ELSE /\ Goto(d, IF Valid(asks[d], clock[d]) THEN "nosecret" ELSE "denied")
            /\ UNCHANGED held
    /\ clock' = [clock EXCEPT ![d] = 0]
    /\ UNCHANGED <<now, row, asks, names, matched, configured, hidden, late>>

\* Mutant: the row object is written back column by column.
CountWholeRow(d) ==
    /\ pc[d] = "count"
    /\ row' = [row EXCEPT ![asks[d]] = [held[d] EXCEPT !.uses = @ + 1]]
    /\ Goto(d, "answer")
    /\ UNCHANGED <<now, asks, names, held, matched, configured, clock, hidden, late>>

\* Mutant: the installer is rendered before the use is committed.
CountLater(d) ==
    /\ pc[d] = "count"
    /\ Goto(d, "answer")
    /\ UNCHANGED <<now, row, asks, names, held, matched, configured, clock, hidden, late>>

\* The use is counted: the value loaded, plus one, is what the UPDATE writes.
Count(d) ==
    /\ pc[d] = "count"
    /\ row' = [row EXCEPT ![asks[d]].uses = held[d].uses + 1]
    /\ Goto(d, "answer")
    /\ UNCHANGED <<now, asks, names, held, matched, configured, clock, hidden, late>>

\* 200 with the rendered installer.
Serve(d) ==
    /\ pc[d] = "answer"
    /\ held' = [held EXCEPT ![d] = NoRow]
    /\ Goto(d, "served")
    /\ UNCHANGED <<now, row, asks, names, matched, configured, clock, hidden, late>>

-----------------------------------------------------------------------------
\* A command is interrupted, a statement fails, the service dies: what is not
\* committed is gone.
Fail(p) ==
    /\ pc[p] \notin Ended \cup {"idle"}
    /\ Goto(p, "failed")
    /\ held' = [q \in Mints \cup Downloads |-> IF q = p THEN NoRow ELSE held[q]]
    /\ matched' = [v \in Revokes |-> IF v = p THEN {} ELSE matched[v]]
    /\ clock' = [d \in Downloads |-> IF d = p THEN 0 ELSE clock[d]]
    /\ UNCHANGED <<now, row, asks, names, configured, hidden, late>>

Tick ==
    /\ now < MaxTime
    /\ now' = now + 1
    /\ UNCHANGED <<row, pc, asks, names, held, matched, configured, clock, hidden, late>>

Finished == now = MaxTime /\ (\A p \in Procs : pc[p] \in Ended) /\ UNCHANGED vars

Mint(m) ==
    \/ \E label \in Labels \cup {Blank}, ttl \in Ttls :
         Issue(m, label, ttl) \/ RefuseIssue(m, label, ttl)
    \/ CommitIssue(m)

Download(d) == RateLimited(d) \/ Arrive(d) \/ Find(d) \/ Count(d) \/ Serve(d)

Next ==
    \/ \E m \in Mints : Mint(m)
    \/ \E v \in Revokes : Select(v) \/ Revoke(v)
    \/ List
    \/ \E d \in Downloads : Download(d)
    \/ \E p \in Procs : Fail(p)
    \/ Tick
    \/ Finished

Spec == Init /\ [][Next]_vars

-----------------------------------------------------------------------------
TypeOK ==
    /\ now \in 0 .. MaxTime
    /\ row \in [Mints -> Row \cup {NoRow}]
    /\ pc \in [Procs -> Ended \cup {"idle", "commit", "write", "find", "count", "answer"}]
    /\ asks \in [Downloads -> Mints]
    /\ names \in [Revokes -> Idents]
    /\ held \in [Mints \cup Downloads -> Row \cup {NoRow}]
    /\ matched \in [Revokes -> SUBSET Mints]
    /\ configured \in BOOLEAN
    /\ clock \in [Downloads -> 0 .. MaxTime]
    /\ hidden \in SUBSET Mints
    /\ late \in SUBSET Downloads

\* A token that was revoked stays revoked, with its label and expiry, whatever
\* downloads had loaded the row before and write it afterwards.
RevokedForGood ==
    [][\A m \in Mints :
          Exists(m) /\ row[m].revoked =>
              /\ row'[m] # NoRow
              /\ row'[m].revoked
              /\ row'[m].label = row[m].label
              /\ row'[m].expires = row[m].expires]_vars

\* A download that presents a token revoked or expired before it comes in is
\* never served, then or later.
DeadTokenIsDead == \A d \in late : pc[d] # "served"

\* A token that `list' has left out authorises no download that comes in later.
HiddenIsDead == \A m \in hidden : ~Valid(m, now)

\* The row of a token that has served an installer says that it was used, and
\* never more often than there were downloads with it, whichever were cut short.
UseIsRecorded ==
    \A m \in Mints :
        LET downloads == {d \in Downloads : asks[d] = m}
        IN  /\ (\E d \in downloads : pc[d] = "served") =>
                   Exists(m) /\ row[m].uses > 0
            /\ Exists(m) => row[m].uses <= Cardinality(downloads)

=============================================================================
