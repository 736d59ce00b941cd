------------------------------- MODULE Telemetry -------------------------------
(***************************************************************************)
(* POST /api/v1/telemetry (app/routers/telemetry.py) and the InfluxDB      *)
(* write it ends with (app/services/influx.py), against what changes under *)
(* it: re-enrollments that hand a router's token over, and operators who   *)
(* set a router's status or delete its row.                                *)
(*                                                                         *)
(* A handler is cut where it waits for Postgres or InfluxDB.  What a       *)
(* heartbeat reports is left out here; so is the wait for a row that a     *)
(* re-enrollment has locked, which only delays the UPDATE.                 *)
(***************************************************************************)
EXTENDS Integers

CONSTANTS
    Beats,          \* heartbeat requests
    Routers,        \* rows of table routers
    Tokens,         \* telemetry tokens
    Owner,          \* the router each token is minted for
    AdminStatuses,  \* the statuses an operator may give a router
    HasInflux,      \* an InfluxDB token is configured
    MaxTime,        \* bound: the last moment
    Never,          \* last_seen_at is NULL
    Gone            \* the row has been deleted

Status == {"active", "pending", "decommissioned", "quarantined"}
Barred == {"decommissioned", "quarantined"}

ASSUME OwnerAssumption  == Owner \in [Tokens -> Routers]
ASSUME StatusAssumption == AdminStatuses \subseteq Status /\ Gone \notin Status
ASSUME InfluxAssumption == HasInflux \in BOOLEAN
ASSUME TimeAssumption   == MaxTime \in Nat /\ Never \notin Nat

VARIABLES
    now,      \* datetime.now()
    status,   \* the status of each router
    last,     \* last_seen_at of each router
    token,    \* the state of each telemetry token
    points,   \* the heartbeats InfluxDB has
    pc,       \* where a handler is
    bears,    \* the token a heartbeat bears
    stamp,    \* the new last_seen_at a handler has in its session
    stale,    \* beats that arrived with a revoked token (history)
    shut,     \* beats whose router has been barred since they arrived (history)
    counted,  \* beats whose last_seen_at was committed (history)
    rivals    \* beats under way when a router's last_seen_at was (history)

vars == <<now, status, last, token, points, pc, bears, stamp, stale, shut, counted,
          rivals>>
arrival == <<stale, shut>>
seen == <<last, counted, rivals>>

Ended == {"ok", "limited", "denied", "forbidden", "error", "gone"}

Of(b) == Owner[bears[b]]

InFlight == {b \in Beats : pc[b] \notin Ended \cup {"idle"}}

Goto(b, label) == pc' = [pc EXCEPT ![b] = label]

Init ==
    /\ now = 0
    /\ status \in [Routers -> {"active", "pending"}]
    /\ last = [r \in Routers |-> Never]
    /\ token = [t \in Tokens |-> "unborn"]
    /\ points = {}
    /\ pc = [b \in Beats |-> "idle"]
    /\ bears \in [Beats -> Tokens]
    /\ stamp = [b \in Beats |-> Never]
    /\ stale = {}
    /\ shut = {}
    /\ counted = {}
    /\ rivals = [r \in Routers |-> {}]

-----------------------------------------------------------------------------
(* The handler.                                                            *)

\* No bearer token, or an empty bucket: 401 or 429 before any query.
TurnAway(b) ==
    /\ pc[b] = "idle"
    /\ \E label \in {"denied", "limited"} : Goto(b, label)
    /\ UNCHANGED <<now, status, token, points, bears, stamp, seen, arrival>>

Arrive(b) ==
    /\ pc[b] = "idle"
    /\ Goto(b, "find")
    /\ stale' = IF token[bears[b]] = "revoked" THEN stale \cup {b} ELSE stale
    /\ shut' = IF status[Of(b)] \in Barred THEN shut \cup {b} ELSE shut
    /\ UNCHANGED <<now, status, token, points, bears, stamp, seen>>

\* Mutant: the hash is enough.
FindAnyToken(b) ==
    /\ pc[b] = "find"
    /\ Goto(b, IF token[bears[b]] # "unborn" THEN "gate" ELSE "denied")
    /\ UNCHANGED <<now, status, token, points, bears, stamp, seen, arrival>>

\* find_valid_router_token: 401 unless the token is there and not revoked.
Find(b) ==
    /\ pc[b] = "find"
    /\ Goto(b, IF token[bears[b]] = "active" THEN "gate" ELSE "denied")
    /\ UNCHANGED <<now, status, token, points, bears, stamp, seen, arrival>>

\* The bucket of the router is empty: 429.
LimitRouter(b) ==
    /\ pc[b] = "gate"
    /\ Goto(b, "limited")
    /\ UNCHANGED <<now, status, token, points, bears, stamp, seen, arrival>>

\* The router's row is read: 401 without one, 403 if the router is barred.
Gate(b) ==
    /\ pc[b] = "gate"
    /\ Goto(b, IF status[Of(b)] = Gone THEN "denied"
               ELSE IF status[Of(b)] \in Barred THEN "forbidden"
               ELSE "stamp")
    /\ UNCHANGED <<now, status, token, points, bears, stamp, seen, arrival>>

\* Mutant: local time, ahead of UTC.
StampLocal(b) ==
    /\ pc[b] = "stamp"
    /\ stamp' = [stamp EXCEPT ![b] = now + 1]
    /\ Goto(b, "touch")
    /\ UNCHANGED <<now, status, token, points, bears, seen, arrival>>

\* Mutant: the moment is the one that the router says it is.
StampDevice(b) ==
    /\ pc[b] = "stamp"
    /\ \E clock \in 0 .. now : stamp' = [stamp EXCEPT ![b] = clock]
    /\ Goto(b, "touch")
    /\ UNCHANGED <<now, status, token, points, bears, seen, arrival>>

\* last_seen_at is set in the session when the row has come back.
Stamp(b) ==
    /\ pc[b] = "stamp"
    /\ stamp' = [stamp EXCEPT ![b] = now]
    /\ Goto(b, "touch")
    /\ UNCHANGED <<now, status, token, points, bears, seen, arrival>>

\* The UPDATE and the commit; a row that was deleted meanwhile is an error.
Touch(b) ==
    /\ pc[b] = "touch"
    /\ stamp' = [stamp EXCEPT ![b] = Never]
    /\ IF status[Of(b)] = Gone
       THEN /\ Goto(b, "error")
            /\ UNCHANGED seen
       ELSE /\ Goto(b, "write")
            /\ last' = [last EXCEPT ![Of(b)] = stamp[b]]
            /\ counted' = counted \cup {b}
            /\ rivals' = [rivals EXCEPT ![Of(b)] = InFlight]
    /\ UNCHANGED <<now, status, token, points, bears, arrival>>

\* write_telemetry writes all the points of a heartbeat in one call.
Write(b) ==
    /\ pc[b] = "write"
    /\ HasInflux
    /\ points' = points \cup {b}
    /\ Goto(b, "answer")
    /\ UNCHANGED <<now, status, token, bears, stamp, seen, arrival>>

\* Mutant: an exception of the client reaches FastAPI.
WriteRaises(b) ==
    /\ pc[b] = "write"
    /\ Goto(b, IF HasInflux THEN "error" ELSE "answer")
    /\ UNCHANGED <<now, status, token, points, bears, stamp, seen, arrival>>

\* InfluxDB is not configured, down, slow or refuses: nothing is made of it.
WriteFails(b) ==
    /\ pc[b] = "write"
    /\ Goto(b, "answer")
    /\ UNCHANGED <<now, status, token, points, bears, stamp, seen, arrival>>

\* 204
Answer(b) ==
    /\ pc[b] = "answer"
    /\ Goto(b, "ok")
    /\ UNCHANGED <<now, status, token, points, bears, stamp, seen, arrival>>

\* A statement fails: 500, and what is not committed is rolled back.
Fail(b) ==
    /\ pc[b] \in {"find", "gate", "touch"}
    /\ stamp' = [stamp EXCEPT ![b] = Never]
    /\ Goto(b, "error")
    /\ UNCHANGED <<now, status, token, points, bears, seen, arrival>>

Crash ==
    /\ InFlight # {}
    /\ pc' = [b \in Beats |-> IF b \in InFlight THEN "gone" ELSE pc[b]]
    /\ stamp' = [b \in Beats |-> Never]
    /\ UNCHANGED <<now, status, token, points, bears, seen, arrival>>

-----------------------------------------------------------------------------
(* What happens around it.                                                 *)

\* An enrollment commits: the tokens of the router are handed over to `t'
\* (property TokenHandover of module AutoEnroll).  Its status is not changed.
Rotate(r, t) ==
    /\ status[r] # Gone
    /\ Owner[t] = r /\ token[t] = "unborn"
    /\ token' = [u \in Tokens |->
                   IF u = t THEN "active"
                   ELSE IF Owner[u] = r /\ token[u] = "active" THEN "revoked"
                   ELSE token[u]]
    /\ UNCHANGED <<now, status, points, pc, bears, stamp, seen, arrival>>

\* An operator sets a status, and may let a barred router in again.
SetStatus(r, s) ==
    /\ status[r] \notin {s, Gone}
    /\ status' = [status EXCEPT ![r] = s]
    /\ shut' = IF s \in Barred THEN shut ELSE {b \in shut : Of(b) # r}
    /\ UNCHANGED <<now, token, points, pc, bears, stamp, stale, seen>>

\* An operator deletes a row; the foreign key deletes its tokens.
Delete(r) ==
    /\ status[r] # Gone
    /\ status' = [status EXCEPT ![r] = Gone]
    /\ token' = [t \in Tokens |-> IF Owner[t] = r THEN "revoked" ELSE token[t]]
    /\ UNCHANGED <<now, points, pc, bears, stamp, seen, arrival>>

Tick ==
    /\ now < MaxTime
    /\ now' = now + 1
    /\ UNCHANGED <<status, token, points, pc, bears, stamp, seen, arrival>>

-----------------------------------------------------------------------------
Beat(b) ==
    \/ TurnAway(b) \/ Arrive(b) \/ Find(b) \/ LimitRouter(b) \/ Gate(b)
    \/ Stamp(b) \/ Touch(b) \/ Write(b) \/ WriteFails(b) \/ Answer(b)

Operate ==
    \/ \E r \in Routers : Delete(r)
    \/ \E r \in Routers, t \in Tokens : Rotate(r, t)
    \/ \E r \in Routers, s \in AdminStatuses : SetStatus(r, s)

Finished == now = MaxTime /\ (\A b \in Beats : pc[b] \in Ended) /\ UNCHANGED vars

Next ==
    \/ \E b \in Beats : Beat(b) \/ Fail(b)
    \/ Crash \/ Operate \/ Tick \/ Finished

Spec == Init /\ [][Next]_vars

-----------------------------------------------------------------------------
TypeOK ==
    /\ now \in 0 .. MaxTime
    /\ status \in [Routers -> Status \cup {Gone}]
    /\ last \in [Routers -> 0 .. MaxTime \cup {Never}]
    /\ token \in [Tokens -> {"unborn", "active", "revoked"}]
    /\ points \in SUBSET Beats
    /\ pc \in [Beats -> Ended \cup {"idle", "find", "gate", "stamp", "touch", "write",
                         "answer"}]
    /\ bears \in [Beats -> Tokens]
    /\ stamp \in [Beats -> 0 .. MaxTime \cup {Never}]
    /\ stale \in SUBSET Beats
    /\ shut \in SUBSET Beats
    /\ counted \in SUBSET Beats
    /\ rivals \in [Routers -> SUBSET Beats]

\* A heartbeat that comes in with a token already handed over, or for a router
\* already quarantined or decommissioned and not let in since, leaves no trace:
\* no last_seen_at, no point, no 204.
ShutOutLeavesNoTrace ==
    \A b \in stale \cup shut : b \notin counted \cup points /\ pc[b] # "ok"

\* Once last_seen_at is committed the router is told 204, whatever InfluxDB
\* does, unless the service dies; and no other beat is told so or stored.
CommittedIsAcknowledged ==
    /\ \A b \in counted : pc[b] \in {"write", "answer", "ok", "gone"}
    /\ \A b \in Beats : pc[b] = "ok" \/ b \in points => b \in counted

\* The timestamp is taken before the row is written, so overlapping heartbeats
\* may commit out of order and last_seen_at go back.  It does so only by a beat
\* that was already under way when the value it undoes was committed: beats
\* that follow one another never move it back, if the server's clock does not.
SeenGoesBackByOverlapOnly ==
    [][\A r \in Routers :
          last[r] # Never /\ last'[r] # last[r] =>
              \/ last'[r] > last[r]
              \/ \E b \in rivals[r] : Of(b) = r /\ pc[b] = "touch" /\ pc'[b] = "write"]_vars
=============================================================================
