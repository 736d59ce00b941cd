---------------------------- MODULE TelemetryProofs ----------------------------
(***************************************************************************)
(* For every number of routers, tokens and heartbeats: a beat that is shut *)
(* out leaves no trace, and a committed one is acknowledged.               *)
(***************************************************************************)
EXTENDS Telemetry, TLAPS

\* A beat that came in with a revoked token is refused by the token lookup at
\* the latest, and one of a barred router by the gate, for the router is still
\* barred, or deleted, when the gate reads its row.
Refused ==
    /\ \A b \in stale : /\ token[bears[b]] = "revoked"
                        /\ pc[b] \in {"find", "denied", "error", "gone"}
                        /\ b \notin counted
    /\ \A b \in shut : /\ status[Of(b)] \in Barred \cup {Gone}
                       /\ pc[b] \in {"find", "gate", "denied", "limited",
                                     "forbidden", "error", "gone"}
                       /\ b \notin counted

\* A beat whose last_seen_at is committed is on its way to its 204.
Counted ==
    \A b \in Beats :
        /\ b \in counted => pc[b] \in {"write", "answer", "ok", "gone"}
        /\ pc[b] \in {"write", "answer", "ok"} \/ b \in points => b \in counted

\* A stamp is in the past, and no earlier than a last_seen_at that was committed
\* before its beat came in.
Dated ==
    /\ \A r \in Routers : last[r] # Never => last[r] <= now
    /\ \A b \in Beats :
          pc[b] = "touch" =>
              /\ stamp[b] \in 0 .. now
              /\ \/ b \in rivals[Of(b)]
                 \/ last[Of(b)] = Never
                 \/ stamp[b] >= last[Of(b)]

IInv == TypeOK /\ Refused /\ Counted /\ Dated

LEMMA TypeStep ==
    ASSUME TypeOK, [Next]_vars
    PROVE  TypeOK'
<1> USE DEF seen, arrival
<1> USE OwnerAssumption, StatusAssumption, TimeAssumption
<1>1. ASSUME NEW b \in Beats, Beat(b) \/ Fail(b)
      PROVE  TypeOK'
  <2>1. CASE TurnAway(b)
    BY <2>1 DEF TypeOK, TurnAway, Goto, Ended
  <2>2. CASE Arrive(b)
    BY <2>2 DEF TypeOK, Arrive, Goto, Ended
  <2>3. CASE Find(b)
    BY <2>3 DEF TypeOK, Find, Goto, Ended
  <2>4. CASE LimitRouter(b) \/ Gate(b)
    BY <2>4 DEF TypeOK, LimitRouter, Gate, Goto, Ended
  <2>5. CASE Stamp(b)
    BY <2>5 DEF TypeOK, Stamp, Goto, Ended
  <2>6. CASE Touch(b)
    <3>1. stamp' \in [Beats -> 0 .. MaxTime \cup {Never}]
      BY <2>6 DEF TypeOK, Touch
    <3>2. last' \in [Routers -> 0 .. MaxTime \cup {Never}]
      BY <2>6 DEF TypeOK, Touch
    <3>3. pc' \in [Beats -> Ended \cup {"idle", "find", "gate", "stamp", "touch",
                                        "write", "answer"}]
      BY <2>6 DEF TypeOK, Touch, Goto, Ended
    <3> QED
      BY <2>6, <3>1, <3>2, <3>3 DEF TypeOK, Touch, InFlight
  <2>7. CASE Write(b) \/ WriteFails(b) \/ Answer(b)
    BY <2>7 DEF TypeOK, Write, WriteFails, Answer, Goto, Ended
  <2>8. CASE Fail(b)
    BY <2>8 DEF TypeOK, Fail, Goto, Ended
  <2> QED
    BY <1>1, <2>1, <2>2, <2>3, <2>4, <2>5, <2>6, <2>7, <2>8 DEF Beat
<1>2. CASE Crash
  BY <1>2 DEF TypeOK, Crash, Ended
<1>3. ASSUME NEW r \in Routers, NEW t \in Tokens, Rotate(r, t)
      PROVE  TypeOK'
  BY <1>3 DEF TypeOK, Rotate
<1>4. ASSUME NEW r \in Routers, NEW s \in AdminStatuses, SetStatus(r, s)
      PROVE  TypeOK'
  BY <1>4 DEF TypeOK, SetStatus
<1>5. ASSUME NEW r \in Routers, Delete(r)
      PROVE  TypeOK'
  BY <1>5 DEF TypeOK, Delete
<1>6. CASE Tick
  BY <1>6 DEF TypeOK, Tick
<1>7. CASE UNCHANGED vars
  BY <1>7 DEF TypeOK, vars
<1> QED
  BY <1>1, <1>2, <1>3, <1>4, <1>5, <1>6, <1>7 DEF Next, Operate, Finished

LEMMA RefusedStep ==
    ASSUME TypeOK, Refused, Counted, [Next]_vars
    PROVE  Refused'
<1> USE OwnerAssumption, StatusAssumption DEF seen, arrival
<1>1. ASSUME NEW b \in Beats, Beat(b) \/ Fail(b)
      PROVE  Refused'
  <2>1. CASE TurnAway(b)
    BY <2>1 DEF TypeOK, Refused, TurnAway, Goto, Of
  <2>2. CASE Arrive(b)
    BY <2>2 DEF TypeOK, Refused, Counted, Arrive, Goto, Of
  <2>3. CASE Find(b)
    BY <2>3 DEF TypeOK, Refused, Find, Goto, Of
  <2>4. CASE LimitRouter(b) \/ Gate(b)
    BY <2>4 DEF TypeOK, Refused, LimitRouter, Gate, Goto, Of
  <2>5. CASE Stamp(b) \/ Touch(b)
    BY <2>5 DEF TypeOK, Refused, Stamp, Touch, Goto, Of
  <2>6. CASE Write(b) \/ WriteFails(b) \/ Answer(b)
    BY <2>6 DEF TypeOK, Refused, Write, WriteFails, Answer, Goto, Of
  <2>7. CASE Fail(b)
    BY <2>7 DEF TypeOK, Refused, Fail, Goto, Of
  <2> QED
    BY <1>1, <2>1, <2>2, <2>3, <2>4, <2>5, <2>6, <2>7 DEF Beat
<1>2. CASE Crash
  BY <1>2 DEF TypeOK, Refused, Crash, InFlight, Ended, Of
<1>3. ASSUME NEW r \in Routers, NEW t \in Tokens, Rotate(r, t)
      PROVE  Refused'
  BY <1>3 DEF TypeOK, Refused, Rotate, Of
<1>4. ASSUME NEW r \in Routers, NEW s \in AdminStatuses, SetStatus(r, s)
      PROVE  Refused'
  BY <1>4 DEF TypeOK, Refused, SetStatus, Of
<1>5. ASSUME NEW r \in Routers, Delete(r)
      PROVE  Refused'
  BY <1>5 DEF TypeOK, Refused, Delete, Of
<1>6. CASE Tick \/ UNCHANGED vars
  BY <1>6 DEF Refused, Tick, vars, Of
<1> QED
  BY <1>1, <1>2, <1>3, <1>4, <1>5, <1>6 DEF Next, Operate, Finished

LEMMA CountedStep ==
    ASSUME TypeOK, Counted, [Next]_vars
    PROVE  Counted'
<1> USE DEF seen, arrival
<1>1. ASSUME NEW b \in Beats, Beat(b) \/ Fail(b)
      PROVE  Counted'
  <2>1. CASE TurnAway(b) \/ Arrive(b) \/ Find(b) \/ LimitRouter(b) \/ Gate(b) \/ Stamp(b)
    BY <2>1 DEF TypeOK, Counted, TurnAway, Arrive, Find, LimitRouter, Gate, Stamp, Goto
  <2>2. CASE Touch(b)
    BY <2>2 DEF TypeOK, Counted, Touch, Goto
  <2>3. CASE Write(b) \/ WriteFails(b) \/ Answer(b)
    BY <2>3 DEF TypeOK, Counted, Write, WriteFails, Answer, Goto
  <2>4. CASE Fail(b)
    BY <2>4 DEF TypeOK, Counted, Fail, Goto
  <2> QED
    BY <1>1, <2>1, <2>2, <2>3, <2>4 DEF Beat
<1>2. CASE Crash
  BY <1>2 DEF TypeOK, Counted, Crash, InFlight, Ended
<1>3. CASE Operate \/ Tick \/ UNCHANGED vars
  BY <1>3 DEF Counted, Operate, Rotate, SetStatus, Delete, Tick, vars
<1> QED
  BY <1>1, <1>2, <1>3 DEF Next, Finished

LEMMA DatedStep ==
    ASSUME TypeOK, Dated, [Next]_vars
    PROVE  Dated'
<1> USE OwnerAssumption, TimeAssumption DEF seen, arrival
<1>t. \A b \in Beats : Of(b) \in Routers
  BY DEF TypeOK, Of
<1>1. ASSUME NEW b \in Beats, Beat(b) \/ Fail(b)
      PROVE  Dated'
  <2>1. CASE TurnAway(b) \/ Arrive(b) \/ Find(b) \/ LimitRouter(b) \/ Gate(b)
    BY <2>1 DEF TypeOK, Dated, TurnAway, Arrive, Find, LimitRouter, Gate, Goto, Of
  <2>2. CASE Stamp(b)
    BY <1>t, <2>2 DEF TypeOK, Dated, Stamp, Goto, Of
  <2>3. CASE Touch(b)
    <3>1. CASE status[Of(b)] = Gone
      BY <2>3, <3>1 DEF TypeOK, Dated, Touch, Goto, Of
    <3>2. CASE status[Of(b)] # Gone
      BY <1>t, <2>3, <3>2 DEF TypeOK, Dated, Touch, Goto, Of, InFlight, Ended
    <3> QED
      BY <3>1, <3>2
  <2>4. CASE Write(b) \/ WriteFails(b) \/ Answer(b)
    BY <2>4 DEF TypeOK, Dated, Write, WriteFails, Answer, Goto, Of
  <2>5. CASE Fail(b)
    BY <2>5 DEF TypeOK, Dated, Fail, Goto, Of
  <2> QED
    BY <1>1, <2>1, <2>2, <2>3, <2>4, <2>5 DEF Beat
<1>2. CASE Crash
  BY <1>2 DEF TypeOK, Dated, Crash, InFlight, Ended, Of
<1>3. CASE Tick
  BY <1>3 DEF TypeOK, Dated, Tick, Of
<1>4. CASE Operate \/ UNCHANGED vars
  BY <1>4 DEF Dated, Operate, Rotate, SetStatus, Delete, vars, Of
<1> QED
  BY <1>1, <1>2, <1>3, <1>4 DEF Next, Finished

\* Only the commit of a heartbeat writes last_seen_at.
LEMMA LastWriters ==
    ASSUME TypeOK, [Next]_vars
    PROVE  \/ last' = last
           \/ \E b \in Beats : /\ pc[b] = "touch" /\ pc'[b] = "write"
                               /\ last' = [last EXCEPT ![Of(b)] = stamp[b]]
BY DEF TypeOK, Next, Beat, TurnAway, Arrive, Find, LimitRouter, Gate, Stamp, Touch,
       Write, WriteFails, Answer, Fail, Crash, Operate, Rotate, SetStatus, Delete,
       Tick, Finished, vars, seen, Goto

\* The inductive invariant holds of every reachable state.
THEOREM Inductive == Spec => []IInv
<1>1. Init => IInv
  <2> SUFFICES ASSUME Init
               PROVE  IInv
    OBVIOUS
  <2>1. status \in [Routers -> Status \cup {Gone}]
    BY DEF Init, Status
  <2>2. now \in 0 .. MaxTime
    BY TimeAssumption DEF Init
  <2>3. TypeOK
    BY <2>1, <2>2 DEF Init, TypeOK, Ended
  <2>4. Refused /\ Counted /\ Dated
    BY DEF Init, Refused, Counted, Dated
  <2> QED
    BY <2>3, <2>4 DEF IInv
<1>2. IInv /\ [Next]_vars => IInv'
  BY TypeStep, RefusedStep, CountedStep, DatedStep DEF IInv
<1> QED
  BY <1>1, <1>2, PTL DEF Spec

\* Every variable of the telemetry handlers keeps its type.
THEOREM TypeCorrect == Spec => []TypeOK
<1>1. IInv => TypeOK
  BY DEF IInv
<1> QED
  BY <1>1, Inductive, PTL

\* Neither a token that was handed over nor a barred router moves last_seen_at
\* or stores a point with a heartbeat that comes in afterwards.
THEOREM ShutOutIsSilent == Spec => []ShutOutLeavesNoTrace
<1>1. IInv => ShutOutLeavesNoTrace
  BY DEF IInv, TypeOK, Refused, Counted, ShutOutLeavesNoTrace
<1> QED
  BY <1>1, Inductive, PTL

\* A heartbeat whose last_seen_at is committed is answered 204, whatever
\* InfluxDB does.
THEOREM CommitIsAcknowledged == Spec => []CommittedIsAcknowledged
<1>1. IInv => CommittedIsAcknowledged
  BY DEF IInv, TypeOK, Counted, CommittedIsAcknowledged
<1> QED
  BY <1>1, Inductive, PTL

\* telemetry.py:300: last_seen_at goes back only by a heartbeat that overlapped
\* the one it undoes.
THEOREM SeenGoesBackByOverlap == Spec => SeenGoesBackByOverlapOnly
<1> DEFINE Allowed(r) ==
             last[r] # Never /\ last'[r] # last[r] =>
                \/ last'[r] > last[r]
                \/ \E b \in rivals[r] : Of(b) = r /\ pc[b] = "touch" /\ pc'[b] = "write"
<1>1. ASSUME IInv, [Next]_vars, NEW r \in Routers
      PROVE  Allowed(r)
  <2>1. CASE last' = last
    BY <2>1
  <2>2. ASSUME NEW b \in Beats, pc[b] = "touch", pc'[b] = "write",
               last' = [last EXCEPT ![Of(b)] = stamp[b]]
        PROVE  Allowed(r)
    <3>1. CASE r = Of(b)
      <4>1. last'[r] = stamp[b] /\ stamp[b] \in Int
        BY <1>1, <2>2, <3>1, TimeAssumption DEF IInv, TypeOK, Dated
      <4>2. last[r] # Never => last[r] \in Int
        BY <1>1, TimeAssumption DEF IInv, TypeOK
      <4>3. b \in rivals[r] \/ last[r] = Never \/ stamp[b] >= last[r]
        BY <1>1, <2>2, <3>1 DEF IInv, Dated
      <4> QED
        BY <2>2, <3>1, <4>1, <4>2, <4>3
    <3>2. CASE r # Of(b)
      BY <1>1, <2>2, <3>2 DEF IInv, TypeOK
    <3> QED
      BY <3>1, <3>2
  <2> QED
    BY <1>1, <2>1, <2>2, LastWriters DEF IInv
<1>2. IInv /\ [Next]_vars => [\A r \in Routers : Allowed(r)]_vars
  BY <1>1
<1> QED
  BY <1>2, Inductive, PTL DEF SeenGoesBackByOverlapOnly, Spec
=============================================================================
