---------------------------- MODULE HeartbeatProofs ----------------------------
(* Proofs about Heartbeat, for any readings that meet its assumptions.     *)
EXTENDS Heartbeat, TLAPS

-----------------------------------------------------------------------------
(* The uptime.                                                             *)

\* Weeks, days, hours, minutes and seconds make up what was counted.
LEMMA UnitsAddUp ==
    ASSUME NEW n \in Nat
    PROVE  n = (n \div 604800) * 604800 + ((n % 604800) \div 86400) * 86400
               + ((n % 86400) \div 3600) * 3600 + ((n % 3600) \div 60) * 60 + (n % 60)
<1>1. n = (n \div 604800) * 604800 + (n % 604800)
  BY SMT
<1>2. n % 604800 = ((n % 604800) \div 86400) * 86400 + (n % 86400)
  BY SMT
<1>3. n % 86400 = ((n % 86400) \div 3600) * 3600 + (n % 3600)
  BY SMT
<1>4. n % 3600 = ((n % 3600) \div 60) * 60 + (n % 60)
  BY SMT
<1> QED
  BY <1>1, <1>2, <1>3, <1>4, SMT

\* influx.py:44-73: an uptime is read back as what RouterOS printed, for any
\* number of seconds and whichever units are left out.
THEOREM UptimeIsReadBack ==
    ASSUME NEW n \in Nat
    PROVE  Parsed(Formatted(n)) = n /\ DOMAIN Formatted(n) # {}
<1> DEFINE count == [w |-> n \div 604800, d |-> (n % 604800) \div 86400,
                     h |-> (n % 86400) \div 3600, m |-> (n % 3600) \div 60, s |-> n % 60]
           units == {"w", "d", "h", "m", "s"}
           printed == {u \in units : count[u] > 0 \/ (n = 0 /\ u = "s")}
           Of(u) == IF u \in DOMAIN Formatted(n) THEN Formatted(n)[u] * UnitSeconds[u] ELSE 0
<1>1. DOMAIN count = units /\ \A u \in units : count[u] \in Nat
  OBVIOUS
<1>2. DOMAIN Formatted(n) = printed /\ \A u \in printed : Formatted(n)[u] = count[u]
  BY <1>1 DEF Formatted
<1>3. \A u \in units : u \notin printed => count[u] = 0
  BY <1>1
<1>4. /\ Of("w") = count.w * 604800
      /\ Of("d") = count.d * 86400
      /\ Of("h") = count.h * 3600
      /\ Of("m") = count.m * 60
      /\ Of("s") = count.s
  <2> HIDE DEF count
  <2> QED
    BY <1>1, <1>2, <1>3, SMT DEF UnitSeconds
<1>5. Parsed(Formatted(n)) = Of("w") + Of("d") + Of("h") + Of("m") + Of("s")
  BY DEF Parsed
<1>6. Parsed(Formatted(n)) = n
  <2>1. /\ count.w = n \div 604800 /\ count.d = (n % 604800) \div 86400
        /\ count.h = (n % 86400) \div 3600 /\ count.m = (n % 3600) \div 60
        /\ count.s = n % 60
    BY SMT
  <2> HIDE DEF count, Of
  <2>2. /\ Of("w") = (n \div 604800) * 604800
        /\ Of("d") = ((n % 604800) \div 86400) * 86400
        /\ Of("h") = ((n % 86400) \div 3600) * 3600
        /\ Of("m") = ((n % 3600) \div 60) * 60
        /\ Of("s") = n % 60
    BY <1>4, <2>1, SMT
  <2> QED
    BY <1>5, <2>2, UnitsAddUp, SMT
<1>7. printed # {}
  <2>1. CASE \A u \in units : u \notin printed
    <3>1. count.w = 0 /\ count.d = 0 /\ count.h = 0 /\ count.m = 0 /\ count.s = 0
      BY <2>1, <1>3
    <3>2. n = 0
      BY <3>1, UnitsAddUp, SMT
    <3> QED
      BY <3>2, <2>1
  <2> QED
    BY <2>1
<1> HIDE DEF printed, count
<1> QED
  BY <1>2, <1>6, <1>7

-----------------------------------------------------------------------------
(* The object.                                                             *)

\* What the first script says.
LEMMA FirstObject ==
    ASSUME NEW r \in Readings
    PROVE  LET b == Object("phase1", r)
           IN  /\ DOMAIN b = {"identity", "wifi_stack", "uptime"}
               /\ b.identity = Identified(r).identity
               /\ b.wifi_stack = r.stack
               /\ b.uptime = Formatted(r.uptime)
BY DEF Object

KindsOf(r) == {"ethernet", r.stack}

LEMMA ArraysDiffer ==
    /\ \A kind \in Kinds :
          Array[kind] \notin Identity \cup {"wifi_stack", "system", "uptime"}
    /\ \A k, l \in Kinds : Array[k] = Array[l] => k = l
    /\ Array["ethernet"] = "ethernet"
BY DEF Array, Kinds, Identity

Interfaces(kind, r) == IF kind = "ethernet" THEN r.ethernet ELSE r.radios
Entries(kind, r) == {Entry(kind, x) : x \in Interfaces(kind, r)}

\* What the later ones say.
LEMMA LaterObject ==
    ASSUME NEW r \in Readings, NEW s \in Generations, s # "phase1"
    PROVE  LET b == Object(s, r)
           IN  /\ DOMAIN b = Identity \cup {"wifi_stack", "system"}
                             \cup (IF s = "chunkB" THEN {Array[kind] : kind \in KindsOf(r)}
                                                   ELSE {})
               /\ \A f \in Identity : b[f] = Identified(r)[f]
               /\ b.wifi_stack = r.stack
               /\ b.system = SystemOf(r)
               /\ s = "chunkB" =>
                     \A kind \in KindsOf(r) : b[Array[kind]] = Entries(kind, r)
<1>1. r.stack \in {"wireless", "wifi"}
  BY ReadingsAssumption
<1> DEFINE id     == Identified(r)
           radios == {Entry(r.stack, x) : x \in r.radios}
           part   == [identity |-> id.identity, serial |-> id.serial, mac |-> id.mac,
                      board |-> id.board, ros_version |-> id.ros_version,
                      wifi_stack |-> r.stack, system |-> SystemOf(r),
                      ethernet |-> {Entry("ethernet", x) : x \in r.ethernet},
                      wireless_interfaces |-> radios, wifi_interfaces |-> radios]
           fields == Identity \cup {"wifi_stack", "system"}
                     \cup (IF s = "chunkB" THEN {"ethernet", Array[r.stack]} ELSE {})
<1>2. Object(s, r) = [f \in fields |-> part[f]]
  BY DEF Object
<1>3. fields = Identity \cup {"wifi_stack", "system"}
               \cup (IF s = "chunkB" THEN {Array[kind] : kind \in KindsOf(r)} ELSE {})
  BY ArraysDiffer DEF KindsOf
<1>4. \A f \in Identity : part[f] = Identified(r)[f]
  BY DEF Identity
<1>5. part["wifi_stack"] = r.stack /\ part["system"] = SystemOf(r)
  OBVIOUS
<1>6. \A kind \in KindsOf(r) : part[Array[kind]] = Entries(kind, r)
  BY <1>1, SMT DEF KindsOf, Entries, Interfaces, Array
<1> HIDE DEF fields, part
<1>7. Identity \cup {"wifi_stack", "system"} \subseteq fields
  BY <1>3
<1>8. s = "chunkB" => \A kind \in KindsOf(r) : Array[kind] \in fields
  BY <1>3
<1> QED
  BY <1>2, <1>3, <1>4, <1>5, <1>6, <1>7, <1>8

LEMMA SystemPart ==
    ASSUME NEW r \in Readings
    PROVE  LET sys == SystemOf(r)
           IN  /\ DOMAIN sys = DOMAIN r.system \cup {"uptime"}
               /\ Has(sys, Gauges) = DOMAIN r.system
               /\ \A f \in DOMAIN r.system : sys[f] = r.system[f]
               /\ sys.uptime = Formatted(r.uptime)
<1>1. DOMAIN r.system \subseteq Gauges /\ "uptime" \notin Gauges
  BY ReadingsAssumption DEF Gauges
<1> QED
  BY <1>1 DEF SystemOf, Has

\* What the assumptions say of an interface.
LEMMA InterfaceIs ==
    ASSUME NEW r \in Readings, NEW kind \in KindsOf(r), NEW x \in Interfaces(kind, r)
    PROVE  /\ kind \in Kinds /\ (kind = "ethernet" \/ kind = r.stack)
           /\ "name" \in DOMAIN x /\ x["name"] \in Text /\ x["name"] # Empty
           /\ Flag(kind) \in DOMAIN x \/ (kind = r.stack /\ Flag(kind) = "disabled")
           /\ Fits(kind, x)
<1>1. r.stack \in {"wireless", "wifi"}
  BY ReadingsAssumption
<1>2. CASE kind = "ethernet"
  <2>1. x \in r.ethernet
    BY <1>2 DEF Interfaces
  <2>2. "running" \in DOMAIN x /\ "name" \in DOMAIN x /\ x["name"] \in Text \ {Empty}
    BY <2>1, ReadingsAssumption
  <2>3. Fits("ethernet", x)
    BY <2>1, FitsAssumption
  <2> QED
    BY <1>2, <2>2, <2>3 DEF Kinds, Flag
<1>3. CASE kind # "ethernet"
  <2>1. x \in r.radios /\ kind = r.stack
    BY <1>3 DEF Interfaces, KindsOf
  <2>2. "name" \in DOMAIN x /\ x["name"] \in Text \ {Empty}
    BY <2>1, ReadingsAssumption
  <2>3. Fits(kind, x)
    BY <2>1, FitsAssumption
  <2> QED
    BY <1>1, <1>3, <2>1, <2>2, <2>3 DEF Kinds, Flag
<1> QED
  BY <1>2, <1>3

\* The fields of an interface are of four sorts.
LEMMA FieldsDiffer ==
    ASSUME NEW kind \in Kinds
    PROVE  /\ {"name", Flag(kind)} \cap Ints(kind) = {}
           /\ {"name", Flag(kind)} \cap Texts[kind] = {}
           /\ Ints(kind) \cap Texts[kind] = {}
           /\ Flag(kind) # "name"
           /\ Texts[kind] \cup {"name"} \subseteq Quotes
           /\ (Ints(kind) \cup {Flag(kind)}) \cap Quotes = {}
           /\ "mac" \notin Texts[kind] \cup {"name"}
BY DEF Kinds, Flag, Ints, Counters, Texts, Quotes, Identity

\* An entry has what was read of the interface, as JSON reads it, and a flag.
IsEntry(e, kind, x) ==
    /\ DOMAIN e = {"name", Flag(kind)} \cup Has(x, Ints(kind)) \cup Filled(x, Texts[kind])
    /\ \A f \in {"name"} \cup Filled(x, Texts[kind]) :
          f \in DOMAIN x /\ x[f] \in Text \ {Empty} /\ e[f] = Decoded[x[f]]
    /\ \A f \in Has(x, Ints(kind)) : f \in DOMAIN x /\ e[f] = x[f]
    /\ e[Flag(kind)] = IF Flag(kind) \in DOMAIN x THEN x[Flag(kind)] ELSE TRUE

LEMMA EntryPart ==
    ASSUME NEW r \in Readings, NEW kind \in KindsOf(r), NEW x \in Interfaces(kind, r)
    PROVE  IsEntry(Entry(kind, x), kind, x)
<1> DEFINE e == Entry(kind, x)
<1>1. kind \in Kinds /\ "name" \in DOMAIN x /\ x["name"] \in Text \ {Empty} /\ Fits(kind, x)
  BY InterfaceIs
<1>2. /\ DOMAIN e = {"name", Flag(kind)} \cup Has(x, Ints(kind)) \cup Filled(x, Texts[kind])
      /\ \A f \in DOMAIN e : e[f] = IF f \in DOMAIN x THEN Read(f, x[f]) ELSE TRUE
  BY DEF Entry
<1> HIDE DEF e
<1>3. ASSUME NEW f \in {"name"} \cup Filled(x, Texts[kind])
      PROVE  f \in DOMAIN x /\ x[f] \in Text \ {Empty} /\ e[f] = Decoded[x[f]]
  <2>1. f \in DOMAIN x /\ x[f] \in Text \ {Empty}
    BY <1>1 DEF Filled, Has, Fits
  <2>2. f \in Quotes
    BY <1>1, FieldsDiffer DEF Filled, Has
  <2> QED
    BY <1>2, <2>1, <2>2 DEF Read
<1>4. ASSUME NEW f \in Has(x, Ints(kind))
      PROVE  f \in DOMAIN x /\ e[f] = x[f]
  BY <1>1, <1>2, FieldsDiffer DEF Read, Has
<1>5. e[Flag(kind)] = IF Flag(kind) \in DOMAIN x THEN x[Flag(kind)] ELSE TRUE
  BY <1>1, <1>2, FieldsDiffer DEF Read
<1> QED
  BY <1>2, <1>3, <1>4, <1>5 DEF e, IsEntry

-----------------------------------------------------------------------------
(* The points.                                                             *)

LEMMA SystemPointHas ==
    ASSUME NEW r \in Readings, NEW s \in Generations
    PROVE  LET p == SystemPoint(Object(s, r))
           IN  /\ p.series = <<"system">>
               /\ DOMAIN p.fields = {"uptime_sec"}
                                    \cup (IF s = "phase1" THEN {} ELSE DOMAIN r.system)
               /\ p.fields["uptime_sec"] = r.uptime
               /\ s # "phase1" =>
                     \A f \in DOMAIN r.system : p.fields[f] = r.system[f]
<1> DEFINE b   == Object(s, r)
           sys == IF "system" \in DOMAIN b THEN Has(b.system, Gauges) ELSE {}
           p   == SystemPoint(b)
<1>1. /\ p.series = <<"system">>
      /\ p.fields = [f \in sys \cup {"uptime_sec"} |->
                        IF f = "uptime_sec" THEN Parsed(UptimeOf(b)) ELSE b.system[f]]
  BY DEF SystemPoint
<1>2. r.uptime \in Nat /\ "uptime_sec" \notin DOMAIN r.system
  BY ReadingsAssumption DEF Gauges
<1>3. CASE s = "phase1"
  <2>1. DOMAIN b = {"identity", "wifi_stack", "uptime"} /\ b.uptime = Formatted(r.uptime)
    BY <1>3, FirstObject
  <2>2. sys = {} /\ UptimeOf(b) = Formatted(r.uptime)
    BY <2>1 DEF UptimeOf
  <2> QED
    BY <1>1, <1>2, <1>3, <2>2, UptimeIsReadBack
<1>4. CASE s # "phase1"
  <2>1. "system" \in DOMAIN b /\ b.system = SystemOf(r)
    BY <1>4, LaterObject
  <2>2. /\ sys = DOMAIN r.system
        /\ UptimeOf(b) = Formatted(r.uptime)
        /\ \A f \in DOMAIN r.system : b.system[f] = r.system[f]
    BY <2>1, SystemPart DEF UptimeOf
  <2> QED
    BY <1>1, <1>2, <1>4, <2>2, UptimeIsReadBack
<1> QED
  BY <1>3, <1>4

PointOf(kind, e) ==
    [series |-> <<kind, e.name>>, fields |-> [f \in InterfaceFields(kind, e) |-> e[f]]]

LEMMA InterfacePointsAre ==
    ASSUME NEW r \in Readings, NEW s \in Generations, NEW kind \in Kinds
    PROVE  InterfacePoints(kind, Object(s, r)) =
               IF s = "chunkB" /\ kind \in KindsOf(r)
               THEN {PointOf(kind, e) : e \in
                        {x \in Entries(kind, r) :
                            x.name # Empty /\ InterfaceFields(kind, x) # {}}}
               ELSE {}
<1> DEFINE b == Object(s, r)
           entries == UNION {b[f] : f \in Has(b, {Array[kind]})}
<1>1. entries = IF s = "chunkB" /\ kind \in KindsOf(r) THEN Entries(kind, r) ELSE {}
  <2>1. CASE s = "phase1"
    <3>1. Array[kind] \notin DOMAIN b
      BY <2>1, FirstObject, ArraysDiffer DEF Identity
    <3> QED
      BY <2>1, <3>1 DEF Has
  <2>2. CASE s # "phase1"
    <3>1. KindsOf(r) \subseteq Kinds
      BY ReadingsAssumption DEF KindsOf, Kinds
    <3>2. Array[kind] \in DOMAIN b <=> s = "chunkB" /\ kind \in KindsOf(r)
      <4>1. Array[kind] \notin Identity \cup {"wifi_stack", "system"}
        BY ArraysDiffer
      <4>2. DOMAIN b = Identity \cup {"wifi_stack", "system"}
                       \cup (IF s = "chunkB" THEN {Array[k] : k \in KindsOf(r)} ELSE {})
        BY <2>2, LaterObject
      <4>3. Array[kind] \in {Array[k] : k \in KindsOf(r)} <=> kind \in KindsOf(r)
        BY <3>1, ArraysDiffer
      <4> QED
        BY <4>1, <4>2, <4>3
    <3>3. s = "chunkB" /\ kind \in KindsOf(r) => b[Array[kind]] = Entries(kind, r)
      BY <2>2, LaterObject
    <3> QED
      BY <3>2, <3>3 DEF Has
  <2> QED
    BY <2>1, <2>2
<1>2. InterfacePoints(kind, b) =
        {PointOf(kind, e) : e \in {x \in entries :
            x.name # Empty /\ InterfaceFields(kind, x) # {}}}
  BY DEF InterfacePoints, PointOf
<1> QED
  BY <1>1, <1>2

ToldOf(kind, x) == Has(x, Ints(kind) \cup {Flag(kind)}) \cup Filled(x, Texts[kind])

\* What is stored of an interface is what was read of it, and its flag in any case.
IsTold(e, kind, x) ==
    /\ InterfaceFields(kind, e) = ToldOf(kind, x) \cup {Flag(kind)}
    /\ \A f \in ToldOf(kind, x) : e[f] = Read(f, x[f])
    /\ Flag(kind) \in ToldOf(kind, x) <=> Flag(kind) \in DOMAIN x
    /\ Flag(kind) \notin DOMAIN x => e[Flag(kind)] = TRUE
    /\ e["name"] = Decoded[x["name"]] /\ e["name"] # Empty

LEMMA EntryFields ==
    ASSUME NEW r \in Readings, NEW kind \in KindsOf(r), NEW x \in Interfaces(kind, r)
    PROVE  IsTold(Entry(kind, x), kind, x)
<1> DEFINE e    == Entry(kind, x)
           told == ToldOf(kind, x)
<1>1. /\ kind \in Kinds /\ {"name", Flag(kind)} \cap Ints(kind) = {}
      /\ {"name", Flag(kind)} \cap Texts[kind] = {} /\ Ints(kind) \cap Texts[kind] = {}
      /\ Texts[kind] \cup {"name"} \subseteq Quotes
      /\ (Ints(kind) \cup {Flag(kind)}) \cap Quotes = {}
  BY InterfaceIs, FieldsDiffer
<1>2. /\ DOMAIN e = {"name", Flag(kind)} \cup Has(x, Ints(kind)) \cup Filled(x, Texts[kind])
      /\ \A f \in {"name"} \cup Filled(x, Texts[kind]) :
            f \in DOMAIN x /\ x[f] \in Text \ {Empty} /\ e[f] = Decoded[x[f]]
      /\ \A f \in Has(x, Ints(kind)) : f \in DOMAIN x /\ e[f] = x[f]
      /\ e[Flag(kind)] = IF Flag(kind) \in DOMAIN x THEN x[Flag(kind)] ELSE TRUE
  BY EntryPart DEF IsEntry
<1> HIDE DEF e
<1>3. \A f \in {"name"} \cup Filled(x, Texts[kind]) : e[f] # Empty
  BY <1>2, TextAssumption
<1>4. ASSUME NEW f \in told
      PROVE  e[f] = Read(f, x[f])
  <2>1. CASE f \in Filled(x, Texts[kind])
    BY <1>1, <1>2, <2>1 DEF Read, Filled, Has
  <2>2. CASE f \in Has(x, Ints(kind))
    BY <1>1, <1>2, <2>2 DEF Read, Has
  <2>3. CASE f = Flag(kind) /\ f \in DOMAIN x
    BY <1>1, <1>2, <2>3 DEF Read
  <2> QED
    BY <2>1, <2>2, <2>3 DEF ToldOf, Has
<1>5. InterfaceFields(kind, e) = told \cup {Flag(kind)}
  <2>1. Has(e, Ints(kind) \cup {Flag(kind)}) = {Flag(kind)} \cup Has(x, Ints(kind))
    BY <1>1, <1>2 DEF Has, Filled
  <2>2. Filled(e, Texts[kind]) = Filled(x, Texts[kind])
    <3>1. Has(e, Texts[kind]) = Filled(x, Texts[kind])
      BY <1>1, <1>2 DEF Has, Filled
    <3> QED
      BY <1>3, <3>1 DEF Filled
  <2> QED
    BY <2>1, <2>2 DEF InterfaceFields, ToldOf, Has
<1>6. Flag(kind) \in told <=> Flag(kind) \in DOMAIN x
  BY <1>1 DEF ToldOf, Has, Filled
<1>7. Flag(kind) \notin DOMAIN x => e[Flag(kind)] = TRUE
  BY <1>2
<1> QED
  BY <1>2, <1>3, <1>4, <1>5, <1>6, <1>7 DEF e, IsTold

-----------------------------------------------------------------------------
(* What is told.                                                           *)

Stored == by \in Generations /\ reading \in Readings /\ batch = Points(Object(by, reading))

LEMMA MeasuredOf ==
    ASSUME Stored, by = "chunkB", NEW kind \in KindsOf(reading),
           NEW x \in Interfaces(kind, reading)
    PROVE  OfInterface(kind, x) \subseteq Measured
<1>1. CASE kind = "ethernet"
  BY <1>1 DEF Interfaces, Measured
<1>2. CASE kind # "ethernet"
  BY <1>2 DEF Interfaces, KindsOf, Measured
<1> QED
  BY <1>1, <1>2

LEMMA ToldIsMeasured ==
    ASSUME Stored
    PROVE  Told \subseteq Measured \cup Assumed
<1> DEFINE b == Object(by, reading)
<1>1. SUFFICES ASSUME NEW p \in batch, NEW f \in DOMAIN p.fields
               PROVE  <<p.series, f, p.fields[f]>> \in Measured \cup Assumed
  BY DEF Told
<1>2. CASE p = SystemPoint(b)
  <2>1. /\ p.series = <<"system">>
        /\ f = "uptime_sec" \/ (by # "phase1" /\ f \in DOMAIN reading.system)
        /\ f = "uptime_sec" => p.fields[f] = reading.uptime
        /\ by # "phase1" /\ f \in DOMAIN reading.system => p.fields[f] = reading.system[f]
    BY <1>2, SystemPointHas DEF Stored
  <2> QED
    BY <2>1 DEF Measured
<1>3. ASSUME NEW kind \in Kinds, p \in InterfacePoints(kind, b)
      PROVE  <<p.series, f, p.fields[f]>> \in Measured \cup Assumed
  <2>1. by = "chunkB" /\ kind \in KindsOf(reading)
    BY <1>3, InterfacePointsAre DEF Stored
  <2>2. PICK e \in Entries(kind, reading) : p = PointOf(kind, e)
    BY <1>3, <2>1, InterfacePointsAre DEF Stored
  <2>3. PICK x \in Interfaces(kind, reading) : e = Entry(kind, x)
    BY DEF Entries
  <2>4. /\ p.series = <<kind, e["name"]>>
        /\ f \in InterfaceFields(kind, e)
        /\ p.fields[f] = e[f]
    BY <2>2 DEF PointOf
  <2>5. /\ InterfaceFields(kind, e) = ToldOf(kind, x) \cup {Flag(kind)}
        /\ \A g \in ToldOf(kind, x) : e[g] = Read(g, x[g])
        /\ Flag(kind) \in ToldOf(kind, x) <=> Flag(kind) \in DOMAIN x
        /\ Flag(kind) \notin DOMAIN x => e[Flag(kind)] = TRUE
        /\ e["name"] = Decoded[x["name"]]
    <3>1. reading \in Readings /\ kind \in KindsOf(reading)
      BY <2>1 DEF Stored
    <3>2. IsTold(e, kind, x)
      BY <2>3, <3>1, EntryFields
    <3> QED
      BY <3>2 DEF IsTold
  <2>6. CASE f \in ToldOf(kind, x)
    <3>1. <<p.series, f, p.fields[f]>> = <<<<kind, Decoded[x.name]>>, f, Read(f, x[f])>>
      BY <2>4, <2>5, <2>6
    <3>2. <<p.series, f, p.fields[f]>> \in OfInterface(kind, x)
      BY <2>6, <3>1 DEF OfInterface, ToldOf
    <3> QED
      BY <2>1, <3>2, MeasuredOf
  <2>7. CASE f \notin ToldOf(kind, x)
    <3>1. f = Flag(kind) /\ Flag(kind) \notin DOMAIN x /\ e[f] = TRUE
      BY <2>4, <2>5, <2>7
    <3>2. kind = reading.stack /\ Flag(kind) = "disabled"
      BY <2>1, <3>1, InterfaceIs DEF Stored
    <3>3. x \in reading.radios
      BY <3>2, ReadingsAssumption DEF Interfaces, Stored
    <3>4. <<p.series, f, p.fields[f]>>
            = <<<<reading.stack, Decoded[x.name]>>, "disabled", TRUE>>
      BY <2>4, <2>5, <3>1, <3>2
    <3>5. <<<<reading.stack, Decoded[x.name]>>, "disabled", TRUE>> \in Assumed
      BY <3>1, <3>2, <3>3, Zenon DEF Assumed
    <3> QED
      BY <3>4, <3>5
  <2> QED
    BY <2>6, <2>7
<1> QED
  BY <1>2, <1>3 DEF Stored, Points

LEMMA MeasuredIsTold ==
    ASSUME Stored
    PROVE  Measured \subseteq Told
<1> DEFINE b == Object(by, reading)
<1>1. ASSUME NEW p \in Points(b), NEW f \in DOMAIN p.fields
      PROVE  <<p.series, f, p.fields[f]>> \in Told
  BY <1>1 DEF Told, Stored
<1>2. /\ <<<<"system">>, "uptime_sec", reading.uptime>> \in Told
      /\ by # "phase1" =>
            \A f \in DOMAIN reading.system : <<<<"system">>, f, reading.system[f]>> \in Told
  <2>1. SystemPoint(b) \in Points(b)
    BY DEF Points
  <2> QED
    BY <1>1, <2>1, SystemPointHas DEF Stored
<1>3. ASSUME by = "chunkB", NEW kind \in KindsOf(reading),
             NEW x \in Interfaces(kind, reading)
      PROVE  OfInterface(kind, x) \subseteq Told
  <2> DEFINE e == Entry(kind, x)
  <2>1. /\ InterfaceFields(kind, e) = ToldOf(kind, x) \cup {Flag(kind)}
        /\ \A f \in ToldOf(kind, x) : e[f] = Read(f, x[f])
        /\ e["name"] = Decoded[x["name"]] /\ e["name"] # Empty
    <3>1. reading \in Readings
      BY DEF Stored
    <3>2. IsTold(e, kind, x)
      BY <3>1, EntryFields
    <3> QED
      BY <3>2 DEF IsTold
  <2>2. kind \in Kinds /\ e \in Entries(kind, reading)
    BY InterfaceIs DEF Entries, Stored
  <2> HIDE DEF e
  <2>3. PointOf(kind, e) \in Points(b)
    BY <1>3, <2>1, <2>2, InterfacePointsAre DEF Points, Stored
  <2>4. ASSUME NEW f \in ToldOf(kind, x)
        PROVE  <<<<kind, Decoded[x.name]>>, f, Read(f, x[f])>> \in Told
    <3>1. /\ f \in DOMAIN PointOf(kind, e).fields
          /\ PointOf(kind, e).series = <<kind, Decoded[x.name]>>
          /\ PointOf(kind, e).fields[f] = Read(f, x[f])
      BY <2>1, <2>4 DEF PointOf
    <3> QED
      BY <1>1, <2>3, <3>1
  <2> QED
    BY <2>4 DEF OfInterface, ToldOf
<1>4. ASSUME by = "chunkB"
      PROVE  /\ \A x \in reading.ethernet : OfInterface("ethernet", x) \subseteq Told
             /\ \A x \in reading.radios : OfInterface(reading.stack, x) \subseteq Told
  <2>1. reading.stack # "ethernet"
    BY ReadingsAssumption DEF Stored
  <2> QED
    BY <1>3, <1>4, <2>1 DEF KindsOf, Interfaces
<1> QED
  BY <1>2, <1>4 DEF Measured, Stored

-----------------------------------------------------------------------------
(* The schema.                                                             *)

Fine(f, t) == Decoded[t] # Broken /\ (f # "mac" => Length[Decoded[t]] \in Lengths[f])

\* What was not read is sent empty, and nothing empty passes.
Passes(f, t) ==
    t # Broken /\ (f = "mac" => t \in Macs) /\ (f # "mac" => Length[t] \in Lengths[f])

LEMMA IdentifiedPasses ==
    ASSUME NEW r \in Readings, NEW f \in Identity
    PROVE  Passes(f, Identified(r)[f]) <=> f \in DOMAIN r.identity /\ Fine(f, r.identity[f])
<1>1. Identified(r)[f] = Decoded[IF f \in DOMAIN r.identity THEN r.identity[f] ELSE Empty]
  BY DEF Identified, Read, Quotes
<1>2. CASE f \notin DOMAIN r.identity
  <2>1. Identified(r)[f] = Empty
    BY <1>1, <1>2, TextAssumption
  <2>2. Length[Empty] = 0 /\ Empty \notin Macs
    BY TextAssumption
  <2>3. f # "mac" => 0 \notin Lengths[f]
    BY DEF Identity, Lengths
  <2> QED
    BY <1>2, <2>1, <2>2, <2>3 DEF Passes
<1>3. CASE f \in DOMAIN r.identity
  <2>1. Identified(r)[f] = Decoded[r.identity[f]]
    BY <1>1, <1>3
  <2>2. f = "mac" => Decoded[r.identity[f]] \in Macs
    BY <1>3, FitsAssumption, TextAssumption DEF Has
  <2> QED
    BY <1>3, <2>1, <2>2 DEF Passes, Fine
<1> QED
  BY <1>2, <1>3

\* The sensors are all that can be wrong with the system block.
LEMMA SystemIsValid ==
    ASSUME NEW r \in Readings
    PROVE  Clean(SystemOf(r), Gauges) /\ ValidSystem(SystemOf(r)) <=> Plausible(r.system)
<1> DEFINE sys == SystemOf(r)
<1>1. /\ Has(sys, Gauges) = DOMAIN r.system
      /\ \A f \in DOMAIN r.system : sys[f] = r.system[f]
      /\ Has(sys, {"uptime"}) = {"uptime"}
      /\ DOMAIN sys["uptime"] # {}
  BY SystemPart, UptimeIsReadBack, ReadingsAssumption DEF Has
<1>2. /\ ValidSystem(sys) <=> \A f \in DOMAIN r.system : InRange(f, r.system[f])
      /\ Clean(sys, Gauges) <=> \A f \in DOMAIN r.system : r.system[f] # Broken
  BY <1>1 DEF ValidSystem, Clean
<1>3. \A f \in DOMAIN r.system \cap {"free_memory_bytes", "total_memory_bytes"} :
         r.system[f] \in Nat
  BY FitsAssumption DEF Has
<1>4. \A n : /\ InRange("cpu_load_pct", n) <=> n \in 0 .. 100
             /\ InRange("temperature_c", n) <=> n \in -20 .. 120
             /\ InRange("voltage_v", n) <=> n \in 0 .. 60
             /\ InRange("free_memory_bytes", n) <=> n >= 0
             /\ InRange("total_memory_bytes", n) <=> n >= 0
  BY DEF InRange, Ranges
<1>5. DOMAIN r.system \subseteq Gauges
  BY ReadingsAssumption
<1>6. ASSUME NEW f \in DOMAIN r.system, Plausible(r.system)
      PROVE  InRange(f, r.system[f]) /\ r.system[f] # Broken
  BY <1>3, <1>4, <1>5, <1>6, BrokenAssumption DEF Plausible, Gauges
<1>7. (\A f \in DOMAIN r.system : InRange(f, r.system[f])) => Plausible(r.system)
  BY <1>4 DEF Plausible
<1> QED
  BY <1>2, <1>6, <1>7

EntryFine(kind, x) ==
    /\ \A f \in {"name"} \cup Filled(x, Texts[kind]) : Fine(f, x[f])
    /\ \A f \in Has(x, Ints(kind)) : x[f] # Broken

\* An entry passes if its texts do and its frequency is a number.
LEMMA EntryPasses ==
    ASSUME NEW r \in Readings, NEW kind \in KindsOf(r), NEW x \in Interfaces(kind, r)
    PROVE  LET e == Entry(kind, x)
           IN  Clean(e, DOMAIN e) /\ ValidEntry(kind, e) <=> EntryFine(kind, x)
<1> DEFINE e     == Entry(kind, x)
           texts == {"name"} \cup Filled(x, Texts[kind])
<1>1. /\ kind \in Kinds /\ Fits(kind, x)
  BY InterfaceIs
<1>2. /\ {"name", Flag(kind)} \cap Ints(kind) = {}
      /\ {"name", Flag(kind)} \cap Texts[kind] = {} /\ Ints(kind) \cap Texts[kind] = {}
      /\ "mac" \notin Texts[kind] \cup {"name"} /\ Flag(kind) # "name"
  BY <1>1, FieldsDiffer
<1>p. IsEntry(e, kind, x)
  BY EntryPart
<1> HIDE DEF e
<1>3. /\ DOMAIN e = {"name", Flag(kind)} \cup Has(x, Ints(kind)) \cup Filled(x, Texts[kind])
      /\ \A f \in texts : e[f] = Decoded[x[f]]
      /\ \A f \in Has(x, Ints(kind)) : f \in DOMAIN x /\ e[f] = x[f]
      /\ Flag(kind) \in DOMAIN x => e[Flag(kind)] = x[Flag(kind)]
      /\ Flag(kind) \notin DOMAIN x => e[Flag(kind)] = TRUE
  BY <1>p DEF IsEntry
<1>4. /\ Has(e, Texts[kind] \cup {"name"}) = texts
      /\ Has(e, Ints(kind)) = Has(x, Ints(kind))
  BY <1>2, <1>3 DEF Has, Filled
<1>5. e[Flag(kind)] # Broken
  <2>1. CASE Flag(kind) \in DOMAIN x
    <3>1. Flag(kind) \in Has(x, {Flag(kind)})
      BY <2>1 DEF Has
    <3>2. x[Flag(kind)] \in BOOLEAN
      BY <1>1, <3>1, Zenon DEF Fits
    <3> QED
      BY <1>3, <2>1, <3>2, BrokenAssumption, Zenon
  <2>2. CASE Flag(kind) \notin DOMAIN x
    <3>1. e[Flag(kind)] = TRUE
      BY <1>3, <2>2, Zenon
    <3>2. TRUE \in BOOLEAN
      OBVIOUS
    <3> QED
      BY <3>1, <3>2, BrokenAssumption, Zenon
  <2> QED
    BY <2>1, <2>2
<1>6. ASSUME NEW f \in Has(x, Ints(kind)), x[f] # Broken
      PROVE  InRange(f, x[f])
  <2>1. CASE f \in Counters
    <3>1. x[f] \in Nat
      BY <1>1, <1>3, <2>1 DEF Fits, Has
    <3> QED
      BY <2>1, <3>1 DEF InRange, Ranges, Counters
  <2>2. CASE f = "frequency"
    <3>1. x[f] \in 0 .. 8000
      BY <1>1, <1>3, <1>6, <2>2 DEF Fits, Has, Ranges
    <3> QED
      BY <2>2, <3>1 DEF InRange, Ranges
  <2> QED
    BY <1>6, <2>1, <2>2 DEF Has, Ints
<1>7. ASSUME EntryFine(kind, x)
      PROVE  Clean(e, DOMAIN e) /\ ValidEntry(kind, e)
  <2>1. \A f \in texts : e[f] # Broken /\ Length[e[f]] \in Lengths[f]
    BY <1>2, <1>3, <1>7 DEF EntryFine, Fine, Filled, Has
  <2>2. \A f \in Has(x, Ints(kind)) : e[f] # Broken /\ InRange(f, e[f])
    BY <1>3, <1>6, <1>7 DEF EntryFine
  <2>3. Clean(e, DOMAIN e)
    BY <1>3, <1>5, <2>1, <2>2 DEF Clean, Has
  <2>4. ValidEntry(kind, e)
    BY <1>3, <1>4, <2>1, <2>2 DEF ValidEntry
  <2> QED
    BY <2>3, <2>4
<1>8. ASSUME Clean(e, DOMAIN e), ValidEntry(kind, e)
      PROVE  EntryFine(kind, x)
  <2>1. \A f \in texts : f \in DOMAIN e /\ e[f] # Broken /\ Length[e[f]] \in Lengths[f]
    BY <1>3, <1>4, <1>8 DEF Clean, ValidEntry, Has
  <2>2. \A f \in Has(x, Ints(kind)) : x[f] # Broken
    BY <1>3, <1>8 DEF Clean, Has
  <2> QED
    BY <1>3, <2>1, <2>2 DEF EntryFine, Fine
<1> QED
  BY <1>7, <1>8 DEF e

\* What Intelligible says, part by part.
LEMMA IntelligibleIs ==
    ASSUME NEW r \in Readings, NEW s \in Generations
    PROVE  Intelligible(s, r) <=>
               /\ s \notin r.cut
               /\ Fine("identity", r.identity.identity)
               /\ s # "phase1" => \A f \in DOMAIN r.identity : Fine(f, r.identity[f])
               /\ s = "chunkB" => \A kind \in KindsOf(r) :
                                     \A x \in Interfaces(kind, r) : EntryFine(kind, x)
<1> DEFINE numbers == \A x \in r.radios : \A f \in Has(x, Ints(r.stack)) : x[f] # Broken
           names   == \A x \in r.ethernet \cup r.radios : Fine("name", x.name)
           texts   == \A x \in r.radios : \A f \in Filled(x, Texts[r.stack]) : Fine(f, x[f])
<1>1. r.stack \in {"wireless", "wifi"}
  BY ReadingsAssumption
<1>2. Intelligible(s, r) <=>
        /\ s \notin r.cut
        /\ Fine("identity", r.identity.identity)
        /\ s # "phase1" => \A f \in DOMAIN r.identity : Fine(f, r.identity[f])
        /\ s = "chunkB" => names /\ texts /\ numbers
  <2>1. (\A q \in Quoted(s, r) : Fine(q[1], q[2])) <=>
           /\ Fine("identity", r.identity.identity)
           /\ s # "phase1" => \A f \in DOMAIN r.identity : Fine(f, r.identity[f])
           /\ s = "chunkB" => names /\ texts
    <3>1. ASSUME \A q \in Quoted(s, r) : Fine(q[1], q[2])
          PROVE  /\ Fine("identity", r.identity.identity)
                 /\ s # "phase1" => \A f \in DOMAIN r.identity : Fine(f, r.identity[f])
                 /\ s = "chunkB" => names /\ texts
      <4>1. \A f, t : <<f, t>> \in Quoted(s, r) => Fine(f, t)
        BY <3>1
      <4>2. Fine("identity", r.identity.identity)
        BY <4>1 DEF Quoted
      <4>3. s # "phase1" => \A f \in DOMAIN r.identity : Fine(f, r.identity[f])
        BY <4>1 DEF Quoted
      <4>4. s = "chunkB" => names
        BY <4>1 DEF Quoted
      <4>5. ASSUME s = "chunkB", NEW x \in r.radios, NEW f \in Filled(x, Texts[r.stack])
            PROVE  Fine(f, x[f])
        <5>1. <<f, x[f]>> \in Quoted(s, r)
          BY <4>5 DEF Quoted
        <5> QED
          BY <4>1, <5>1
      <4> QED
        BY <4>2, <4>3, <4>4, <4>5
    <3>2. ASSUME /\ Fine("identity", r.identity.identity)
                 /\ s # "phase1" => \A f \in DOMAIN r.identity : Fine(f, r.identity[f])
                 /\ s = "chunkB" => names /\ texts,
                 NEW q \in Quoted(s, r)
          PROVE  Fine(q[1], q[2])
      BY <3>2 DEF Quoted
    <3> QED
      BY <3>1, <3>2
  <2> QED
    BY <2>1 DEF Intelligible, Fine
<1>3. names /\ texts /\ numbers <=>
        \A kind \in KindsOf(r) : \A x \in Interfaces(kind, r) : EntryFine(kind, x)
  <2>1. ASSUME names, texts, numbers, NEW kind \in KindsOf(r), NEW x \in Interfaces(kind, r)
        PROVE  EntryFine(kind, x)
    <3>1. CASE kind = "ethernet"
      <4>1. x \in r.ethernet /\ Filled(x, Texts[kind]) = {} /\ Ints(kind) = Counters
        BY <3>1 DEF Interfaces, Filled, Has, Texts, Ints
      <4>2. \A f \in Has(x, Ints(kind)) : x[f] # Broken
        BY <4>1, FitsAssumption, BrokenAssumption DEF Fits, Has
      <4> QED
        BY <2>1, <4>1, <4>2 DEF EntryFine
    <3>2. CASE kind # "ethernet"
      <4>1. x \in r.radios /\ kind = r.stack
        BY <3>2 DEF Interfaces, KindsOf
      <4> QED
        BY <2>1, <4>1 DEF EntryFine
    <3> QED
      BY <3>1, <3>2
  <2>2. ASSUME \A kind \in KindsOf(r) : \A x \in Interfaces(kind, r) : EntryFine(kind, x)
        PROVE  names /\ texts /\ numbers
    <3>1. /\ \A x \in r.ethernet : EntryFine("ethernet", x)
          /\ \A x \in r.radios : EntryFine(r.stack, x)
      BY <1>1, <2>2 DEF KindsOf, Interfaces
    <3> QED
      BY <3>1 DEF EntryFine
  <2> QED
    BY <2>1, <2>2
<1> QED
  BY <1>2, <1>3

LEMMA ValidBody ==
    ASSUME NEW r \in Readings, NEW s \in Generations
    PROVE  /\ Valid(Body(s, r)) <=>
                 s \notin r.cut /\ WellFormed(Object(s, r)) /\ Valid(Object(s, r))
           /\ Valid(Body(s, r)) => Body(s, r) = Object(s, r)
<1>1. ~Valid(Unparsed)
  BY DEF Valid
<1> QED
  BY <1>1 DEF Body

LEMMA ObjectIsThere ==
    ASSUME NEW r \in Readings, NEW s \in Generations
    PROVE  Object(s, r) # Unparsed
<1>1. "wifi_stack" \in DOMAIN Object(s, r)
  BY FirstObject, LaterObject
<1>2. "wifi_stack" \notin DOMAIN Unparsed
  BY DEF Unparsed
<1> QED
  BY <1>1, <1>2

\* routers/telemetry.py:53-200: which heartbeats get past the schema.  All have to
\* be intelligible; that does for those of the first script, and those of a later one
\* get past exactly if the router could read its identity and its sensors are in range.
THEOREM WhatIsHeard ==
    ASSUME NEW r \in Readings, NEW s \in Generations
    PROVE  Valid(Body(s, r)) <=>
               /\ Intelligible(s, r)
               /\ s # "phase1" => Identity \subseteq DOMAIN r.identity /\ Plausible(r.system)
<1> DEFINE b == Object(s, r)
<1>1. r.stack \in {"wireless", "wifi"} /\ "identity" \in DOMAIN r.identity
      /\ DOMAIN r.identity \subseteq Identity
  BY ReadingsAssumption
<1>2. b # Unparsed
  BY ObjectIsThere
<1>3. "identity" \in Identity /\ "identity" # "mac"
  BY DEF Identity
<1>4. CASE s = "phase1"
  <2>1. /\ DOMAIN b = {"identity", "wifi_stack", "uptime"}
        /\ b["identity"] = Identified(r)["identity"]
        /\ b.wifi_stack = r.stack
        /\ b.uptime = Formatted(r.uptime)
    BY <1>4, FirstObject
  <2>2. /\ Has(b, Identity \ {"mac"}) = {"identity"} /\ Has(b, {"mac"}) = {}
        /\ Has(b, Identity) = {"identity"}
    BY <2>1 DEF Has, Identity
  <2>3. b["identity"] # Broken /\ Length[b["identity"]] \in Lengths["identity"]
          <=> Fine("identity", r.identity.identity)
    BY <1>1, <1>3, <2>1, IdentifiedPasses DEF Passes
  <2>4. DOMAIN b["uptime"] # {}
    BY <2>1, UptimeIsReadBack, ReadingsAssumption
  <2>5. Has(b, {"system"}) = {} /\ \A kind \in Kinds : Has(b, {Array[kind]}) = {}
    BY <2>1, ArraysDiffer DEF Has, Identity
  <2>6. WellFormed(b) /\ Valid(b) <=> Fine("identity", r.identity.identity)
    <3> HIDE DEF b
    <3>1. WellFormed(b) <=> b["identity"] # Broken
      BY <2>2, <2>5 DEF WellFormed, Clean
    <3>2. Valid(b) <=> Length[b["identity"]] \in Lengths["identity"]
      BY <1>1, <1>2, <2>1, <2>2, <2>4, <2>5 DEF Valid, Has
    <3> QED
      BY <2>3, <3>1, <3>2
  <2> QED
    BY <1>4, <2>6, ValidBody, IntelligibleIs
<1>5. CASE s # "phase1"
  <2>1. /\ DOMAIN b = Identity \cup {"wifi_stack", "system"}
                      \cup (IF s = "chunkB" THEN {Array[kind] : kind \in KindsOf(r)} ELSE {})
        /\ \A f \in Identity : b[f] = Identified(r)[f]
        /\ b.wifi_stack = r.stack
        /\ b["system"] = SystemOf(r)
        /\ s = "chunkB" => \A kind \in KindsOf(r) : b[Array[kind]] = Entries(kind, r)
    BY <1>5, LaterObject
  <2>2. KindsOf(r) \subseteq Kinds
    BY <1>1 DEF KindsOf, Kinds
  <2>3. /\ "uptime" \notin DOMAIN b
        /\ Has(b, {"system"}) = {"system"} /\ Has(b, Identity) = Identity
        /\ Has(b, Identity \ {"mac"}) = Identity \ {"mac"} /\ Has(b, {"mac"}) = {"mac"}
        /\ {"identity", "wifi_stack"} \subseteq DOMAIN b
    BY <2>1, <2>2, ArraysDiffer DEF Has, Identity
  <2>4. (\A f \in Identity :
            b[f] # Broken /\ (f = "mac" => b[f] \in Macs)
              /\ (f # "mac" => Length[b[f]] \in Lengths[f]))
        <=> \A f \in Identity : f \in DOMAIN r.identity /\ Fine(f, r.identity[f])
    <3>1. ASSUME NEW f \in Identity
          PROVE  Passes(f, b[f]) <=> f \in DOMAIN r.identity /\ Fine(f, r.identity[f])
      BY <2>1, IdentifiedPasses
    <3> HIDE DEF b
    <3> QED
      BY <3>1 DEF Passes
  <2>5. Clean(b["system"], Gauges) /\ ValidSystem(b["system"]) <=> Plausible(r.system)
    BY <2>1, SystemIsValid
  <2> DEFINE arrays == \A kind \in Kinds : \A f \in Has(b, {Array[kind]}) : \A e \in b[f] :
                          Clean(e, DOMAIN e) /\ ValidEntry(kind, e)
  <2>6. arrays <=> (s = "chunkB" => \A kind \in KindsOf(r) :
                                       \A x \in Interfaces(kind, r) : EntryFine(kind, x))
    <3>1. ASSUME NEW kind \in Kinds
          PROVE  Array[kind] \in DOMAIN b <=> s = "chunkB" /\ kind \in KindsOf(r)
      <4>1. Array[kind] \notin Identity \cup {"wifi_stack", "system"}
        BY ArraysDiffer
      <4>2. Array[kind] \in {Array[k] : k \in KindsOf(r)} <=> kind \in KindsOf(r)
        BY <2>2, ArraysDiffer
      <4> QED
        BY <2>1, <4>1, <4>2
    <3>2. ASSUME s = "chunkB", NEW kind \in KindsOf(r)
          PROVE  (\A e \in b[Array[kind]] : Clean(e, DOMAIN e) /\ ValidEntry(kind, e))
                 <=> \A x \in Interfaces(kind, r) : EntryFine(kind, x)
      <4>1. b[Array[kind]] = {Entry(kind, x) : x \in Interfaces(kind, r)}
        BY <2>1, <3>2 DEF Entries
      <4>2. \A x \in Interfaces(kind, r) :
               Clean(Entry(kind, x), DOMAIN Entry(kind, x)) /\ ValidEntry(kind, Entry(kind, x))
                 <=> EntryFine(kind, x)
        BY EntryPasses
      <4> HIDE DEF b
      <4> QED
        BY <4>1, <4>2
    <3> HIDE DEF b
    <3> QED
      BY <2>2, <3>1, <3>2 DEF Has
  <2>7. WellFormed(b) /\ Valid(b) <=>
          /\ \A f \in Identity : f \in DOMAIN r.identity /\ Fine(f, r.identity[f])
          /\ Plausible(r.system)
          /\ arrays
    <3> HIDE DEF b
    <3>1. WellFormed(b) <=>
            /\ \A f \in Identity : b[f] # Broken
            /\ Clean(b["system"], Gauges)
            /\ \A kind \in Kinds : \A f \in Has(b, {Array[kind]}) : \A e \in b[f] :
                  Clean(e, DOMAIN e)
      BY <2>3 DEF WellFormed, Clean
    <3>2. Valid(b) <=>
            /\ \A f \in Identity : /\ f = "mac" => b[f] \in Macs
                                   /\ f # "mac" => Length[b[f]] \in Lengths[f]
            /\ ValidSystem(b["system"])
            /\ \A kind \in Kinds : \A f \in Has(b, {Array[kind]}) : \A e \in b[f] :
                  ValidEntry(kind, e)
      <4>1. ((\A f \in Has(b, Identity \ {"mac"}) : Length[b[f]] \in Lengths[f])
               /\ (\A f \in Has(b, {"mac"}) : b[f] \in Macs))
            <=> \A f \in Identity : /\ f = "mac" => b[f] \in Macs
                                    /\ f # "mac" => Length[b[f]] \in Lengths[f]
        <5>1. "mac" \in Identity
          BY DEF Identity
        <5>2. \A f : /\ f \in Identity \ {"mac"} <=> f \in Identity /\ f # "mac"
                     /\ f \in {"mac"} <=> f \in Identity /\ f = "mac"
          BY <5>1
        <5>3. /\ Has(b, Identity \ {"mac"}) = Identity \ {"mac"}
              /\ Has(b, {"mac"}) = {"mac"}
          BY <2>3
        <5>4. ASSUME \A f \in Identity \ {"mac"} : Length[b[f]] \in Lengths[f],
                     \A f \in {"mac"} : b[f] \in Macs, NEW f \in Identity
              PROVE  (f = "mac" => b[f] \in Macs)
                       /\ (f # "mac" => Length[b[f]] \in Lengths[f])
          BY <5>2, <5>4
        <5>5. ASSUME \A f \in Identity : (f = "mac" => b[f] \in Macs)
                                         /\ (f # "mac" => Length[b[f]] \in Lengths[f])
              PROVE  /\ \A f \in Identity \ {"mac"} : Length[b[f]] \in Lengths[f]
                     /\ \A f \in {"mac"} : b[f] \in Macs
          BY <5>2, <5>5
        <5> QED
          BY <5>3, <5>4, <5>5
      <4>2. /\ \A f \in Has(b, {"uptime"}) : DOMAIN b[f] # {}
            /\ b.wifi_stack \in {"wireless", "wifi"}
        BY <1>1, <2>1, <2>3 DEF Has
      <4>3. (\A f \in Has(b, {"system"}) : ValidSystem(b[f])) <=> ValidSystem(b["system"])
        BY <2>3
      <4> QED
        BY <1>2, <2>3, <4>1, <4>2, <4>3 DEF Valid
    <3>3. arrays <=>
            /\ \A kind \in Kinds : \A f \in Has(b, {Array[kind]}) : \A e \in b[f] :
                  Clean(e, DOMAIN e)
            /\ \A kind \in Kinds : \A f \in Has(b, {Array[kind]}) : \A e \in b[f] :
                  ValidEntry(kind, e)
      OBVIOUS
    <3> HIDE DEF arrays
    <3> QED
      BY <2>4, <2>5, <3>1, <3>2, <3>3
  <2>8. (\A f \in Identity : f \in DOMAIN r.identity /\ Fine(f, r.identity[f])) <=>
          /\ Identity \subseteq DOMAIN r.identity
          /\ Fine("identity", r.identity.identity)
          /\ \A f \in DOMAIN r.identity : Fine(f, r.identity[f])
    BY <1>1, <1>3
  <2> HIDE DEF arrays, b
  <2>9. Valid(Body(s, r)) <=> s \notin r.cut /\ WellFormed(b) /\ Valid(b)
    BY ValidBody DEF b
  <2> QED
    BY <1>5, <2>6, <2>7, <2>8, <2>9, IntelligibleIs
<1> QED
  BY <1>4, <1>5

-----------------------------------------------------------------------------
(* The heartbeat.                                                          *)

\* The request is the one that the script made of the reading until it is
\* answered, the answer is what the schema says of it, and nothing is stored but
\* its points.
HeartbeatInv ==
    /\ {script, by} \subseteq Generations
    /\ reading \in Readings
    /\ pc \in {"idle", "posted", "accepted", "refused", "stored", "dropped"}
    /\ pc # "idle" => body = Body(by, reading)
    /\ pc = "refused" => ~Valid(body)
    /\ pc \in {"accepted", "stored", "dropped"} => Valid(body)
    /\ batch = IF pc = "stored" THEN Points(body) ELSE {}

LEMMA Inductive == Spec => []HeartbeatInv
<1>1. Init => HeartbeatInv
  BY DEF Init, HeartbeatInv
<1>2. HeartbeatInv /\ [Next]_vars => HeartbeatInv'
  <2> SUFFICES ASSUME HeartbeatInv, [Next]_vars
               PROVE  HeartbeatInv'
    OBVIOUS
  <2>1. CASE Push
    BY <2>1 DEF HeartbeatInv, Push, Goto
  <2>2. CASE Upgrade
    <3>1. script' \in Generations
      BY <2>2 DEF HeartbeatInv, Upgrade, Later, Generations
    <3> QED
      BY <2>2, <3>1 DEF HeartbeatInv, Upgrade
  <2>3. CASE Receive
    BY <2>3 DEF HeartbeatInv, Receive, Goto
  <2>4. CASE Write
    BY <2>4 DEF HeartbeatInv, Write, Goto
  <2>5. CASE Drop
    BY <2>5 DEF HeartbeatInv, Drop, Goto
  <2>6. CASE Again
    BY <2>6 DEF HeartbeatInv, Again, Goto
  <2>7. CASE UNCHANGED vars
    BY <2>7 DEF HeartbeatInv, vars
  <2> QED
    BY <2>1, <2>2, <2>3, <2>4, <2>5, <2>6, <2>7 DEF Next
<1> QED
  BY <1>1, <1>2, PTL DEF Spec

LEMMA StoredOrNothing ==
    ASSUME HeartbeatInv
    PROVE  /\ pc = "stored" => Stored
           /\ pc # "stored" => batch = {} /\ Told = {}
<1>1. pc = "stored" => Stored
  BY ValidBody DEF HeartbeatInv, Stored
<1>2. pc # "stored" => batch = {}
  BY DEF HeartbeatInv
<1> QED
  BY <1>1, <1>2 DEF Told

\* telemetry.py:62-82, influx.py:77-97: the uptime in InfluxDB is a number of
\* seconds, and a sensor that is stored was in range.
THEOREM TypeCorrect == Spec => []TypeOK
<1>1. HeartbeatInv => TypeOK
  <2> SUFFICES ASSUME HeartbeatInv, NEW p \in batch, p.series = <<"system">>
               PROVE  p.fields["uptime_sec"] \in Nat /\ Plausible(p.fields)
    BY DEF HeartbeatInv, TypeOK
  <2>1. /\ pc = "stored" /\ by \in Generations /\ reading \in Readings
        /\ p \in Points(Object(by, reading)) /\ Valid(Body(by, reading))
    BY ValidBody DEF HeartbeatInv
  <2>2. p = SystemPoint(Object(by, reading))
    <3>1. ASSUME NEW kind \in Kinds, p \in InterfacePoints(kind, Object(by, reading))
          PROVE  FALSE
      <4>1. PICK e : p = PointOf(kind, e)
        BY <2>1, <3>1, InterfacePointsAre
      <4>2. p.series = <<kind, e.name>>
        BY <4>1 DEF PointOf
      <4> QED
        BY <4>2
    <3> QED
      BY <2>1, <3>1 DEF Points
  <2>3. /\ p.fields["uptime_sec"] = reading.uptime
        /\ DOMAIN p.fields = {"uptime_sec"}
                             \cup (IF by = "phase1" THEN {} ELSE DOMAIN reading.system)
        /\ by # "phase1" => \A f \in DOMAIN reading.system : p.fields[f] = reading.system[f]
    BY <2>1, <2>2, SystemPointHas
  <2>4. reading.uptime \in Nat
    BY <2>1, ReadingsAssumption
  <2>5. by # "phase1" => Plausible(reading.system)
    BY <2>1, WhatIsHeard
  <2> QED
    BY <2>3, <2>4, <2>5 DEF Plausible
<1> QED
  BY <1>1, Inductive, PTL

\* influx.py:77-213: whatever a router has to report, and whichever script
\* reports it, no value is stored that it did not measure.
THEOREM NothingInvented == Spec => []NothingIsInvented
<1>1. HeartbeatInv => NothingIsInvented
  BY StoredOrNothing, ToldIsMeasured DEF NothingIsInvented
<1> QED
  BY <1>1, Inductive, PTL

\* influx.py:77-213, telemetry-*.rsc.j2: a heartbeat is stored whole, zeroes and
\* the uptime of an old script included.
THEOREM NothingLost == Spec => []NothingIsLost
<1>1. HeartbeatInv => NothingIsLost
  BY StoredOrNothing, MeasuredIsTold DEF NothingIsLost
<1> QED
  BY <1>1, Inductive, PTL

\* routers/telemetry.py:153-200: the schema refuses no script for its age, but only
\* for what that script has put into the request.
THEOREM OldScriptsHeard == Spec => []OldScriptsAreHeard
<1>1. HeartbeatInv => OldScriptsAreHeard
  BY WhatIsHeard DEF HeartbeatInv, OldScriptsAreHeard
<1> QED
  BY <1>1, Inductive, PTL

=============================================================================
