------------------------------- MODULE Heartbeat -------------------------------
(***************************************************************************)
(* What a heartbeat reports: from the commands of the telemetry script on  *)
(* the device (templates/rsc/telemetry-*.rsc.j2), through the schema of    *)
(* POST /api/v1/telemetry, to the points that app/services/influx.py       *)
(* writes.  Who may send one, and when it counts, is module Telemetry.     *)
(*                                                                         *)
(* A JSON object is a function on the fields that it has: the schema and   *)
(* the builders do not tell an absent field from a null.  An array is a    *)
(* set of entries, whose names differ on a device.  An uptime is the units *)
(* that it has and how many of each: RouterOS prints them in the order in  *)
(* which the parser takes them.  Other text is known by its length and by  *)
(* what JSON makes of it: the scripts put texts together without escaping  *)
(* what is in them, so that a quote in a name breaks the request, and a    *)
(* backslash may change the name.                                          *)
(***************************************************************************)
EXTENDS Integers

CONSTANTS
    Text,       \* the strings, with
    Length,     \* their lengths
    Empty,      \* the empty one
    Macs,       \* those that are MAC addresses
    Decoded,    \* what a parser reads if they stand between quotes as they are
    Broken,     \* nothing: what stands there, or ought to, is not JSON
    Readings    \* what the commands of the script may give

\* A text that is not empty stands for at least a character, if for anything.  A
\* quote or a line feed is Broken, and so is a backslash that escapes nothing.
ASSUME TextAssumption ==
    /\ Length \in [Text -> Nat] /\ Empty \in Text
    /\ \A t \in Text : Length[t] = 0 <=> t = Empty
    /\ Macs \subseteq {t \in Text : Length[t] = 17}
    /\ Decoded \in [Text -> Text \cup {Broken}]
    /\ \A t \in Text : Decoded[t] = Empty <=> t = Empty
    /\ \A t \in Macs : Decoded[t] = t

ASSUME BrokenAssumption == Broken \notin Text /\ Broken \notin BOOLEAN /\ Broken \notin Int

VARIABLES
    script,     \* the generation of the device's script
    by,         \* the one that made the heartbeat under way
    reading,    \* what its commands gave
    body,       \* the request it made of that
    pc,         \* where the heartbeat is
    batch       \* what InfluxDB has of it

vars == <<script, by, reading, body, pc, batch>>

Generations == {"phase1", "chunkA", "chunkB"}

\* From a template to those that came after it.
Later == [phase1 |-> {"chunkA", "chunkB"}, chunkA |-> {"chunkB"}, chunkB |-> {}]

\* The fields of an interface, by type.
Counters == {"rx_bytes", "tx_bytes", "rx_packets", "tx_packets"}
Ints(kind) == Counters \cup IF kind = "wireless" THEN {"frequency"} ELSE {}
Flag(kind) == IF kind = "ethernet" THEN "running" ELSE "disabled"
Texts ==
    [ethernet |-> {},
     wireless |-> {"ssid", "band", "channel_width", "tx_power", "mode"},
     wifi     |-> {"ssid", "channel", "configuration"}]
Array ==
    [ethernet |-> "ethernet", wireless |-> "wireless_interfaces",
     wifi |-> "wifi_interfaces"]
Kinds == {"ethernet", "wireless", "wifi"}

Gauges == {"cpu_load_pct", "free_memory_bytes", "total_memory_bytes", "temperature_c",
           "voltage_v"}
Identity == {"identity", "serial", "mac", "board", "ros_version"}

Has(object, fields) == DOMAIN object \cap fields
Filled(object, fields) == {f \in Has(object, fields) : object[f] # Empty}

UnitSeconds == [w |-> 604800, d |-> 86400, h |-> 3600, m |-> 60, s |-> 1]

-----------------------------------------------------------------------------
(* The script.  A reading is [stack, identity, uptime, system, ethernet,   *)
(* radios, cut]; a guarded command that fails leaves its field out, and    *)
(* cut has the scripts whose request is too long for the device's fetch.   *)

\* The fields whose values are put between quotes.
Quotes == Identity \cup {"name"} \cup Texts["wireless"] \cup Texts["wifi"]

\* What a parser finds in a field into which a script has put v.
Read(f, v) == IF f \in Quotes THEN Decoded[v] ELSE v

\* RouterOS: 93784 seconds are 1d2h3m4s.
Formatted(n) ==
    LET count == [w |-> n \div 604800, d |-> (n % 604800) \div 86400,
                  h |-> (n % 86400) \div 3600, m |-> (n % 3600) \div 60, s |-> n % 60]
        printed == {u \in DOMAIN count : count[u] > 0 \/ (n = 0 /\ u = "s")}
    IN  [u \in printed |-> count[u]]

\* A serial number, a board or a MAC address that is not read is sent empty.
Identified(r) ==
    [f \in Identity |-> Read(f, IF f \in DOMAIN r.identity THEN r.identity[f] ELSE Empty)]

\* Only the sensors there are.
SystemOf(r) ==
    [f \in DOMAIN r.system \cup {"uptime"} |->
        IF f = "uptime" THEN Formatted(r.uptime) ELSE r.system[f]]

\* An interface.  A radio is taken for disabled unless it says so itself; texts
\* without characters are left out, and a frequency if `:tonum' fails.
Entry(kind, x) ==
    [f \in {"name", Flag(kind)} \cup Has(x, Ints(kind)) \cup Filled(x, Texts[kind]) |->
        IF f \in DOMAIN x THEN Read(f, x[f]) ELSE TRUE]

\* What a script says.  That of a router names the array after its own stack.
Object(s, r) ==
    LET radios == {Entry(r.stack, x) : x \in r.radios}
        id     == Identified(r)
        part   == [identity |-> id.identity, serial |-> id.serial, mac |-> id.mac,
                   board |-> id.board, ros_version |-> id.ros_version,
                   wifi_stack |-> r.stack, system |-> SystemOf(r),
                   ethernet |-> {Entry("ethernet", x) : x \in r.ethernet},
                   wireless_interfaces |-> radios, wifi_interfaces |-> radios]
        arrays == IF s = "chunkB" THEN {"ethernet", Array[r.stack]} ELSE {}
    IN  IF s = "phase1"
        THEN [identity |-> id.identity, wifi_stack |-> r.stack,
              uptime |-> Formatted(r.uptime)]
        ELSE [f \in Identity \cup {"wifi_stack", "system"} \cup arrays |-> part[f]]

Clean(object, fields) == \A f \in Has(object, fields) : object[f] # Broken

\* A value that is not JSON breaks all of the object that it is in.
WellFormed(b) ==
    /\ Clean(b, Identity)
    /\ \A f \in Has(b, {"system"}) : Clean(b[f], Gauges)
    /\ \A kind \in Kinds : \A f \in Has(b, {Array[kind]}) :
          \A e \in b[f] : Clean(e, DOMAIN e)

\* What is left of a request that cannot be parsed.
Unparsed == <<>>

\* The head of an object is no object.
Body(s, r) ==
    IF s \notin r.cut /\ WellFormed(Object(s, r)) THEN Object(s, r) ELSE Unparsed

-----------------------------------------------------------------------------
(* The schema.                                                             *)

Lengths ==
    [identity |-> 1 .. 128, serial |-> 4 .. 64, board |-> 1 .. 64, ros_version |-> 1 .. 32,
     name |-> 1 .. 32, ssid |-> 0 .. 64, band |-> 0 .. 32, channel_width |-> 0 .. 32,
     tx_power |-> 0 .. 16, mode |-> 0 .. 32, channel |-> 0 .. 32, configuration |-> 0 .. 64]

Ranges ==
    [cpu_load_pct |-> 0 .. 100, temperature_c |-> -20 .. 120, voltage_v |-> 0 .. 60,
     frequency |-> 0 .. 8000]

\* Mutant: only what is below the range is refused.
NoLess(f, n) == IF f = "temperature_c" THEN n >= -20 ELSE n >= 0

InRange(f, n) == IF f \in DOMAIN Ranges THEN n \in Ranges[f] ELSE n >= 0

\* Each part of a reading that is there is of its kind; an interface has a name,
\* and an Ethernet port tells whether it has a link.  A sensor, and a text that
\* `:tonum' takes without a complaint, may be no number.
ASSUME ReadingsAssumption ==
    \A r \in Readings :
        /\ r.stack \in {"wireless", "wifi"} /\ r.cut \subseteq Generations
        /\ r.uptime \in Nat
        /\ DOMAIN r.system \subseteq Gauges
        /\ \A f \in DOMAIN r.system : r.system[f] \in Int \cup {Broken}
        /\ {"identity", "ros_version"} \subseteq DOMAIN r.identity
        /\ DOMAIN r.identity \subseteq Identity
        /\ \A f \in DOMAIN r.identity : r.identity[f] \in Text
        /\ \A x \in r.ethernet : "running" \in DOMAIN x
        /\ \A x \in r.ethernet \cup r.radios :
              "name" \in DOMAIN x /\ x.name \in Text \ {Empty}

Fits(kind, x) ==
    /\ \A f \in Has(x, Texts[kind]) : x[f] \in Text
    /\ \A f \in Has(x, Counters) : x[f] \in Nat
    /\ \A f \in Has(x, {Flag(kind)}) : x[f] \in BOOLEAN
    /\ \A f \in Has(x, {"frequency"}) : x[f] \in Ranges[f] \cup {Broken}

\* RouterOS counts upwards, and knows a MAC address and a frequency.  Of other
\* texts and of sensors nothing is assumed.
ASSUME FitsAssumption ==
    \A r \in Readings :
        /\ \A f \in Has(r.identity, {"mac"}) : r.identity[f] \in Macs
        /\ \A f \in Has(r.system, {"free_memory_bytes", "total_memory_bytes"}) :
              r.system[f] \in Nat
        /\ \A x \in r.ethernet : Fits("ethernet", x)
        /\ \A x \in r.radios : Fits(r.stack, x)

ValidSystem(sys) ==
    /\ \A f \in Has(sys, Gauges) : InRange(f, sys[f])
    /\ \A f \in Has(sys, {"uptime"}) : DOMAIN sys[f] # {}

ValidEntry(kind, e) ==
    /\ "name" \in DOMAIN e
    /\ \A f \in Has(e, Texts[kind] \cup {"name"}) : Length[e[f]] \in Lengths[f]
    /\ \A f \in Has(e, Ints(kind)) : InRange(f, e[f])

\* Mutant: the `system' block is no longer optional.
ValidNested(b) ==
    /\ b # Unparsed
    /\ {"identity", "wifi_stack", "system"} \subseteq DOMAIN b
    /\ \A f \in Has(b, Identity \ {"mac"}) : Length[b[f]] \in Lengths[f]
    /\ \A f \in Has(b, {"mac"}) : b[f] \in Macs
    /\ ValidSystem(b.system)

\* TelemetryHeartbeat, if FastAPI can read it.  An array is checked entry by entry.
Valid(b) ==
    /\ b # Unparsed
    /\ {"identity", "wifi_stack"} \subseteq DOMAIN b
    /\ b.wifi_stack \in {"wireless", "wifi"}
    /\ \A f \in Has(b, Identity \ {"mac"}) : Length[b[f]] \in Lengths[f]
    /\ \A f \in Has(b, {"mac"}) : b[f] \in Macs
    /\ \A f \in Has(b, {"uptime"}) : DOMAIN b[f] # {}
    /\ \A f \in Has(b, {"system"}) : ValidSystem(b[f])
    /\ \A kind \in Kinds : \A f \in Has(b, {Array[kind]}) :
          \A e \in b[f] : ValidEntry(kind, e)

-----------------------------------------------------------------------------
(* The points: a series, which is told by its tags, and its fields.        *)

\* A unit that is not there counts for nothing, and so does a text without any.
Parsed(uptime) ==
    LET Of(u) == IF u \in DOMAIN uptime THEN uptime[u] * UnitSeconds[u] ELSE 0
    IN  Of("w") + Of("d") + Of("h") + Of("m") + Of("s")

\* The nested uptime, or the flat one of an old script.
UptimeOf(b) ==
    IF "system" \in DOMAIN b /\ "uptime" \in DOMAIN b.system THEN b.system.uptime
    ELSE IF "uptime" \in DOMAIN b THEN b.uptime
    ELSE <<>>

\* Mutant: sensors that are not there read zero.
SystemPointZeroes(b) ==
    [series |-> <<"system">>,
     fields |-> [f \in Gauges \cup {"uptime_sec"} |->
                    IF f = "uptime_sec" THEN Parsed(UptimeOf(b))
                    ELSE IF "system" \in DOMAIN b /\ f \in DOMAIN b.system THEN b.system[f]
                    ELSE 0]]

SystemPoint(b) ==
    LET sys == IF "system" \in DOMAIN b THEN Has(b.system, Gauges) ELSE {}
    IN  [series |-> <<"system">>,
         fields |-> [f \in sys \cup {"uptime_sec"} |->
                        IF f = "uptime_sec" THEN Parsed(UptimeOf(b)) ELSE b.system[f]]]

\* Mutant: `if val' for `if val is not None'.
InterfaceFieldsTruthy(kind, e) ==
    {f \in Has(e, Ints(kind)) : e[f] # 0} \cup Has(e, {Flag(kind)})
        \cup Filled(e, Texts[kind])

InterfaceFields(kind, e) == Has(e, Ints(kind) \cup {Flag(kind)}) \cup Filled(e, Texts[kind])

\* An entry without a name, or with nothing else, gives no point.
InterfacePoints(kind, b) ==
    LET entries == UNION {b[f] : f \in Has(b, {Array[kind]})}
    IN  {[series |-> <<kind, e.name>>,
          fields |-> [f \in InterfaceFields(kind, e) |-> e[f]]] :
            e \in {x \in entries : x.name # Empty /\ InterfaceFields(kind, x) # {}}}

Points(b) == {SystemPoint(b)} \cup UNION {InterfacePoints(kind, b) : kind \in Kinds}

-----------------------------------------------------------------------------
Init ==
    /\ script \in Generations
    /\ by = script
    /\ reading \in Readings
    /\ body = <<>>
    /\ pc = "idle"
    /\ batch = {}

Goto(label) == pc' = label

\* The scheduler runs the script that is there.
Push ==
    /\ pc = "idle"
    /\ by' = script
    /\ reading' \in Readings
    /\ body' = Body(script, reading')
    /\ Goto("posted")
    /\ UNCHANGED <<script, batch>>

\* An enrollment installs the script of a later template.
Upgrade ==
    /\ script' \in Later[script]
    /\ UNCHANGED <<by, reading, body, pc, batch>>

\* FastAPI parses and validates the body ahead of the handler: 422, or 400 if it
\* is not even UTF-8.
Receive ==
    /\ pc = "posted"
    /\ Goto(IF Valid(body) THEN "accepted" ELSE "refused")
    /\ UNCHANGED <<script, by, reading, body, batch>>

\* write_telemetry: one call for all points.
Write ==
    /\ pc = "accepted"
    /\ batch' = Points(body)
    /\ Goto("stored")
    /\ UNCHANGED <<script, by, reading, body>>

\* InfluxDB is not configured, or refuses the call; the heartbeat does not reach
\* the writer (module Telemetry).
Drop ==
    /\ pc = "accepted"
    /\ Goto("dropped")
    /\ UNCHANGED <<script, by, reading, body, batch>>

\* Five minutes later.
Again ==
    /\ pc \in {"refused", "stored", "dropped"}
    /\ body' = <<>>
    /\ batch' = {}
    /\ Goto("idle")
    /\ UNCHANGED <<script, by, reading>>

Next == Push \/ Upgrade \/ Receive \/ Write \/ Drop \/ Again

Spec == Init /\ [][Next]_vars

-----------------------------------------------------------------------------
(* What the device measured, and what InfluxDB was told of it, as triples  *)
(* of a series, a field and a value; texts, as JSON reads them.            *)

OfInterface(kind, x) ==
    {<<<<kind, Decoded[x.name]>>, f, Read(f, x[f])>> :
        f \in Has(x, Ints(kind) \cup {Flag(kind)}) \cup Filled(x, Texts[kind])}

Measured ==
    {<<<<"system">>, "uptime_sec", reading.uptime>>}
    \cup (IF by = "phase1" THEN {}
          ELSE {<<<<"system">>, f, reading.system[f]>> : f \in DOMAIN reading.system})
    \cup (IF by # "chunkB" THEN {}
          ELSE (UNION {OfInterface("ethernet", x) : x \in reading.ethernet})
               \cup (UNION {OfInterface(reading.stack, x) : x \in reading.radios}))

Told == UNION {{<<p.series, f, p.fields[f]>> : f \in DOMAIN p.fields} : p \in batch}

\* The radios whose state was not read.
Assumed ==
    {<<<<reading.stack, Decoded[x.name]>>, "disabled", TRUE>> :
        x \in {y \in reading.radios : "disabled" \notin DOMAIN y}}

Plausible(sys) ==
    /\ "cpu_load_pct" \in DOMAIN sys => sys["cpu_load_pct"] \in 0 .. 100
    /\ "temperature_c" \in DOMAIN sys => sys["temperature_c"] \in -20 .. 120
    /\ "voltage_v" \in DOMAIN sys => sys["voltage_v"] \in 0 .. 60

\* The texts that a script puts between quotes, with their fields.
Quoted(s, r) ==
    {<<"identity", r.identity.identity>>}
    \cup (IF s = "phase1" THEN {} ELSE {<<f, r.identity[f]>> : f \in DOMAIN r.identity})
    \cup (IF s # "chunkB" THEN {}
          ELSE {<<"name", x.name>> : x \in r.ethernet \cup r.radios}
               \cup (UNION {{<<f, x[f]>> : f \in Filled(x, Texts[r.stack])} :
                             x \in r.radios}))

\* Fetch does not cut the request off, texts need no escaping and fit into their
\* fields, and frequencies are numbers.
Intelligible(s, r) ==
    /\ s \notin r.cut
    /\ \A q \in Quoted(s, r) :
          Decoded[q[2]] # Broken /\ (q[1] # "mac" => Length[Decoded[q[2]]] \in Lengths[q[1]])
    /\ s = "chunkB" => \A x \in r.radios :
                          \A f \in Has(x, Ints(r.stack)) : x[f] # Broken

\* What is stored is typed, and of a plausible size: a sensor that reports in
\* another unit stays out of the charts.
TypeOK ==
    /\ {script, by} \subseteq Generations
    /\ reading \in Readings
    /\ pc \in {"idle", "posted", "accepted", "refused", "stored", "dropped"}
    /\ \A p \in batch :
          p.series = <<"system">> => p.fields["uptime_sec"] \in Nat /\ Plausible(p.fields)

\* A value in InfluxDB was measured by the device, and belongs to the interface
\* it is stored with: no zero stands for a sensor that is not there or a text
\* that was empty.  Only a radio that does not tell its state is called disabled,
\* and only a text with a backslash differs from what the device has.
NothingIsInvented == Told \subseteq Measured \cup Assumed

\* A heartbeat that is stored is stored whole: each value that its script took
\* comes out as it was measured, zeroes, links that are down and the uptime in
\* either of its two places included; a text, as JSON reads it.
NothingIsLost == pc = "stored" => Measured \subseteq Told

\* The server may be ahead of the devices.  Whatever script a device runs, its
\* heartbeat is refused only for what that script itself has put into it: a text
\* that is no JSON or too long for its field, more than fetch sends, and, if it is
\* not the first script, a sensor out of range or an identity read in part.
OldScriptsAreHeard ==
    pc = "refused" =>
        \/ ~Intelligible(by, reading)
        \/ by # "phase1" /\ ~Plausible(reading.system)
        \/ by # "phase1" /\ ~(Identity \subseteq DOMAIN reading.identity)

\* A heartbeat of today's script is heard with whatever part of it could be read,
\* if that part is JSON, fits and is in range.
PartialPayloadValidates ==
    pc = "refused" /\ by = "chunkB" =>
        ~Intelligible(by, reading) \/ ~Plausible(reading.system)
=============================================================================
