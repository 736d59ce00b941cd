----------------------------- MODULE MCHeartbeat -----------------------------
(* Devices of both stacks, with and without sensors, whose radios are up,  *)
(* down or do not answer, and whose owners use quotes and backslashes.     *)
EXTENDS Heartbeat, TLC

MCLength ==
    "" :> 0 @@ "name" :> 4 @@ "SN12" :> 4 @@ "RB952" :> 5 @@ "7.14" :> 4
    @@ "E4:8D:8C:AA:BB:CC" :> 17 @@ "wlan1" :> 5 @@ "wlan2" :> 5 @@ "ether1" :> 6
    @@ "quote" :> 6 @@ "escape" :> 8 @@ "tab" :> 7 @@ "long" :> 33 @@ "longer" :> 129
MCText == DOMAIN MCLength

\* One with a quote in it; one with an escape, which is read as a tab.
MCDecoded == [t \in MCText |-> IF t = "quote" THEN Broken ELSE IF t = "escape" THEN "tab" ELSE t]

Partial(f, without) == [x \in DOMAIN f \ without |-> f[x]]

Whole ==
    [identity |-> "name", serial |-> "SN12", mac |-> "E4:8D:8C:AA:BB:CC",
     board |-> "RB952", ros_version |-> "7.14"]

\* A router without a serial number, one whose ether1 has another name, and both.
Identities == {Partial(Whole, w) : w \in SUBSET {"serial", "mac"}}
Named == {"identity" :> name @@ Whole : name \in {"quote", "escape", "long", "longer"}}

Idle == [f \in Counters |-> 0]
Busy == [f \in Counters |-> IF f = "rx_bytes" THEN 5000000 ELSE 7]

Wired == {Idle @@ "name" :> "ether1" @@ "running" :> FALSE,
          Busy @@ "name" :> "ether1" @@ "running" :> TRUE}
Renamed == {Busy @@ "name" :> name @@ "running" :> TRUE : name \in {"quote", "escape", "long"}}

\* The commands that may fail do so one by one.
RadioOf(name, guarded) == {Busy @@ "name" :> name @@ Partial(guarded, w) :
                            w \in {{}, DOMAIN guarded} \cup {{f} : f \in DOMAIN guarded}}

Wlan(name) ==
    RadioOf(name, "disabled" :> FALSE @@ "ssid" :> "name" @@ "band" :> "name"
                    @@ "channel_width" :> "name" @@ "tx_power" :> "" @@ "mode" :> "name"
                    @@ "frequency" :> 5180)
Wave2(name) ==
    RadioOf(name, "disabled" :> FALSE @@ "ssid" :> "" @@ "channel" :> "name"
                    @@ "configuration" :> "name")

\* A name or a setting that is more than letters, and a frequency that is none.
Odd(stack) ==
    {{Busy @@ "name" :> "wlan1" @@ "disabled" :> FALSE @@ "ssid" :> t} :
        t \in {"quote", "escape", "long", "longer"}}
    \cup {{Busy @@ "name" :> "quote"}, {Busy @@ "name" :> "escape"}}
    \cup (IF stack = "wifi" THEN {}
          ELSE {{Busy @@ "name" :> "wlan1" @@ "frequency" :> f} : f \in {Broken, 2412}})

Radios(stack) ==
    {{x} : x \in IF stack = "wireless" THEN Wlan("wlan1") ELSE Wave2("wlan1")}
    \cup {{x, Idle @@ "name" :> "wlan2" @@ "disabled" :> TRUE} :
            x \in IF stack = "wireless" THEN Wlan("wlan1") ELSE Wave2("wlan1")}
    \cup {{}}

Memory == "cpu_load_pct" :> 0 @@ "free_memory_bytes" :> 56213504
            @@ "total_memory_bytes" :> 134217728
\* No sensors; a freezing one; a voltage in tenths, and one that is no number.
Systems == {Memory, Memory @@ "temperature_c" :> -5 @@ "voltage_v" :> 24,
            Memory @@ "temperature_c" :> 0, Memory @@ "voltage_v" :> 243,
            Memory @@ "voltage_v" :> Broken}

Uptimes == {0, 59, 3600, 93784, 1209605}

\* A request is cut off for what it has most of: interfaces.
Cuts == {{}, {"chunkB"}, {"chunkA", "chunkB"}}

\* Each part of a reading is varied by itself, and identity and sensors together.
MCReadings ==
    LET R(stack, id, up, sys, eth, radios, cut) ==
            [stack |-> stack, identity |-> id, uptime |-> up, system |-> sys,
             ethernet |-> {eth}, radios |-> radios, cut |-> cut]
        wired == CHOOSE x \in Wired : TRUE
    IN  UNION {{R(stack, id, 59, sys, wired, {}, {}) :
                    id \in Identities \cup Named, sys \in Systems}
               \cup {R(stack, Whole, up, Memory, wired, {}, cut) : up \in Uptimes, cut \in Cuts}
               \cup {R(stack, Whole, 59, Memory, eth, radios, {}) :
                        eth \in Wired, radios \in Radios(stack)}
               \cup {R(stack, Whole, 59, Memory, eth, {}, {}) : eth \in Renamed}
               \cup {R(stack, Whole, 59, Memory, wired, radios, {}) : radios \in Odd(stack)} :
                 stack \in {"wireless", "wifi"}}
=============================================================================
