--------------------------- MODULE MCMetricStreams ---------------------------
(***************************************************************************)
(* MetricStreams for TLC: symbols in the manner of _generic-if.yaml and of *)
(* profiles with sensors, their entries in registry.yaml, one interface    *)
(* over time, and several rows in builds at one time.                      *)
(***************************************************************************)
EXTENDS MetricStreams

Limit(priority) == [Entry("bandwidth.limit", TRUE, "updowncounter") EXCEPT !.priority = priority]

Dropped(direction) ==
    [Entry("packet.dropped", FALSE, "sum") EXCEPT !.identity = TRUE, !.attributes = {direction}]

Targets ==
    Put(Put(EmptyMap, "sensor.temperature", Entry("temperature", TRUE, "gauge")),
        "sensor.fan_speed", Entry("fan_speed", TRUE, "gauge"))

Symbols ==
    [ifHCInOctets  |-> Entry("network.io", TRUE, "sum"),
     ifHighSpeed   |-> Limit(10),
     ifSpeed       |-> Limit(1),
     ifInDiscards  |-> Dropped("receive"),
     ifOutDiscards |-> Dropped("transmit"),
     ifAdminStatus |-> [Entry("status", TRUE, "updowncounter") EXCEPT
                           !.states = {"ok", "failed"}, !.active = <<"ok", "failed">>],
     entPhySensorValue |-> [Entry("", FALSE, "gauge") EXCEPT
                           !.kind = "entPhySensorType",
                           !.cases = [k \in {6, 8, 10} |-> CASE k = 6 -> "sensor.power"
                                                            [] k = 8 -> "sensor.temperature"
                                                            [] OTHER -> "sensor.fan_speed"]]]

MCMetrics == [s \in DOMAIN Symbols \cup DOMAIN Targets |->
                 IF s \in DOMAIN Symbols THEN Symbols[s] ELSE Targets[s]]
MCSystem  == [s \in {"hrProcessorLoad"} |-> Entry("cpu.utilization", FALSE, "gauge")]

(* Three rows: one has no name, an administrative state no map knows, and  *)
(* sensors of three kinds, the last of which has no case.                  *)
MCFixed ==
    [ifName |-> <<5, 0, 7>>, ifMtu |-> <<3, 4, 5>>, ifInDiscards |-> <<1, 2, 3>>, ifOutDiscards |-> <<4, 5, 6>>,
     ifAdminStatus |-> <<2, 9, 1>>, hrProcessorLoad |-> <<10, 20, 30>>,
     entPhySensorValue |-> <<210, 36, 70>>, entPhySensorType |-> <<8, 10, 5>>,
     entPhySensorPrecision |-> <<1, 0, 1>>]

(* The MIB table of a column.                                              *)
TableOf(column) ==
    CASE column \in {"ifHCInOctets", "ifHighSpeed", "ifName"} -> "ifXTable"
      [] column \in {"entPhySensorValue"} -> "entPhySensorTable"
      [] column \in {"hrProcessorLoad"} -> "hrProcessorTable"
      [] OTHER -> "ifTable"

Symbol(column, tags, type) ==
    [name |-> column, table |-> TableOf(column), from |-> <<column>>, siblings |-> {}, tags |-> tags, indexed |-> FALSE,
     constant |-> FALSE, type |-> type]

(* A count of rows without a column of its own.                            *)
RowCount(from, tags) ==
    [Symbol("interfaces", tags, "gauge") EXCEPT !.from = from, !.constant = TRUE, !.indexed = TRUE]
Sensor ==
    [Symbol("entPhySensorValue", {}, "") EXCEPT
        !.siblings = {"entPhySensorType", "entPhySensorPrecision"}, !.indexed = TRUE]

(* Both octet counters, and both speeds; then symbols that meet in one     *)
(* metric: by priority, by instrument, with and without tags and identity. *)
Octets64   == <<Symbol("ifHCInOctets", {}, ""), Symbol("ifInOctets", {}, "rate"),
                Symbol("ifHighSpeed", {}, "gauge")>>
Speeds     == <<Symbol("ifSpeed", {}, "gauge"), Symbol("ifInOctets", {}, ""),
                RowCount(<<"ifHighSpeed", "ifName">>, {"ifName"}), Symbol("ifHighSpeed", {}, "gauge")>>
Collisions == <<Symbol("ifSpeed", {"ifName"}, "gauge"), Symbol("ifMtu", {"ifName"}, "gauge"),
                Symbol("ifHighSpeed", {"ifName"}, "gauge"), Symbol("ifMtu", {}, "rate"),
                Symbol("ifMtu", {}, "gauge")>>
Discards   == <<Symbol("ifInDiscards", {"ifName"}, ""),
                Symbol("ifOutDiscards", {"ifName"}, ""), Symbol("hrProcessorLoad", {}, "gauge")>>
States     == <<Symbol("ifAdminStatus", {"ifName"}, "gauge")>>
Octets32   == <<Symbol("ifInOctets", {}, ""), Symbol("ifSpeed", {}, "gauge")>>

(* Long enough for a 32-bit counter to wrap, or for three polls with every *)
(* loss of columns; then one moment and every loss of rows.                *)
Monitored(interfaces, profiles, schemes, time) ==
    [interfaces |-> interfaces, profiles |-> profiles, schemes |-> schemes, time |-> time]

MCDevices ==
    {Monitored({1}, {Octets32}, {"semconv"}, 4),
     Monitored({1}, {Octets64, Speeds}, {"semconv"}, 2),
     Monitored({1, 2}, {Collisions}, {"semconv"}, 0),
     Monitored({1, 2}, {Discards}, Schemes, 0),
     Monitored({1, 2}, {States}, Schemes, 0),
     Monitored(1..3, {<<Sensor>>}, Schemes, 0)}

(* What the theorem about ReadingsAreTrue asks of the profiles.            *)
ASSUME SourcesAssumption == SensorsAlone
=============================================================================
