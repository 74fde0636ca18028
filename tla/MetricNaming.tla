---------------------------- MODULE MetricNaming ----------------------------
(***************************************************************************)
(* internal/naming: under which names, and with which entry of             *)
(* registry.yaml, a symbol of a profile is reported.  A metric name is     *)
(* its kind with what it is made of: <<"curated", metric>> from the        *)
(* registry, <<"compat", symbol>> for snmp.<symbol>, <<"generated",        *)
(* symbol>> for a name derived from MIB and symbol.                        *)
(***************************************************************************)
EXTENDS Naturals, Sequences, FiniteSets, GoMap

CONSTANTS
    Metrics,        \* registry.yaml, metrics: symbol or dispatch target -> entry
    SystemMetrics,  \* registry.yaml, system_metrics: symbol -> entry
    UseSystem,      \* option SystemNamespaceForDeviceOS
    PlainSymbols    \* symbols without a MIB whose derived name is snmp.<symbol>

Schemes     == {"semconv", "datadog_compat", "both"}
Instruments == {"gauge", "sum", "updowncounter"}

(* "hardware" says that the metric is named hw.*; "attributes" are the     *)
(* constant ones of its datapoints; "states" and "active" are a state set  *)
(* and its map, "kind" and "cases" a type_dispatch.                        *)
NoMap == EmptyMap
Entry(metric, hardware, instrument) ==
    [metric |-> metric, hardware |-> hardware, instrument |-> instrument, identity |-> FALSE,
     priority |-> 0, attributes |-> {}, states |-> {}, active |-> NoMap, kind |-> "", cases |-> NoMap]

(* In registry.yaml an entry that dispatches has no metric of its own and  *)
(* opts into nothing, and neither it nor a target of it is a state set.    *)
ASSUME NamingAssumptions ==
    /\ \A e \in {Metrics[s] : s \in DOMAIN Metrics} \cup
                {SystemMetrics[s] : s \in DOMAIN SystemMetrics} :
          /\ e.instrument \in Instruments /\ e.priority \in Nat
          /\ e.cases # NoMap => ~e.hardware /\ ~e.identity /\ e.states = {}
          /\ \A k \in DOMAIN e.cases : e.cases[k] \in DOMAIN Metrics => Metrics[e.cases[k]].states = {}
    /\ UseSystem \in BOOLEAN

CompatName(symbol)   == <<"compat", symbol>>
FallbackName(symbol) == IF symbol \in PlainSymbols THEN CompatName(symbol) ELSE <<"generated", symbol>>

(* lookup: the entries found, at most one.                                 *)
Lookup(symbol) ==
    IF symbol \in DOMAIN Metrics THEN {Metrics[symbol]}
    ELSE IF UseSystem /\ symbol \in DOMAIN SystemMetrics THEN {SystemMetrics[symbol]}
    ELSE {}

(* applyScheme.  The name "own" is the curated or generated one.           *)
ApplyScheme(scheme, entry, own, symbol, curated) ==
    LET compat == CompatName(symbol)
        names == CASE scheme = "datadog_compat" -> <<compat>>
                   [] scheme = "both" /\ compat # own -> <<own, compat>>
                   [] OTHER -> <<own>>
    IN  [names |-> names, entry |-> entry, generated |-> scheme = "datadog_compat" \/ ~curated]

(* Resolve never fails: what no entry models gets a generated name.        *)
Resolve(scheme, symbol) ==
    IF Lookup(symbol) = {}
    THEN ApplyScheme(scheme, Entry("", FALSE, "gauge"), FallbackName(symbol), symbol, FALSE)
    ELSE LET entry == CHOOSE e \in Lookup(symbol) : TRUE
         IN  ApplyScheme(scheme, entry, <<"curated", entry.metric>>, symbol, TRUE)

(* ResolveDispatched: nothing when the target is no entry.                 *)
ResolveDispatched(scheme, symbol, target) ==
    {ApplyScheme(scheme, Metrics[t], <<"curated", Metrics[t].metric>>, symbol, TRUE) :
        t \in {target} \cap DOMAIN Metrics}

(* A name that begins with hw., or an entry that opts in, carries the      *)
(* identity of the component.  Mutant: only hw. names do.                  *)
IsHardware(entry, name)      == name[1] = "curated" /\ entry.hardware
NamesComponent(entry, name)  == entry.identity \/ IsHardware(entry, name)
=============================================================================
