---------------------------- MODULE MetricStreams ----------------------------
(***************************************************************************)
(* The metric builder of one device (internal/report) over its polls: what *)
(* a row of a table becomes under the registry's names, the pool of        *)
(* streams of one build, the start times and previous counters a Builder   *)
(* keeps between builds, and the utilisation derived from them.            *)
(*                                                                         *)
(* One build runs in one goroutine on the values of one fetch, so only the *)
(* time between fetch and build, the device's traffic and its restarts,    *)
(* and lost columns and rows make the difference.                          *)
(***************************************************************************)
EXTENDS Integers, Functions, MetricNaming

CONSTANTS
    Devices,        \* devices to monitor, see IsDevice
    Fixed,          \* column -> interface -> value, of the columns that do not change
    Capacity,       \* octets an interface can carry per unit of time
    Traffic,        \* ... and what it may carry
    SpeedLimit,     \* ifSpeed saturates here (4.29 Gbit/s)
    Wrap,           \* 32-bit counters wrap here
    MaxLag,         \* how old the values of a fetch can be when they are built
    MaxBoots        \* BOUND: restarts of the agent

Counters == <<"ifHCInOctets", "ifInOctets">>
Changing == {"ifHCInOctets", "ifInOctets", "ifHighSpeed", "ifSpeed"}
Columns  == Changing \cup DOMAIN Fixed

(* One symbol of a metrics entry, in "table".  Its rows are those of the   *)
(* first column of "from" that has any: its own, or, for a                 *)
(* constant_value_one symbol, a sibling's or a tag's.  "siblings" are the columns beside it that its    *)
(* registry entry may look at, "tags" those of its metric_tags, "indexed"  *)
(* says that a tag is read from the row index, "type" is its metric_type.  *)
IsSymbol(s) ==
    /\ s.from \in Seq(Columns) /\ s.from # <<>>
    /\ s.siblings \cup s.tags \subseteq Columns
    /\ {s.indexed, s.constant} \subseteq BOOLEAN
    /\ s.type \in {"gauge", "rate", ""}

(* Its rows, the profiles it may be polled with, the naming schemes; time  *)
(* is a BOUND of the clock.                                                *)
IsDevice(d) ==
    /\ d.interfaces \subseteq Nat /\ IsFiniteSet(d.interfaces)
    /\ \A p \in d.profiles : p \in Seq(Range(p)) /\ \A s \in Range(p) : IsSymbol(s)
    /\ d.schemes \subseteq Schemes
    /\ d.time \in Nat

ASSUME StreamAssumptions ==
    /\ \A d \in Devices : IsDevice(d)
    /\ {Capacity, SpeedLimit, Wrap} \subseteq Nat \ {0}
    /\ Traffic \subseteq 0..Capacity
    /\ {MaxLag, MaxBoots} \subseteq Nat
    /\ DOMAIN Fixed \cap Changing = {}

VARIABLES
    device,     \* the device this Builder is for
    scheme,     \* Config.Naming.Scheme
    clock,
    carried,    \* the octets each interface has carried so far
    base,       \* ... and had carried when the agent last started
    boots,      \* restarts of the agent
    profile,    \* compiled.Definition
    startTimes, \* Builder: first observation of each cumulative stream
    prev,       \* Builder: prevCounters, with history fields, see Reading
    pc,         \* "idle", "fetched", "emit", "built"
    store,      \* the values of the poll
    now,        \* time.Now() for Build
    next,       \* the symbol to emit ...
    emitted,    \* ... and the rows of it emitted already
    metrics,    \* pool.byName: the instrument of each metric created
    streams,    \* pool.streams with their datapoints
    utilisation \* the derived datapoints, as the figures they come from

configVars  == <<device, scheme>>
deviceVars  == <<configVars, clock, carried, base, boots>>
builderVars == <<startTimes, prev>>
poolVars    == <<now, next, emitted, metrics, streams, utilisation>>
vars == <<deviceVars, profile, builderVars, pc, store, poolVars>>

Interfaces == device.interfaces
Nothing    == [i \in Interfaces |-> 0]
NoStore    == [rows |-> [c \in Columns |-> {}], octets |-> Nothing, total |-> Nothing, at |-> 0,
               boots |-> 0]

Init ==
    /\ device \in Devices /\ scheme \in device.schemes /\ profile \in device.profiles
    /\ clock = 0 /\ boots = 0 /\ carried = Nothing /\ base = Nothing
    /\ startTimes = EmptyMap /\ prev = EmptyMap
    /\ pc = "idle" /\ store = NoStore
    /\ now = 0 /\ next = 1 /\ emitted = {}
    /\ metrics = EmptyMap /\ streams = EmptyMap /\ utilisation = {}

-----------------------------------------------------------------------------
(* The device.                                                             *)

(* Time passes, between polls or between a fetch and its build.            *)
Tick ==
    /\ clock < device.time
    /\ pc = "idle" \/ (pc = "fetched" /\ clock - store.at < MaxLag)
    /\ clock' = clock + 1
    /\ \E traffic \in [Interfaces -> Traffic] :
          carried' = [i \in Interfaces |-> carried[i] + traffic[i]]
    /\ UNCHANGED <<configVars, base, boots, profile, builderVars, pc, store, poolVars>>

(* The agent restarts: its counters begin again.                           *)
Boot ==
    /\ boots < MaxBoots
    /\ pc \in {"idle", "fetched"}
    /\ boots' = boots + 1
    /\ base' = carried
    /\ UNCHANGED <<configVars, clock, carried, profile, builderVars, pc, store, poolVars>>

-----------------------------------------------------------------------------
(* The values of a poll.                                                   *)

(* compiled.ColumnOIDs: the columns of the symbols and of the tags.        *)
ColumnsOf(s) == s.tags \cup s.siblings \cup Range(s.from)
Asked == UNION {ColumnsOf(s) : s \in Range(profile)}

(* The device answers any rows of the columns asked for, and something.    *)
Fetch(rows) ==
    /\ pc = "idle"
    /\ \E c \in Asked : rows[c] # {}
    /\ pc' = "fetched"
    /\ store' = [rows |-> [c \in Columns |-> IF c \in Asked THEN rows[c] ELSE {}],
                 octets |-> [i \in Interfaces |-> carried[i] - base[i]],
                 total |-> carried, at |-> clock, boots |-> boots]
    /\ UNCHANGED <<deviceVars, profile, builderVars, poolVars>>

Smaller(a, b) == IF a < b THEN a ELSE b

Value(c, i) ==
    CASE c = "ifHCInOctets" -> store.octets[i]
      [] c = "ifInOctets"   -> store.octets[i] % Wrap
      [] c = "ifHighSpeed"  -> Capacity
      [] c = "ifSpeed"      -> Smaller(Capacity, SpeedLimit)
      [] OTHER              -> Fixed[c][i]

(* firstAvailableColumn, rowsFor: the rows of the first column that has     *)
(* any.                                                                    *)
Answered(from)  == {k \in DOMAIN from : store.rows[from[k]] # {}}
Available(from) == from[CHOOSE k \in Answered(from) : \A j \in Answered(from) : k <= j]

RowsOf(from) == IF Answered(from) = {} THEN {} ELSE store.rows[Available(from)]

-----------------------------------------------------------------------------
(* One row of a symbol: under which names, as which instrument, with which *)
(* attributes and which number.                                            *)

SymbolRows(s) == RowsOf(s.from)
Sibling(s, c, i) == IF c \in s.siblings /\ i \in store.rows[c] THEN {Value(c, i)} ELSE {}

(* dispatchSensor: the entry is that of the row's own kind; a row whose    *)
(* kind is not answered, or has no case, is skipped.  Mutant: the kind is  *)
(* that of the first row.                                                  *)
KindOfColumn(s, kind, i) == UNION {Sibling(s, kind, j) : j \in {1}}
KindOfRow(s, kind, i)    == Sibling(s, kind, i)

Resolved(s, i) ==
    LET r == Resolve(scheme, s.name)
    IN  IF r.entry.cases = NoMap THEN {r}
        ELSE UNION {ResolveDispatched(scheme, s.name, r.entry.cases[k]) :
                       k \in KindOfRow(s, r.entry.kind, i) \cap DOMAIN r.entry.cases}

(* instrumentFor: unless the registry says it, the profile, or whether the *)
(* value itself is a counter.                                              *)
InstrumentFor(s) ==
    IF s.type = "rate" \/ (s.type = "" /\ Available(s.from) \in Range(Counters))
    THEN "sum" ELSE "gauge"
InstrumentOf(s, r) ==
    IF r.generated /\ r.entry.states = {} THEN InstrumentFor(s) ELSE r.entry.instrument

(* rowTags: the tags the device answered; an empty one is left out.        *)
RowTags(s, i) ==
    {<<"index", i>> : x \in {TRUE} \cap {s.indexed}}
        \cup {<<c, Value(c, i)>> : c \in {t \in s.tags : i \in store.rows[t] /\ Value(t, i) # 0}}

(* componentPrefix: ifTable and ifXTable describe the same interfaces.     *)
Component(table) == IF table \in {"ifTable", "ifXTable"} THEN "if" ELSE table

(* buildAttributes: hw.id only where the name or the entry wants it.  The  *)
(* names that go with it (hw.name) are read off the tags.                  *)
Attributes(s, r, n, i) ==
    [id |-> IF NamesComponent(r.entry, n) THEN {<<Component(s.table), i>>} ELSE {},
     entry |-> r.entry.attributes, tags |-> RowTags(s, i)]

(* numericValue, with the decimal places a sensor says its value has.      *)
Precision == "entPhySensorPrecision"
EntryValue(s, i) ==
    IF s.constant THEN 1
    ELSE LET raw == Value(Available(s.from), i)
         IN  IF Sibling(s, Precision, i) = {} THEN raw ELSE raw \div 10^Value(Precision, i)

(* emitStateSet: a point per state, of which the active one is 1.  It is   *)
(* read from the value as the device sent it.                              *)
StateValue(s, r, i, state) ==
    LET reported == Value(Available(s.from), i)
    IN  IF reported \in DOMAIN r.entry.active /\ r.entry.active[reported] = state THEN 1 ELSE 0

(* The points one row offers under the k-th of its names.                  *)
Offers(s, r, k, i) ==
    LET n == r.names[k]
        point(state, value) ==
            [name |-> n, instrument |-> InstrumentOf(s, r), priority |-> r.entry.priority,
             key |-> <<n, Attributes(s, r, n, i), state>>, value |-> value]
    IN  IF r.entry.states = {} THEN {point("", EntryValue(s, i))}
        ELSE {point(state, StateValue(s, r, i, state)) : state \in r.entry.states}

-----------------------------------------------------------------------------
(* Build.                                                                  *)

StartBuild ==
    /\ pc = "fetched"
    /\ pc' = "emit"
    /\ now' = clock
    /\ UNCHANGED <<deviceVars, profile, builderVars, store, next, emitted, metrics, streams,
                   utilisation>>

(* A name keeps the instrument it was created with; at a conflict the row  *)
(* is given up, with the names that come after.                            *)
Conflicts(n, instrument) == n \in DOMAIN metrics /\ metrics[n] # instrument

RowOffers(s, i) ==
    UNION {UNION {Offers(s, r, k, i) : k \in {k \in DOMAIN r.names :
              \A j \in 1..k : ~Conflicts(r.names[j], InstrumentOf(s, r))}} : r \in Resolved(s, i)}

(* Mutant: what was emitted first stays.                                   *)
NeverOutranks(o) == FALSE
Outranks(o)      == o.priority > streams[o.key].priority

(* Builder.startTime.  Mutant: every build starts the stream anew.         *)
StartAnew(key) == now
StartOf(key)   == IF key \in DOMAIN startTimes THEN startTimes[key] ELSE now

(* metricPool.add.  A point that exists keeps its start time and changes   *)
(* its value at most; a gauge has no start.                                *)
Point(o) ==
    IF o.key \in DOMAIN streams
    THEN IF Outranks(o)
         THEN [streams[o.key] EXCEPT !.value = o.value, !.priority = o.priority]
         ELSE streams[o.key]
    ELSE [value |-> o.value, priority |-> o.priority,
          start |-> IF o.instrument = "gauge" THEN {} ELSE {StartOf(o.key)}]

Add(offers) ==
    LET keys    == {o.key : o \in offers}
        offer(key) == CHOOSE o \in offers : o.key = key
        started == {o.key : o \in {p \in offers : p.instrument # "gauge"}} \ DOMAIN streams
    IN  /\ metrics' = [n \in DOMAIN metrics \cup {o.name : o \in offers} |->
               IF n \in DOMAIN metrics THEN metrics[n]
               ELSE (CHOOSE o \in offers : o.name = n).instrument]
        /\ streams' = [key \in DOMAIN streams \cup keys |->
               IF key \in keys THEN Point(offer(key)) ELSE streams[key]]
        /\ startTimes' = [key \in DOMAIN startTimes \cup started |->
               IF key \in started THEN StartOf(key) ELSE startTimes[key]]

(* One row of the symbol, in the order of their indexes.                   *)
Remaining == SymbolRows(profile[next]) \ emitted

EmitRow(i) ==
    /\ pc = "emit" /\ next <= Len(profile)
    /\ i \in Remaining /\ \A j \in Remaining : i <= j
    /\ Add(RowOffers(profile[next], i))
    /\ emitted' = emitted \cup {i}
    /\ UNCHANGED <<deviceVars, profile, prev, pc, store, now, next, utilisation>>

(* ... until it has no more, or had none.                                  *)
NextSymbol ==
    /\ pc = "emit" /\ next <= Len(profile)
    /\ Remaining = {}
    /\ next' = next + 1
    /\ emitted' = {}
    /\ UNCHANGED <<deviceVars, profile, builderVars, pc, store, now, metrics, streams, utilisation>>

-----------------------------------------------------------------------------
(* emitBandwidthUtilization, for one direction.                            *)

(* interfaceSpeeds: ifHighSpeed is preferred.                              *)
SpeedKnown == store.rows["ifSpeed"] \cup store.rows["ifHighSpeed"]
Speed(i) == Value(IF i \in store.rows["ifHighSpeed"] THEN "ifHighSpeed" ELSE "ifSpeed", i)

Counted   == RowsOf(Counters) \cap SpeedKnown
OctetColumn == Available(Counters)
Octets(i)   == Value(OctetColumn, i)

(* What prevCounters remembers; column, total and boots are history.       *)
(* Mutant: the counter remembered first stays.                             *)
FirstReading(i) ==
    [value |-> IF i \in DOMAIN prev THEN prev[i].value ELSE Octets(i), at |-> now,
     column |-> OctetColumn, total |-> store.total[i], boots |-> store.boots]
Reading(i) ==
    [value |-> Octets(i), at |-> now, column |-> OctetColumn, total |-> store.total[i],
     boots |-> store.boots]

(* A counter that went back gives nothing.  Mutant: it is taken for a      *)
(* wrapped one.                                                            *)
WrappedDifference(i) == {(Octets(i) - prev[i].value) % Wrap}
Difference(i)        == IF Octets(i) < prev[i].value THEN {} ELSE {Octets(i) - prev[i].value}

(* Builder.utilization: nothing without an earlier reading and time        *)
(* between the two.  The fraction is kept as its figures; what really      *)
(* happened in between is truth, rebooted and switched, when the two       *)
(* readings are of different columns.                                      *)
Measured(i) ==
    IF i \in DOMAIN prev /\ now > prev[i].at
    THEN {[row |-> i, octets |-> d, elapsed |-> now - prev[i].at, capacity |-> Speed(i),
           truth |-> store.total[i] - prev[i].total, rebooted |-> store.boots # prev[i].boots,
           switched |-> OctetColumn # prev[i].column] : d \in Difference(i)}
    ELSE {}

Derive ==
    /\ pc = "emit" /\ next > Len(profile)
    /\ pc' = "built"
    /\ utilisation' = UNION {Measured(i) : i \in Counted}
    /\ prev' = [i \in DOMAIN prev \cup Counted |-> IF i \in Counted THEN Reading(i) ELSE prev[i]]
    /\ UNCHANGED <<deviceVars, profile, startTimes, store, now, next, emitted, metrics, streams>>

-----------------------------------------------------------------------------
(* The pool ends with the build; the Builder stays with the device.        *)
Report ==
    /\ pc = "built"
    /\ pc' = "idle"
    /\ store' = NoStore
    /\ now' = 0 /\ next' = 1 /\ emitted' = {}
    /\ metrics' = EmptyMap /\ streams' = EmptyMap /\ utilisation' = {}
    /\ UNCHANGED <<deviceVars, profile, builderVars>>

(* ensureProfile after the hardware was replaced: another profile, the     *)
(* same Builder.                                                           *)
Reprofile(p) ==
    /\ pc = "idle"
    /\ p # profile
    /\ profile' = p
    /\ UNCHANGED <<deviceVars, builderVars, pc, store, poolVars>>

(* forgetState, and a new Builder when the device is found again.          *)
Forget ==
    /\ pc = "idle"
    /\ startTimes' = EmptyMap /\ prev' = EmptyMap
    /\ UNCHANGED <<deviceVars, profile, pc, store, poolVars>>

Next ==
    \/ Tick
    \/ Boot
    \/ \E rows \in [Asked -> SUBSET Interfaces] : Fetch(rows)
    \/ StartBuild
    \/ \E i \in Interfaces : EmitRow(i)
    \/ NextSymbol
    \/ Derive
    \/ Report
    \/ \E p \in device.profiles : Reprofile(p)
    \/ Forget

Spec == Init /\ [][Next]_vars

-----------------------------------------------------------------------------
(* What a build should report, read off the profile as a whole.  A row has *)
(* a say in a metric if it agrees with its instrument, and with those of   *)
(* the names that come before it.                                          *)
Contribution(k, i) ==
    UNION {UNION {{[symbol |-> k, row |-> i, offer |-> o] : o \in Offers(profile[k], r, j, i)} :
              j \in {j \in DOMAIN r.names : \A h \in 1..j :
                        /\ r.names[h] \in DOMAIN metrics
                        /\ metrics[r.names[h]] = InstrumentOf(profile[k], r)}} :
           r \in Resolved(profile[k], i)}
Contributions ==
    UNION {UNION {Contribution(k, i) : i \in SymbolRows(profile[k])} : k \in DOMAIN profile}

Better(c, d) ==
    \/ c.offer.priority > d.offer.priority
    \/ /\ c.offer.priority = d.offer.priority
       /\ c.symbol < d.symbol \/ (c.symbol = d.symbol /\ c.row < d.row)

(* metricPool: one datapoint per stream and metric, "keeping the highest-  *)
(* priority contributor", whichever columns and rows the device answered,  *)
(* in whatever order the profile lists its symbols, and whatever the       *)
(* naming scheme; of equal ones the first symbol and the first row.        *)
BestSymbolWins ==
    pc = "built" =>
        /\ DOMAIN streams = {c.offer.key : c \in Contributions}
        /\ \A c \in Contributions :
              (\A d \in Contributions : d.offer.key = c.offer.key => ~Better(d, c))
                  => streams[c.offer.key].value = c.offer.value

(* "Without these attributes they could not be joined": each row of a      *)
(* component's metric has datapoints of its own, under its own hw.id,      *)
(* whatever tags the device left out; rows of another metric share them    *)
(* only when their tags are the same.                                      *)
RowsKeptApart ==
    pc = "built" =>
        \A c, d \in Contributions : c.row # d.row /\ c.offer.key = d.offer.key =>
            /\ RowTags(profile[c.symbol], c.row) = RowTags(profile[d.symbol], d.row)
            /\ \A name \in {profile[c.symbol].name, profile[d.symbol].name} :
                  \A e \in Lookup(name) : ~e.identity /\ (e.hardware => scheme # "semconv")

CuratedName(e) == <<"curated", e.metric>>
CaseName(e, k) == CuratedName(Metrics[e.cases[k]])
SensorNames(e) == {CaseName(e, k) : k \in {k \in DOMAIN e.cases : e.cases[k] \in DOMAIN Metrics}}

(* The metrics of sensors and states have one source in a profile: only    *)
(* the symbol of their entry is reported under them, from its own column;  *)
(* a sensor with the precision beside it wherever that is asked for.  Such are the  *)
(* embedded profiles: those with entPhySensorValue have none of the ups*   *)
(* symbols that share its metrics.                                         *)
CuratedNames(symbol) ==
    UNION {IF e.cases = NoMap THEN {CuratedName(e)} ELSE SensorNames(e) : e \in Lookup(symbol)}
ReadingNames(e) == SensorNames(e) \cup {n \in {CuratedName(e)} : e.states # {}}

IsSource(p, q, m) ==
    /\ q.name = m /\ q.from = <<m>> /\ m \in DOMAIN Fixed /\ ~q.constant
    /\ Metrics[m].cases # NoMap =>
          /\ {Metrics[m].kind, Precision} \subseteq DOMAIN Fixed
          /\ \A t \in Range(p) : Precision \in ColumnsOf(t) => Precision \in q.siblings

SensorsAlone ==
    \A d \in Devices : \A p \in d.profiles : \A q \in Range(p) : \A m \in DOMAIN Metrics :
        CuratedNames(q.name) \cap ReadingNames(Metrics[m]) # {} => IsSource(p, q, m)

(* A sensor's reading is reported under the metric of the row's own kind,  *)
(* and is the true one unless its decimal places were not answered; of a   *)
(* state set the only state that is on is the one the device reports.      *)
ReadingsAreTrue ==
    pc = "built" =>
        \A key \in DOMAIN streams : \A id \in key[2].id : \A s \in DOMAIN Metrics :
            LET e == Metrics[s]
                i == id[2]
                value == streams[key].value
            IN  /\ key[1] \in SensorNames(e) =>
                      /\ key[1] \in {CaseName(e, k) : k \in {Fixed[e.kind][i]} \cap DOMAIN e.cases}
                      /\ value = Fixed[s][i] \div 10^Fixed[Precision][i]
                         \/ (value = Fixed[s][i] /\ i \notin store.rows[Precision])
                /\ e.states # {} /\ key[1] = CuratedName(e) =>
                      (value = 1 <=> key[3] \in {e.active[v] : v \in {Fixed[s][i]} \cap DOMAIN e.active})

(* A cumulative stream keeps its start time over all builds, over lost     *)
(* columns, restarts and other profiles, until the device is               *)
(* dropped; every point of it carries that time.                           *)
StartsAreStable ==
    [][ \/ Forget
        \/ /\ \A key \in DOMAIN startTimes :
                 key \in DOMAIN startTimes' /\ startTimes'[key] = startTimes[key]
           /\ \A key \in DOMAIN streams' :
                 metrics'[key[1]] # "gauge" => streams'[key].start = {startTimes'[key]}
      ]_vars

(* Whatever wraps, restarts, lost rows and names, a derived utilisation is *)
(* never more than the interface can have carried, but for the time by     *)
(* which Build is late; if both readings are of one column.                *)
SpikeIsBounded ==
    \A u \in utilisation : ~u.switched => u.octets <= Capacity * (u.elapsed + MaxLag)

(* Without a restart or another column, and with fewer octets than it      *)
(* takes to wrap, it is what the interface has carried since the previous  *)
(* reading, however many polls ago that was, of what it can carry.         *)
UtilisationIsExact ==
    \A u \in utilisation :
        /\ ~u.rebooted /\ ~u.switched /\ (OctetColumn = "ifInOctets" => u.truth < Wrap)
               => u.octets = u.truth
        /\ u.row \in store.rows["ifHighSpeed"] => u.capacity = Capacity
=============================================================================
