------------------------- MODULE MetricStreamsProofs -------------------------
(***************************************************************************)
(* The datapoints and the utilisation of a Builder, for any registry, any  *)
(* devices with any profiles, any number of rows, polls and restarts.      *)
(***************************************************************************)
EXTENDS MetricStreams, OrderLemmas

-----------------------------------------------------------------------------
(* The inductive invariants.                                               *)

StoreTypes ==
    /\ store.rows \in [Columns -> SUBSET Interfaces]
    /\ store.octets \in [Interfaces -> Nat] /\ store.total \in [Interfaces -> Nat]
    /\ store.at \in Nat /\ store.boots \in Nat

PrevTypes ==
    /\ DOMAIN prev \subseteq Interfaces
    /\ \A i \in DOMAIN prev :
          /\ prev[i].value \in Nat /\ prev[i].at \in Nat
          /\ prev[i].total \in Nat /\ prev[i].boots \in Nat
          /\ prev[i].column \in Range(Counters)

DeviceTypes ==
    /\ device \in Devices /\ profile \in device.profiles
    /\ clock \in Nat /\ boots \in Nat
    /\ carried \in [Interfaces -> Nat] /\ base \in [Interfaces -> Nat]
    /\ \A i \in Interfaces : base[i] <= carried[i]

(* The pool of a build exists from StartBuild to Report.                   *)
PoolTypes ==
    /\ pc \in {"idle", "fetched", "emit", "built"}
    /\ now \in Nat /\ next \in 1..(Len(profile) + 1)
    /\ pc \in {"idle", "fetched"} =>
          /\ next = 1 /\ emitted = {} /\ utilisation = {}
          /\ metrics = EmptyMap /\ streams = EmptyMap
    /\ pc = "built" => next = Len(profile) + 1

Types == DeviceTypes /\ StoreTypes /\ PrevTypes /\ PoolTypes

(* A point of a cumulative metric starts when its stream did.              *)
StartsInv ==
    \A key \in DOMAIN streams :
        /\ streams[key] = [value |-> streams[key].value, priority |-> streams[key].priority,
                           start |-> streams[key].start]
        /\ key[1] \in DOMAIN metrics
        /\ metrics[key[1]] # "gauge" =>
              key \in DOMAIN startTimes /\ streams[key].start = {startTimes[key]}

(* The rows of the build that have been emitted, and what they offer.      *)
Done(k, i) == i \in SymbolRows(profile[k]) /\ (k < next \/ (k = next /\ i \in emitted))
SoFar == {c \in Contributions : Done(c.symbol, c.row)}

(* Rows are emitted in the order of their indexes.                         *)
OrderInv ==
    next <= Len(profile) =>
        /\ emitted \subseteq SymbolRows(profile[next])
        /\ \A i \in emitted : \A j \in Remaining : i < j

(* The instrument of a name that a row has reached is settled: whether the *)
(* row has a say in that metric cannot change any more.                    *)
Agrees(s, r, h) ==
    r.names[h] \in DOMAIN metrics /\ metrics[r.names[h]] = InstrumentOf(s, r)
Settled(s, i) ==
    \A r \in Resolved(s, i) : \A j \in DOMAIN r.names :
        (\A h \in 1..(j - 1) : Agrees(s, r, h)) => r.names[j] \in DOMAIN metrics
SettledInv ==
    \A k \in DOMAIN profile : \A i \in SymbolRows(profile[k]) : Done(k, i) => Settled(profile[k], i)

(* Each stream has the value and the priority of the best point so far.    *)
Best(c) == \A d \in SoFar : d.offer.key = c.offer.key => ~Better(d, c)
BestInv ==
    /\ \A c \in SoFar : c.offer.key \in DOMAIN streams
    /\ \A key \in DOMAIN streams : \E c \in SoFar :
          /\ c.offer.key = key /\ Best(c)
          /\ streams[key].value = c.offer.value /\ streams[key].priority = c.offer.priority


(* What a counter shows after so many octets.                              *)
Shown(column, octets) == IF column = "ifHCInOctets" THEN octets ELSE octets % Wrap
Origin(i) == store.total[i] - store.octets[i]

(* The values of a poll are not older than MaxLag, and were the device's.  *)
StoreInv ==
    /\ pc \in {"emit", "built"} => now = clock
    /\ pc # "idle" =>
          /\ store.at <= clock /\ clock - store.at <= MaxLag
          /\ store.boots <= boots
          /\ \A i \in Interfaces :
                /\ store.octets[i] <= store.total[i] /\ store.total[i] <= carried[i]
                /\ carried[i] - store.total[i] <= Capacity * (clock - store.at)
                /\ store.boots = boots => base[i] = Origin(i)
                /\ store.boots < boots => store.total[i] <= base[i]

(* What is remembered was so: of this start of the agent or an earlier     *)
(* one, and the traffic since then is bounded by the time since then.      *)
PrevInv ==
    \A i \in DOMAIN prev :
        /\ prev[i].at <= clock /\ prev[i].boots <= boots /\ prev[i].total <= carried[i]
        /\ carried[i] - prev[i].total <= Capacity * (clock - prev[i].at + MaxLag)
        /\ prev[i].boots = boots =>
              base[i] <= prev[i].total /\ prev[i].value = Shown(prev[i].column, prev[i].total - base[i])
        /\ prev[i].boots < boots => prev[i].total <= base[i]

(* ... seen from the values of the poll.                                   *)
SinceInv ==
    pc \in {"fetched", "emit"} =>
        \A i \in DOMAIN prev :
            /\ prev[i].boots <= store.boots /\ prev[i].total <= store.total[i]
            /\ prev[i].boots = store.boots =>
                  /\ Origin(i) <= prev[i].total
                  /\ prev[i].value = Shown(prev[i].column, prev[i].total - Origin(i))
            /\ prev[i].boots < store.boots => prev[i].total <= Origin(i)

-----------------------------------------------------------------------------
(* What the assumptions say of the device and its profile.                 *)
LEMMA DeviceIs ==
    ASSUME DeviceTypes
    PROVE  /\ Interfaces \subseteq Nat
           /\ \A p \in device.profiles : p \in Seq(Range(p))
           /\ \A p \in device.profiles : \A k \in DOMAIN p : IsSymbol(p[k])
<1>1. IsDevice(device)
  BY StreamAssumptions DEF DeviceTypes
<1>2. ASSUME NEW p \in device.profiles, NEW k \in DOMAIN p PROVE IsSymbol(p[k])
  BY <1>1 DEF IsDevice, Range
<1> QED
  BY <1>1, <1>2 DEF IsDevice, Interfaces

LEMMA NaturalCapacity == Capacity \in Nat \ {0} /\ Wrap \in Nat \ {0} /\ MaxLag \in Nat
BY StreamAssumptions

LEMMA ProfileIs ==
    ASSUME DeviceTypes
    PROVE  /\ Len(profile) \in Nat /\ DOMAIN profile = 1..Len(profile)
           /\ \A k \in DOMAIN profile : IsSymbol(profile[k])
<1>1. profile \in Seq(Range(profile))
  BY DeviceIs DEF DeviceTypes
<1> QED
  BY <1>1, DeviceIs DEF DeviceTypes

(* The column that is read first is one of those named, and has rows.      *)
LEMMA AvailableIs ==
    ASSUME NEW from, NEW n \in Nat, DOMAIN from = 1..n, Answered(from) # {}
    PROVE  /\ Available(from) \in Range(from)
           /\ store.rows[Available(from)] # {}
<1>1. Answered(from) \subseteq Nat
  BY DEF Answered
<1>2. \E k \in Answered(from) : \A j \in Answered(from) : k <= j
  BY <1>1, LeastNatural
<1> DEFINE k == CHOOSE k \in Answered(from) : \A j \in Answered(from) : k <= j
<1>3. k \in Answered(from)
  BY <1>2
<1>4. Available(from) = from[k]
  BY DEF Available
<1> HIDE DEF k
<1> QED
  BY <1>3, <1>4 DEF Answered, Range

LEMMA RowsAreInterfaces ==
    ASSUME NEW from \in Seq(Columns), StoreTypes
    PROVE  RowsOf(from) \subseteq Interfaces
<1>1. CASE Answered(from) = {}
  BY <1>1 DEF RowsOf
<1>2. CASE Answered(from) # {}
  <2>1. Len(from) \in Nat /\ DOMAIN from = 1..Len(from) /\ Range(from) \subseteq Columns
    BY DEF Range
  <2>2. Available(from) \in Columns
    BY <1>2, <2>1, AvailableIs
  <2> QED
    BY <1>2, <2>2 DEF RowsOf, StoreTypes
<1> QED
  BY <1>1, <1>2

LEMMA CountersAre ==
    /\ DOMAIN Counters = 1..2 /\ Counters \in Seq(Columns)
    /\ Range(Counters) = {"ifHCInOctets", "ifInOctets"}
<1>1. DOMAIN Counters = 1..2
  BY DEF Counters
<1>2. Counters \in Seq(Columns)
  BY DEF Counters, Columns, Changing
<1>3. Range(Counters) = {"ifHCInOctets", "ifInOctets"}
  BY DEF Counters, Range
<1> QED
  BY <1>1, <1>2, <1>3

(* Only rows that are answered are counted, in one of the two columns.     *)
LEMMA CountedIs ==
    ASSUME StoreTypes, NEW i \in Counted
    PROVE  i \in Interfaces /\ OctetColumn \in Range(Counters)
<1>1. i \in RowsOf(Counters) /\ Answered(Counters) # {}
  BY DEF Counted, RowsOf
<1>2. i \in Interfaces
  BY <1>1, CountersAre, RowsAreInterfaces
<1>3. OctetColumn \in Range(Counters)
  <2>1. DOMAIN Counters = 1..2 /\ 2 \in Nat
    BY CountersAre
  <2> QED
    BY <1>1, <2>1, AvailableIs DEF OctetColumn
<1> QED
  BY <1>2, <1>3

-----------------------------------------------------------------------------
(* Types.                                                                  *)
LEMMA OctetsType ==
    ASSUME StoreTypes, NEW i \in Counted
    PROVE  Octets(i) \in Nat
<1>1. store.octets[i] \in Nat /\ OctetColumn \in {"ifHCInOctets", "ifInOctets"}
  BY CountedIs, CountersAre DEF StoreTypes
<1>2. store.octets[i] % Wrap \in Nat
  BY <1>1, NaturalCapacity
<1> QED
  BY <1>1, <1>2 DEF Octets, Value

(* An interface carries no more than it can.                               *)
LEMMA TickCarries ==
    ASSUME DeviceTypes, Tick
    PROVE  /\ carried' \in [Interfaces -> Nat]
           /\ \A i \in Interfaces :
                 carried[i] <= carried'[i] /\ carried'[i] <= carried[i] + Capacity
<1>1. PICK traffic \in [Interfaces -> Traffic] :
         carried' = [i \in Interfaces |-> carried[i] + traffic[i]]
  BY DEF Tick
<1>2. ASSUME NEW i \in Interfaces
      PROVE  /\ carried[i] + traffic[i] \in Nat
             /\ carried[i] <= carried[i] + traffic[i]
             /\ carried[i] + traffic[i] <= carried[i] + Capacity
  <2>1. traffic[i] \in 0..Capacity
    <3>1. traffic[i] \in Traffic
      OBVIOUS
    <3> QED
      BY <3>1, StreamAssumptions
  <2>2. carried[i] \in Nat
    BY DEF DeviceTypes
  <2> QED
    BY <2>1, <2>2, NaturalCapacity
<1> QED
  BY <1>1, <1>2

LEMMA TypesInit == Init => Types
<1> SUFFICES ASSUME Init PROVE Types
  OBVIOUS
<1>1. DeviceTypes
  BY DEF Init, DeviceTypes, Nothing
<1>2. StoreTypes
  BY DEF Init, StoreTypes, NoStore, Nothing
<1>3. PrevTypes
  BY DEF Init, PrevTypes, EmptyMap
<1>4. Len(profile) \in Nat
  BY <1>1, ProfileIs
<1>5. PoolTypes
  BY <1>4 DEF Init, PoolTypes
<1> QED
  BY <1>1, <1>2, <1>3, <1>5 DEF Types

LEMMA TypesStep == Types /\ [Next]_vars => Types'
<1> SUFFICES ASSUME Types, [Next]_vars PROVE Types'
  OBVIOUS
<1> USE DEF Types
<1>0. Len(profile) \in Nat /\ DOMAIN profile = 1..Len(profile)
  BY ProfileIs
<1>1. CASE Tick
  <2>3. Interfaces' = Interfaces
    BY <1>1 DEF Tick, configVars, Interfaces
  <2>4. /\ carried' \in [Interfaces -> Nat]
        /\ \A i \in Interfaces : carried[i] <= carried'[i]
    BY <1>1, TickCarries
  <2>5. \A i \in Interfaces : base[i] <= carried'[i]
    <3>1. ASSUME NEW i \in Interfaces PROVE base[i] <= carried'[i]
      <4>1. base[i] <= carried[i] /\ carried[i] <= carried'[i]
        BY <2>4 DEF DeviceTypes
      <4>2. base[i] \in Nat /\ carried[i] \in Nat /\ carried'[i] \in Nat
        BY <2>4 DEF DeviceTypes
      <4> QED
        BY <4>1, <4>2
    <3> QED
      BY <3>1
  <2>7. DeviceTypes'
    BY <1>1, <2>3, <2>4, <2>5 DEF Tick, configVars, DeviceTypes
  <2>6. StoreTypes' /\ PrevTypes' /\ PoolTypes'
    BY <1>1, <2>3 DEF Tick, configVars, builderVars, poolVars, StoreTypes, PrevTypes, PoolTypes
  <2> QED
    BY <2>6, <2>7
<1>2. CASE Boot
  <2>1. Interfaces' = Interfaces
    BY <1>2 DEF Boot, configVars, Interfaces
  <2>2. DeviceTypes'
    BY <1>2, <2>1 DEF Boot, configVars, DeviceTypes
  <2>3. StoreTypes' /\ PrevTypes' /\ PoolTypes'
    BY <1>2, <2>1 DEF Boot, configVars, builderVars, poolVars, StoreTypes, PrevTypes, PoolTypes
  <2> QED
    BY <2>2, <2>3
<1>3. ASSUME NEW rows \in [Asked -> SUBSET Interfaces], Fetch(rows) PROVE Types'
  <2>1. Interfaces' = Interfaces
    BY <1>3 DEF Fetch, deviceVars, configVars, Interfaces
  <2>2. DeviceTypes' /\ PrevTypes' /\ PoolTypes'
    BY <1>3, <2>1 DEF Fetch, deviceVars, configVars, builderVars, poolVars, DeviceTypes,
                      PrevTypes, PoolTypes
  <2>3. [c \in Columns |-> IF c \in Asked THEN rows[c] ELSE {}] \in [Columns -> SUBSET Interfaces]
    OBVIOUS
  <2>4. [i \in Interfaces |-> carried[i] - base[i]] \in [Interfaces -> Nat]
    <3>1. ASSUME NEW i \in Interfaces PROVE carried[i] - base[i] \in Nat
      BY DEF DeviceTypes
    <3> QED
      BY <3>1
  <2>5. StoreTypes'
    BY <1>3, <2>1, <2>3, <2>4 DEF Fetch, StoreTypes, DeviceTypes
  <2> QED
    BY <2>2, <2>5
<1>4. CASE StartBuild
  <2>1. Interfaces' = Interfaces
    BY <1>4 DEF StartBuild, deviceVars, configVars, Interfaces
  <2>2. DeviceTypes' /\ StoreTypes' /\ PrevTypes'
    BY <1>4, <2>1 DEF StartBuild, deviceVars, configVars, builderVars, DeviceTypes, StoreTypes,
                      PrevTypes
  <2>3. PoolTypes'
    BY <1>4 DEF StartBuild, PoolTypes, DeviceTypes
  <2> QED
    BY <2>2, <2>3
<1>5. ASSUME NEW i \in Interfaces, EmitRow(i) PROVE Types'
  <2>1. Interfaces' = Interfaces
    BY <1>5 DEF EmitRow, deviceVars, configVars, Interfaces
  <2>2. DeviceTypes' /\ StoreTypes' /\ PrevTypes'
    BY <1>5, <2>1 DEF EmitRow, deviceVars, configVars, DeviceTypes, StoreTypes, PrevTypes
  <2>3. PoolTypes'
    BY <1>5 DEF EmitRow, PoolTypes
  <2> QED
    BY <2>2, <2>3
<1>6. CASE NextSymbol
  <2>1. Interfaces' = Interfaces
    BY <1>6 DEF NextSymbol, deviceVars, configVars, Interfaces
  <2>2. DeviceTypes' /\ StoreTypes' /\ PrevTypes'
    BY <1>6, <2>1 DEF NextSymbol, deviceVars, configVars, builderVars, DeviceTypes, StoreTypes,
                      PrevTypes
  <2>3. PoolTypes'
    BY <1>0, <1>6 DEF NextSymbol, PoolTypes
  <2> QED
    BY <2>2, <2>3
<1>7. CASE Derive
  <2>1. Interfaces' = Interfaces
    BY <1>7 DEF Derive, deviceVars, configVars, Interfaces
  <2>2. DeviceTypes' /\ StoreTypes'
    BY <1>7, <2>1 DEF Derive, deviceVars, configVars, DeviceTypes, StoreTypes
  <2>3. PoolTypes'
    BY <1>0, <1>7 DEF Derive, PoolTypes
  <2>4. prev' = [i \in DOMAIN prev \cup Counted |-> IF i \in Counted THEN Reading(i) ELSE prev[i]]
    BY <1>7 DEF Derive
  <2>5. Counted \subseteq Interfaces
    BY CountedIs
  <2>6. ASSUME NEW i \in Counted
        PROVE  /\ Reading(i).value \in Nat /\ Reading(i).at \in Nat
               /\ Reading(i).total \in Nat /\ Reading(i).boots \in Nat
               /\ Reading(i).column \in Range(Counters)
    <3>1. Octets(i) \in Nat /\ OctetColumn \in Range(Counters) /\ i \in Interfaces
      BY OctetsType, CountedIs
    <3> QED
      BY <3>1 DEF Reading, StoreTypes, PoolTypes
  <2>7. PrevTypes'
    BY <2>1, <2>4, <2>5, <2>6 DEF PrevTypes
  <2> QED
    BY <2>2, <2>3, <2>7
<1>8. CASE Report
  <2>1. Interfaces' = Interfaces
    BY <1>8 DEF Report, deviceVars, configVars, Interfaces
  <2>2. DeviceTypes' /\ PrevTypes'
    BY <1>8, <2>1 DEF Report, deviceVars, configVars, builderVars, DeviceTypes, PrevTypes
  <2>3. StoreTypes'
    BY <1>8, <2>1 DEF Report, StoreTypes, NoStore, Nothing
  <2>4. PoolTypes'
    BY <1>0, <1>8 DEF Report, PoolTypes
  <2> QED
    BY <2>2, <2>3, <2>4
<1>9. ASSUME NEW p \in device.profiles, Reprofile(p) PROVE Types'
  <2>1. Interfaces' = Interfaces
    BY <1>9 DEF Reprofile, deviceVars, configVars, Interfaces
  <2>2. DeviceTypes' /\ StoreTypes' /\ PrevTypes'
    BY <1>9, <2>1 DEF Reprofile, deviceVars, configVars, builderVars, DeviceTypes, StoreTypes,
                      PrevTypes
  <2>3. Len(p) \in Nat
    BY DeviceIs
  <2>4. PoolTypes'
    BY <1>9, <2>3 DEF Reprofile, poolVars, PoolTypes
  <2> QED
    BY <2>2, <2>4
<1>10. CASE Forget
  <2>1. Interfaces' = Interfaces
    BY <1>10 DEF Forget, deviceVars, configVars, Interfaces
  <2>2. DeviceTypes' /\ StoreTypes' /\ PoolTypes'
    BY <1>10, <2>1 DEF Forget, deviceVars, configVars, poolVars, DeviceTypes, StoreTypes, PoolTypes
  <2>3. PrevTypes'
    BY <1>10 DEF Forget, PrevTypes, EmptyMap
  <2> QED
    BY <2>2, <2>3
<1>11. CASE UNCHANGED vars
  BY <1>11 DEF vars, deviceVars, configVars, builderVars, poolVars, DeviceTypes, StoreTypes,
               PrevTypes, PoolTypes, Interfaces
<1> QED
  BY <1>1, <1>2, <1>3, <1>4, <1>5, <1>6, <1>7, <1>8, <1>9, <1>10, <1>11 DEF Next

-----------------------------------------------------------------------------
(* The names of a symbol and the points of a row.                          *)

(* A symbol has at most one resolution, of at most two different names.    *)
LEMMA OneName ==
    ASSUME NEW q, NEW entry, NEW own, NEW symbol, NEW curated,
           q = ApplyScheme(scheme, entry, own, symbol, curated)
    PROVE  /\ \E n \in 1..2 : DOMAIN q.names = 1..n
           /\ \A j, k \in DOMAIN q.names : q.names[j] = q.names[k] => j = k
           /\ q.entry = entry
<1>1. CASE scheme = "datadog_compat"
  <2>1. q.names = <<CompatName(symbol)>>
    BY <1>1 DEF ApplyScheme
  <2> QED
    BY <2>1 DEF ApplyScheme
<1>2. CASE scheme # "datadog_compat" /\ scheme = "both" /\ CompatName(symbol) # own
  <2>1. q.names = <<own, CompatName(symbol)>>
    BY <1>2 DEF ApplyScheme
  <2>2. DOMAIN q.names = 1..2 /\ q.names[1] = own /\ q.names[2] = CompatName(symbol)
    BY <2>1
  <2> QED
    BY <1>2, <2>2 DEF ApplyScheme
<1>3. CASE scheme # "datadog_compat" /\ ~ (scheme = "both" /\ CompatName(symbol) # own)
  <2>1. q.names = <<own>>
    BY <1>3 DEF ApplyScheme
  <2> QED
    BY <2>1 DEF ApplyScheme
<1> QED
  BY <1>1, <1>2, <1>3

LEMMA OneKind ==
    ASSUME NEW s, NEW kind, NEW i
    PROVE  \A v, w \in KindOfRow(s, kind, i) : v = w
BY DEF KindOfRow, Sibling

LEMMA OneResolution ==
    ASSUME NEW s, NEW i
    PROVE  \A q, r \in Resolved(s, i) : q = r
<1> DEFINE e == Resolve(scheme, s.name).entry
<1>1. CASE e.cases = NoMap
  BY <1>1 DEF Resolved
<1>2. CASE e.cases # NoMap
  <2>1. ASSUME NEW q \in Resolved(s, i)
        PROVE  \E k \in KindOfRow(s, e.kind, i) : q \in ResolveDispatched(scheme, s.name, e.cases[k])
    BY <1>2 DEF Resolved
  <2>2. ASSUME NEW t, NEW q \in ResolveDispatched(scheme, s.name, t),
               NEW r \in ResolveDispatched(scheme, s.name, t)
        PROVE  q = r
    BY DEF ResolveDispatched
  <2>3. ASSUME NEW q \in Resolved(s, i), NEW r \in Resolved(s, i) PROVE q = r
    <3>1. PICK k \in KindOfRow(s, e.kind, i) : q \in ResolveDispatched(scheme, s.name, e.cases[k])
      BY <2>1
    <3>2. PICK h \in KindOfRow(s, e.kind, i) : r \in ResolveDispatched(scheme, s.name, e.cases[h])
      BY <2>1
    <3>3. k = h
      BY OneKind
    <3> QED
      BY <3>1, <3>2, <3>3, <2>2
  <2> QED
    BY <2>3
<1> QED
  BY <1>1, <1>2

(* Where a resolution comes from: an entry of the registry, or none.       *)
LEMMA ResolveIs ==
    ASSUME NEW symbol
    PROVE  \E entry, own, curated :
              /\ Resolve(scheme, symbol) = ApplyScheme(scheme, entry, own, symbol, curated)
              /\ \/ entry \in Lookup(symbol) /\ own = <<"curated", entry.metric>> /\ curated = TRUE
                 \/ Lookup(symbol) = {} /\ entry = Entry("", FALSE, "gauge")
<1>1. CASE Lookup(symbol) = {}
  BY <1>1 DEF Resolve
<1>2. CASE Lookup(symbol) # {}
  <2> DEFINE entry == CHOOSE e \in Lookup(symbol) : TRUE
  <2>1. entry \in Lookup(symbol)
    BY <1>2
  <2>2. Resolve(scheme, symbol) =
            ApplyScheme(scheme, entry, <<"curated", entry.metric>>, symbol, TRUE)
    BY <1>2 DEF Resolve
  <2> HIDE DEF entry
  <2> QED
    BY <2>1, <2>2
<1> QED
  BY <1>1, <1>2

LEMMA LookupIs ==
    ASSUME NEW symbol, NEW e \in Lookup(symbol)
    PROVE  /\ \A f \in Lookup(symbol) : f = e
           /\ e.priority \in Nat
           /\ e.cases # NoMap => ~e.hardware /\ ~e.identity
<1>1. \A f \in Lookup(symbol) : f = e
  BY DEF Lookup
<1>2. e \in {Metrics[s] : s \in DOMAIN Metrics} \cup {SystemMetrics[s] : s \in DOMAIN SystemMetrics}
  BY DEF Lookup
<1> QED
  BY <1>1, <1>2, NamingAssumptions

(* Every resolution of a row, dispatched or not.                           *)
LEMMA ResolvedIs ==
    ASSUME NEW s, NEW i, NEW r \in Resolved(s, i)
    PROVE  /\ \E n \in 1..2 : DOMAIN r.names = 1..n
           /\ \A j, k \in DOMAIN r.names : r.names[j] = r.names[k] => j = k
           /\ r.entry.priority \in Nat
<1> DEFINE whole == Resolve(scheme, s.name)
<1>1. CASE whole.entry.cases = NoMap
  <2>1. r = whole
    BY <1>1 DEF Resolved
  <2>2. PICK entry, own, curated :
           /\ whole = ApplyScheme(scheme, entry, own, s.name, curated)
           /\ \/ entry \in Lookup(s.name)
              \/ entry = Entry("", FALSE, "gauge")
    BY ResolveIs
  <2>3. Entry("", FALSE, "gauge").priority \in Nat
    BY DEF Entry
  <2> HIDE DEF whole
  <2>4. entry.priority \in Nat
    BY <2>2, <2>3, LookupIs
  <2>5. r = ApplyScheme(scheme, entry, own, s.name, curated)
    BY <2>1, <2>2
  <2>6. /\ \E n \in 1..2 : DOMAIN r.names = 1..n
        /\ \A j, k \in DOMAIN r.names : r.names[j] = r.names[k] => j = k
        /\ r.entry = entry
    BY <2>5, OneName
  <2> QED
    BY <2>4, <2>6
<1>2. CASE whole.entry.cases # NoMap
  <2>1. PICK t : r \in ResolveDispatched(scheme, s.name, t)
    BY <1>2 DEF Resolved
  <2>2. t \in DOMAIN Metrics /\ r = ApplyScheme(scheme, Metrics[t], <<"curated", Metrics[t].metric>>,
                                              s.name, TRUE)
    BY <2>1 DEF ResolveDispatched
  <2>3. Metrics[t].priority \in Nat
    BY <2>2, NamingAssumptions
  <2>4. /\ \E n \in 1..2 : DOMAIN r.names = 1..n
        /\ \A j, k \in DOMAIN r.names : r.names[j] = r.names[k] => j = k
        /\ r.entry = Metrics[t]
    BY <2>2, OneName
  <2> QED
    BY <2>3, <2>4
<1> QED
  BY <1>1, <1>2

(* What a point says of where it comes from.                               *)
LEMMA OfferIs ==
    ASSUME NEW s, NEW r, NEW k, NEW i, NEW o \in Offers(s, r, k, i)
    PROVE  /\ o.name = r.names[k] /\ o.instrument = InstrumentOf(s, r)
           /\ o.priority = r.entry.priority
           /\ o.key[1] = r.names[k] /\ o.key[2] = Attributes(s, r, r.names[k], i)
           /\ \A p \in Offers(s, r, k, i) : p.key = o.key => p = o
<1> DEFINE n == r.names[k]
           point(state, value) ==
               [name |-> n, instrument |-> InstrumentOf(s, r), priority |-> r.entry.priority,
                key |-> <<n, Attributes(s, r, n, i), state>>, value |-> value]
<1>1. CASE r.entry.states = {}
  <2>1. Offers(s, r, k, i) = {point("", EntryValue(s, i))}
    BY <1>1 DEF Offers
  <2>2. o = point("", EntryValue(s, i)) /\ \A p \in Offers(s, r, k, i) : p = o
    BY <2>1
  <2>3. /\ o.name = n /\ o.instrument = InstrumentOf(s, r) /\ o.priority = r.entry.priority
        /\ o.key = <<n, Attributes(s, r, n, i), "">>
    BY <2>2
  <2> QED
    BY <2>2, <2>3
<1>2. CASE r.entry.states # {}
  <2>1. Offers(s, r, k, i) = {point(state, StateValue(s, r, i, state)) : state \in r.entry.states}
    BY <1>2 DEF Offers
  <2>2. PICK state \in r.entry.states : o = point(state, StateValue(s, r, i, state))
    BY <2>1
  <2>3. ASSUME NEW p \in Offers(s, r, k, i), p.key = o.key PROVE p = o
    <3>1. PICK other \in r.entry.states : p = point(other, StateValue(s, r, i, other))
      BY <2>1
    <3>2. o.key = <<n, Attributes(s, r, n, i), state>> /\ p.key = <<n, Attributes(s, r, n, i), other>>
      BY <2>2, <3>1
    <3>3. other = state
      BY <2>3, <3>2
    <3> QED
      BY <2>2, <3>1, <3>3
  <2> QED
    BY <2>2, <2>3
<1> QED
  BY <1>1, <1>2

LEMMA RowOfferIs ==
    ASSUME NEW s, NEW i, NEW o
    PROVE  o \in RowOffers(s, i) <=>
              \E r \in Resolved(s, i) : \E k \in DOMAIN r.names :
                  /\ \A j \in 1..k : ~Conflicts(r.names[j], InstrumentOf(s, r))
                  /\ o \in Offers(s, r, k, i)
BY DEF RowOffers

(* A row gives a stream one point at most, and a metric one instrument.    *)
LEMMA OneOffer ==
    ASSUME NEW s, NEW i, NEW o \in RowOffers(s, i), NEW p \in RowOffers(s, i)
    PROVE  /\ o.instrument = p.instrument
           /\ o.key = p.key => o = p
           /\ o.key[1] = o.name
           /\ ~Conflicts(o.name, o.instrument)
<1>1. PICK r \in Resolved(s, i) : \E k \in DOMAIN r.names :
         /\ \A j \in 1..k : ~Conflicts(r.names[j], InstrumentOf(s, r))
         /\ o \in Offers(s, r, k, i)
  BY RowOfferIs
<1>2. PICK k \in DOMAIN r.names :
         /\ \A j \in 1..k : ~Conflicts(r.names[j], InstrumentOf(s, r))
         /\ o \in Offers(s, r, k, i)
  BY <1>1
<1>3. PICK h \in DOMAIN r.names : p \in Offers(s, r, h, i)
  BY RowOfferIs, OneResolution
<1>4. k \in 1..k
  BY ResolvedIs
<1>5. /\ o.name = r.names[k] /\ p.name = r.names[h]
      /\ o.instrument = InstrumentOf(s, r) /\ p.instrument = InstrumentOf(s, r)
      /\ o.key[1] = r.names[k] /\ p.key[1] = r.names[h]
  BY <1>2, <1>3, OfferIs
<1>6. ASSUME o.key = p.key PROVE o = p
  <2>1. r.names[k] = r.names[h]
    BY <1>5, <1>6
  <2>2. k = h
    BY <2>1, ResolvedIs
  <2> QED
    BY <1>2, <1>3, <1>6, <2>2, OfferIs
<1> QED
  BY <1>2, <1>4, <1>5, <1>6

-----------------------------------------------------------------------------
(* Start times.                                                            *)

(* The effect of adding the points of one row.                             *)
LEMMA AddedMetrics ==
    ASSUME NEW s, NEW i, Add(RowOffers(s, i))
    PROVE  /\ \A n \in DOMAIN metrics : n \in DOMAIN metrics' /\ metrics'[n] = metrics[n]
           /\ \A o \in RowOffers(s, i) : o.name \in DOMAIN metrics' /\ metrics'[o.name] = o.instrument
           /\ \A n \in DOMAIN metrics' : n \in DOMAIN metrics \/ \E o \in RowOffers(s, i) : o.name = n
<1> DEFINE offers == RowOffers(s, i)
<1>1. metrics' = [n \in DOMAIN metrics \cup {o.name : o \in offers} |->
               IF n \in DOMAIN metrics THEN metrics[n]
               ELSE (CHOOSE o \in offers : o.name = n).instrument]
  BY DEF Add
<1>2. ASSUME NEW o \in offers PROVE metrics'[o.name] = o.instrument
  <2>1. o.name \in DOMAIN metrics \cup {p.name : p \in offers}
    OBVIOUS
  <2>2. CASE o.name \in DOMAIN metrics
    <3>1. ~Conflicts(o.name, o.instrument)
      BY OneOffer
    <3>2. metrics'[o.name] = metrics[o.name]
      BY <1>1, <2>1, <2>2
    <3> QED
      BY <2>2, <3>1, <3>2 DEF Conflicts
  <2>3. CASE o.name \notin DOMAIN metrics
    <3> DEFINE q == CHOOSE p \in offers : p.name = o.name
    <3>1. q \in offers
      OBVIOUS
    <3>2. metrics'[o.name] = q.instrument
      BY <1>1, <2>1, <2>3
    <3> HIDE DEF q
    <3> QED
      BY <3>1, <3>2, OneOffer
  <2> QED
    BY <2>2, <2>3
<1> HIDE DEF offers
<1>3. \A o \in offers : o.name \in DOMAIN metrics'
  BY <1>1
<1>4. \A n \in DOMAIN metrics' : n \in DOMAIN metrics \/ \E o \in offers : o.name = n
  BY <1>1
<1>5. \A n \in DOMAIN metrics : n \in DOMAIN metrics' /\ metrics'[n] = metrics[n]
  BY <1>1
<1> QED
  BY <1>2, <1>3, <1>4, <1>5 DEF offers

LEMMA AddedStreams ==
    ASSUME NEW s, NEW i, Add(RowOffers(s, i))
    PROVE  /\ \A key \in DOMAIN streams :
                 /\ key \in DOMAIN streams'
                 /\ (\A o \in RowOffers(s, i) : o.key # key) => streams'[key] = streams[key]
           /\ \A o \in RowOffers(s, i) : o.key \in DOMAIN streams' /\ streams'[o.key] = Point(o)
           /\ \A key \in DOMAIN streams' :
                 key \in DOMAIN streams \/ \E o \in RowOffers(s, i) : o.key = key
<1> DEFINE offers == RowOffers(s, i)
           keys == {o.key : o \in offers}
           offer(key) == CHOOSE o \in offers : o.key = key
<1>1. streams' = [key \in DOMAIN streams \cup keys |->
               IF key \in keys THEN Point(offer(key)) ELSE streams[key]]
  BY DEF Add
<1>2. ASSUME NEW o \in offers PROVE offer(o.key) = o
  <2>1. offer(o.key) \in offers /\ offer(o.key).key = o.key
    OBVIOUS
  <2> HIDE DEF offer
  <2> QED
    BY <2>1, OneOffer
<1>3. ASSUME NEW o \in offers PROVE o.key \in DOMAIN streams' /\ streams'[o.key] = Point(o)
  <2>1. o.key \in keys
    OBVIOUS
  <2> HIDE DEF keys, offer
  <2>2. streams'[o.key] = Point(offer(o.key))
    BY <1>1, <2>1
  <2> QED
    BY <1>1, <1>2, <2>1, <2>2
<1>4. ASSUME NEW key \in DOMAIN streams, \A o \in offers : o.key # key
      PROVE  streams'[key] = streams[key]
  <2>1. key \notin keys
    BY <1>4
  <2> HIDE DEF keys, offer
  <2> QED
    BY <1>1, <2>1
<1>5. DOMAIN streams' = DOMAIN streams \cup keys
  <2> HIDE DEF keys, offer
  <2> QED
    BY <1>1
<1> QED
  BY <1>3, <1>4, <1>5

LEMMA AddedStarts ==
    ASSUME NEW s, NEW i, Add(RowOffers(s, i))
    PROVE  /\ \A key \in DOMAIN startTimes :
                 key \in DOMAIN startTimes' /\ startTimes'[key] = startTimes[key]
           /\ \A o \in RowOffers(s, i) :
                 o.instrument # "gauge" /\ o.key \notin DOMAIN streams =>
                     o.key \in DOMAIN startTimes' /\ startTimes'[o.key] = StartOf(o.key)
<1> DEFINE started == {o.key : o \in {p \in RowOffers(s, i) : p.instrument # "gauge"}} \ DOMAIN streams
<1>1. startTimes' = [key \in DOMAIN startTimes \cup started |->
               IF key \in started THEN StartOf(key) ELSE startTimes[key]]
  BY DEF Add
<1>2. \A o \in RowOffers(s, i) :
         o.instrument # "gauge" /\ o.key \notin DOMAIN streams => o.key \in started
  OBVIOUS
<1> HIDE DEF started
<1>3. \A key \in started : key \in DOMAIN startTimes' /\ startTimes'[key] = StartOf(key)
  BY <1>1
<1>4. ASSUME NEW key \in DOMAIN startTimes
      PROVE  key \in DOMAIN startTimes' /\ startTimes'[key] = startTimes[key]
  <2>1. StartOf(key) = startTimes[key]
    BY DEF StartOf
  <2> QED
    BY <1>1, <2>1
<1> QED
  BY <1>2, <1>3, <1>4

(* The shape of a point.                                                   *)
IsPoint(x) == x = [value |-> x.value, priority |-> x.priority, start |-> x.start]

LEMMA PointIs ==
    ASSUME NEW o, StartsInv
    PROVE  /\ IsPoint(Point(o))
           /\ o.key \in DOMAIN streams => Point(o).start = streams[o.key].start
           /\ o.key \notin DOMAIN streams =>
                 Point(o).start = IF o.instrument = "gauge" THEN {} ELSE {StartOf(o.key)}
<1>1. CASE o.key \in DOMAIN streams
  <2>1. IsPoint(streams[o.key])
    BY <1>1 DEF StartsInv, IsPoint
  <2>2. CASE Outranks(o)
    <3>1. Point(o) = [streams[o.key] EXCEPT !.value = o.value, !.priority = o.priority]
      BY <1>1, <2>2 DEF Point
    <3>2. Point(o) = [value |-> o.value, priority |-> o.priority, start |-> streams[o.key].start]
      BY <2>1, <3>1 DEF IsPoint
    <3> QED
      BY <1>1, <3>2 DEF IsPoint
  <2>3. CASE ~Outranks(o)
    BY <1>1, <2>1, <2>3 DEF Point
  <2> QED
    BY <2>2, <2>3
<1>2. CASE o.key \notin DOMAIN streams
  BY <1>2 DEF Point, IsPoint
<1> QED
  BY <1>1, <1>2

LEMMA RowKeepsStarts ==
    ASSUME StartsInv, NEW i, EmitRow(i)
    PROVE  /\ StartsInv'
           /\ \A key \in DOMAIN startTimes :
                 key \in DOMAIN startTimes' /\ startTimes'[key] = startTimes[key]
<1> DEFINE s == profile[next]
           offers == RowOffers(s, i)
<1>1. Add(offers)
  BY DEF EmitRow
<1> HIDE DEF s
<1>2. \A key \in DOMAIN startTimes :
         key \in DOMAIN startTimes' /\ startTimes'[key] = startTimes[key]
  BY <1>1, AddedStarts
<1>3. ASSUME NEW o \in offers
      PROVE  /\ IsPoint(streams'[o.key])
             /\ o.key[1] \in DOMAIN metrics'
             /\ metrics'[o.key[1]] # "gauge" =>
                   o.key \in DOMAIN startTimes' /\ streams'[o.key].start = {startTimes'[o.key]}
  <2>1. streams'[o.key] = Point(o)
    BY <1>1, AddedStreams
  <2>2. o.key[1] = o.name /\ o.name \in DOMAIN metrics' /\ metrics'[o.name] = o.instrument
    BY <1>1, AddedMetrics, OneOffer
  <2>3. CASE o.key \in DOMAIN streams
    <3>1. /\ Point(o).start = streams[o.key].start
          /\ o.name \in DOMAIN metrics
          /\ metrics[o.name] # "gauge" =>
                o.key \in DOMAIN startTimes /\ streams[o.key].start = {startTimes[o.key]}
      BY <2>2, <2>3, PointIs DEF StartsInv
    <3>2. metrics'[o.name] = metrics[o.name]
      BY <1>1, <3>1, AddedMetrics
    <3> QED
      BY <1>2, <2>1, <2>2, <3>1, <3>2, PointIs
  <2>4. CASE o.key \notin DOMAIN streams
    <3>1. IsPoint(Point(o)) /\ Point(o).start = IF o.instrument = "gauge" THEN {} ELSE {StartOf(o.key)}
      BY <2>4, PointIs
    <3>2. o.instrument # "gauge" => o.key \in DOMAIN startTimes' /\ startTimes'[o.key] = StartOf(o.key)
      BY <1>1, <2>4, AddedStarts
    <3> QED
      BY <2>1, <2>2, <3>1, <3>2
  <2> QED
    BY <2>3, <2>4
<1>4. ASSUME NEW key \in DOMAIN streams'
      PROVE  /\ IsPoint(streams'[key])
             /\ key[1] \in DOMAIN metrics'
             /\ metrics'[key[1]] # "gauge" =>
                   key \in DOMAIN startTimes' /\ streams'[key].start = {startTimes'[key]}
  <2>1. CASE \E o \in offers : o.key = key
    BY <1>3, <2>1
  <2>2. CASE \A o \in offers : o.key # key
    <3>1. key \in DOMAIN streams /\ streams'[key] = streams[key]
      BY <1>1, <2>2, AddedStreams
    <3>2. key[1] \in DOMAIN metrics /\ metrics'[key[1]] = metrics[key[1]] /\ key[1] \in DOMAIN metrics'
      BY <1>1, <3>1, AddedMetrics DEF StartsInv
    <3> QED
      BY <1>2, <3>1, <3>2 DEF StartsInv, IsPoint
  <2> QED
    BY <2>1, <2>2
<1>5. StartsInv'
  BY <1>4 DEF StartsInv, IsPoint
<1> QED
  BY <1>2, <1>5

(* What is asserted of one step.                                           *)
StartsKept ==
    \/ Forget
    \/ /\ \A key \in DOMAIN startTimes :
             key \in DOMAIN startTimes' /\ startTimes'[key] = startTimes[key]
       /\ \A key \in DOMAIN streams' :
             metrics'[key[1]] # "gauge" => streams'[key].start = {startTimes'[key]}

LEMMA StartsStep == Types /\ StartsInv /\ [Next]_vars => StartsInv' /\ [StartsKept]_vars
<1> SUFFICES ASSUME Types, StartsInv, [Next]_vars PROVE StartsInv' /\ [StartsKept]_vars
  OBVIOUS
<1> DEFINE Same == UNCHANGED <<startTimes, metrics, streams>>
<1>1. ASSUME Same PROVE StartsInv' /\ StartsKept
  BY <1>1 DEF StartsInv, StartsKept
<1>2. ASSUME NEW i \in Interfaces, EmitRow(i) PROVE StartsInv' /\ StartsKept
  <2>1. StartsInv' /\ \A key \in DOMAIN startTimes :
                         key \in DOMAIN startTimes' /\ startTimes'[key] = startTimes[key]
    BY <1>2, RowKeepsStarts
  <2>2. \A key \in DOMAIN streams' :
             metrics'[key[1]] # "gauge" => streams'[key].start = {startTimes'[key]}
    BY <2>1 DEF StartsInv
  <2> QED
    BY <2>1, <2>2 DEF StartsKept
<1>3. CASE Report
  <2>1. UNCHANGED startTimes /\ DOMAIN streams' = {}
    BY <1>3 DEF Report, builderVars, EmptyMap
  <2> QED
    BY <2>1 DEF StartsInv, StartsKept
<1>4. CASE Forget
  <2>1. DOMAIN streams = {} /\ UNCHANGED streams
    BY <1>4 DEF Forget, poolVars, Types, PoolTypes, EmptyMap
  <2> QED
    BY <1>4, <2>1 DEF StartsInv, StartsKept
<1>5. Tick => Same
  BY DEF Tick, builderVars, poolVars
<1>6. Boot => Same
  BY DEF Boot, builderVars, poolVars
<1>7. ASSUME NEW rows, Fetch(rows) PROVE Same
  BY <1>7 DEF Fetch, builderVars, poolVars
<1>8. StartBuild => Same
  BY DEF StartBuild, builderVars
<1>9. NextSymbol => Same
  BY DEF NextSymbol, builderVars
<1>10. Derive => Same
  BY DEF Derive
<1>11. ASSUME NEW p, Reprofile(p) PROVE Same
  BY <1>11 DEF Reprofile, builderVars, poolVars
<1>12. CASE UNCHANGED vars
  <2>1. Same
    BY <1>12 DEF vars, builderVars, poolVars
  <2> QED
    BY <1>1, <1>12, <2>1
<1> HIDE DEF Same
<1> QED
  BY <1>1, <1>2, <1>3, <1>4, <1>5, <1>6, <1>7, <1>8, <1>9, <1>10, <1>11, <1>12 DEF Next

LEMMA TypesHold == Spec => []Types
BY TypesInit, TypesStep, PTL DEF Spec

(* A cumulative stream keeps its start time over every build until the     *)
(* device is dropped (Builder.startTime).                                  *)
THEOREM StartTimesKept == Spec => StartsAreStable
<1>1. Init => StartsInv
  BY DEF Init, StartsInv, EmptyMap
<1>2. Types /\ StartsInv /\ [Next]_vars => StartsInv'
  BY StartsStep
<1>3. Types /\ StartsInv /\ [Next]_vars => [StartsKept]_vars
  BY StartsStep
<1>4. [StartsKept]_vars => [ \/ Forget
        \/ /\ \A key \in DOMAIN startTimes :
                 key \in DOMAIN startTimes' /\ startTimes'[key] = startTimes[key]
           /\ \A key \in DOMAIN streams' :
                 metrics'[key[1]] # "gauge" => streams'[key].start = {startTimes'[key]}
      ]_vars
  BY DEF StartsKept
<1> QED
  BY <1>1, <1>2, <1>3, <1>4, TypesHold, PTL DEF Spec, StartsAreStable

-----------------------------------------------------------------------------
(* Utilisation.                                                            *)

LEMMA OneMoreTick ==
    ASSUME NEW x \in Int PROVE Capacity * (x + 1) = Capacity * x + Capacity
BY NaturalCapacity

LEMMA MoreTime ==
    ASSUME NEW x \in Int, NEW y \in Int, x <= y PROVE Capacity * x <= Capacity * y
<1>1. Capacity \in Nat
  BY NaturalCapacity
<1>2. Capacity * y = Capacity * x + Capacity * (y - x)
  BY <1>1
<1>3. \A d \in Nat : Capacity * d \in Nat
  BY <1>1
<1>4. Capacity * (y - x) >= 0
  BY <1>3
<1>5. Capacity * x \in Int /\ Capacity * (y - x) \in Int
  BY <1>1
<1> QED
  BY <1>2, <1>4, <1>5

(* A counter read modulo Wrap hides whole wraps.                           *)
LEMMA WrapIs ==
    ASSUME NEW a \in Nat
    PROVE  /\ a % Wrap \in Nat /\ a % Wrap < Wrap /\ a % Wrap <= a
           /\ a \div Wrap \in Nat /\ a = (Wrap * (a \div Wrap)) + (a % Wrap)
<1>1. Wrap \in Nat \ {0}
  BY NaturalCapacity
<1>2. a % Wrap \in 0..(Wrap - 1) /\ a = (Wrap * (a \div Wrap)) + (a % Wrap) /\ a \div Wrap \in Nat
  BY <1>1
<1>3. Wrap * (a \div Wrap) \in Nat
  BY <1>1, <1>2
<1> QED
  BY <1>1, <1>2, <1>3

LEMMA WrapDifference ==
    ASSUME NEW a \in Nat, NEW b \in Nat, b <= a, b % Wrap <= a % Wrap
    PROVE  /\ (a % Wrap) - (b % Wrap) <= a - b
           /\ a - b < Wrap => (a % Wrap) - (b % Wrap) = a - b
<1> DEFINE p == a \div Wrap
           q == b \div Wrap
           r == a % Wrap
           s == b % Wrap
<1>1. /\ Wrap \in Nat \ {0} /\ p \in Nat /\ q \in Nat /\ r \in Nat /\ s \in Nat
      /\ r < Wrap /\ s < Wrap /\ a = Wrap * p + r /\ b = Wrap * q + s
  BY WrapIs, NaturalCapacity
<1> HIDE DEF p, q, r, s
<1>2. a - b = Wrap * (p - q) + (r - s)
  BY <1>1
<1>3. p - q >= 0
  <2>1. SUFFICES ASSUME p - q <= -1 PROVE FALSE
    BY <1>1
  <2>2. Wrap * (q - p - 1) \in Nat
    BY <1>1, <2>1
  <2>3. Wrap * (p - q) = -(Wrap * (q - p - 1)) - Wrap
    BY <1>1
  <2>4. Wrap * (p - q) \in Int
    BY <1>1
  <2> QED
    BY <1>1, <1>2, <2>2, <2>3, <2>4
<1>4. CASE p = q
  <2>1. Wrap * (p - q) = 0
    BY <1>1, <1>4
  <2> QED
    BY <1>1, <1>2, <2>1 DEF r, s
<1>5. CASE p - q >= 1
  <2>1. Wrap * (p - q - 1) \in Nat
    BY <1>1, <1>5
  <2>2. Wrap * (p - q) = Wrap * (p - q - 1) + Wrap
    BY <1>1
  <2>3. Wrap * (p - q) \in Int /\ Wrap * (p - q) >= Wrap
    BY <1>1, <2>1, <2>2
  <2>4. a - b >= Wrap + (r - s) /\ s <= r
    BY <1>1, <1>2, <2>3 DEF r, s
  <2> QED
    BY <1>1, <2>4 DEF r, s
<1> QED
  BY <1>1, <1>3, <1>4, <1>5

LEMMA StoreInvInit == Init => StoreInv /\ PrevInv /\ SinceInv
BY DEF Init, StoreInv, PrevInv, SinceInv, EmptyMap

CountInv == StoreInv /\ PrevInv /\ SinceInv

LEMMA CountedOctets ==
    ASSUME StoreTypes, NEW i \in Counted
    PROVE  Octets(i) = Shown(OctetColumn, store.octets[i])
BY CountedIs, CountersAre DEF Octets, Value, Shown

LEMMA TickCounts == Types /\ CountInv /\ Tick => CountInv'
<1> SUFFICES ASSUME Types, CountInv, Tick PROVE CountInv'
  OBVIOUS
<1>1. /\ Interfaces' = Interfaces
      /\ UNCHANGED <<device, base, boots, pc, store, prev, now>>
      /\ clock' = clock + 1 /\ clock \in Nat
      /\ pc = "idle" \/ (pc = "fetched" /\ clock - store.at < MaxLag)
  BY DEF Tick, configVars, builderVars, poolVars, Interfaces, Types, DeviceTypes
<1>2. /\ carried \in [Interfaces -> Nat] /\ carried' \in [Interfaces -> Nat]
      /\ \A i \in Interfaces : carried[i] <= carried'[i] /\ carried'[i] <= carried[i] + Capacity
  BY TickCarries DEF Types, DeviceTypes
<1>3. ASSUME NEW i \in Interfaces, NEW t \in Nat, NEW x \in Int,
             t <= carried[i], carried[i] - t <= Capacity * x
      PROVE  t <= carried'[i] /\ carried'[i] - t <= Capacity * (x + 1)
  <2>1. Capacity * (x + 1) = Capacity * x + Capacity
    BY OneMoreTick
  <2>2. carried[i] \in Nat /\ carried'[i] \in Nat /\ Capacity \in Nat /\ Capacity * x \in Int
    BY <1>2, NaturalCapacity
  <2>3. carried[i] <= carried'[i] /\ carried'[i] <= carried[i] + Capacity
    BY <1>2
  <2> QED
    BY <1>3, <2>1, <2>2, <2>3
<1>4. StoreInv'
  <2>1. CASE pc = "idle"
    BY <1>1, <2>1 DEF StoreInv
  <2>2. CASE pc = "fetched"
    <3>1. /\ store.at \in Nat /\ store.at <= clock /\ store.boots <= boots
          /\ clock - store.at < MaxLag /\ MaxLag \in Nat
      BY <1>1, <2>2, NaturalCapacity DEF CountInv, StoreInv, Types, StoreTypes
    <3>2. store.at <= clock' /\ clock' - store.at <= MaxLag
      BY <1>1, <3>1
    <3>3. ASSUME NEW i \in Interfaces
          PROVE  /\ store.total[i] <= carried'[i]
                 /\ carried'[i] - store.total[i] <= Capacity * (clock' - store.at)
      <4>1. /\ store.total[i] \in Nat /\ store.total[i] <= carried[i]
            /\ carried[i] - store.total[i] <= Capacity * (clock - store.at)
        BY <2>2 DEF CountInv, StoreInv, Types, StoreTypes
      <4>2. clock - store.at \in Int /\ (clock - store.at) + 1 = clock' - store.at
        BY <1>1, <3>1
      <4> HIDE DEF CountInv, StoreInv, Types
      <4>3. carried'[i] - store.total[i] <= Capacity * ((clock - store.at) + 1)
        BY <1>3, <4>1, <4>2
      <4> QED
        BY <1>3, <4>1, <4>2, <4>3
    <3>4. \A i \in Interfaces :
             /\ store.octets[i] <= store.total[i]
             /\ store.boots = boots => base[i] = Origin(i)
             /\ store.boots < boots => store.total[i] <= base[i]
      BY <2>2 DEF CountInv, StoreInv
    <3>5. \A i \in Interfaces : Origin(i)' = Origin(i)
      BY <1>1 DEF Origin
    <3> QED
      BY <1>1, <2>2, <3>1, <3>2, <3>3, <3>4, <3>5 DEF StoreInv
  <2> QED
    BY <1>1, <2>1, <2>2
<1>5. PrevInv'
  <2>1. ASSUME NEW i \in DOMAIN prev
        PROVE  /\ prev[i].at <= clock' /\ prev[i].total <= carried'[i]
               /\ carried'[i] - prev[i].total <= Capacity * (clock' - prev[i].at + MaxLag)
    <3>1. /\ i \in Interfaces /\ prev[i].total \in Nat /\ prev[i].at \in Nat
          /\ prev[i].at <= clock /\ prev[i].total <= carried[i]
          /\ carried[i] - prev[i].total <= Capacity * (clock - prev[i].at + MaxLag)
      BY DEF CountInv, PrevInv, Types, PrevTypes
    <3>2. /\ clock - prev[i].at + MaxLag \in Int
          /\ (clock - prev[i].at + MaxLag) + 1 = clock' - prev[i].at + MaxLag
      BY <1>1, <3>1, NaturalCapacity
    <3>3. /\ prev[i].total <= carried'[i]
          /\ carried'[i] - prev[i].total <= Capacity * ((clock - prev[i].at + MaxLag) + 1)
      BY <1>3, <3>1, <3>2
    <3> QED
      BY <1>1, <3>1, <3>2, <3>3
  <2>2. \A i \in DOMAIN prev :
           /\ prev[i].boots <= boots
           /\ prev[i].boots = boots =>
                 /\ base[i] <= prev[i].total
                 /\ prev[i].value = Shown(prev[i].column, prev[i].total - base[i])
           /\ prev[i].boots < boots => prev[i].total <= base[i]
    BY DEF CountInv, PrevInv
  <2> QED
    BY <1>1, <2>1, <2>2 DEF PrevInv, Shown
<1>6. SinceInv'
  BY <1>1 DEF CountInv, SinceInv, Origin, Shown
<1> QED
  BY <1>4, <1>5, <1>6 DEF CountInv

LEMMA BootCounts == Types /\ CountInv /\ Boot => CountInv'
<1> SUFFICES ASSUME Types, CountInv, Boot PROVE CountInv'
  OBVIOUS
<1>1. /\ Interfaces' = Interfaces
      /\ UNCHANGED <<device, clock, carried, pc, store, prev, now>>
      /\ boots' = boots + 1 /\ base' = carried /\ boots \in Nat
      /\ pc \in {"idle", "fetched"}
  BY DEF Boot, configVars, builderVars, poolVars, Interfaces, Types, DeviceTypes
<1>2. StoreInv'
  <2>1. pc # "idle" => store.boots < boots' /\ store.boots # boots' /\ store.boots <= boots'
    BY <1>1 DEF CountInv, StoreInv, Types, StoreTypes
  <2> QED
    BY <1>1, <2>1 DEF CountInv, StoreInv
<1>3. PrevInv'
  <2>1. \A i \in DOMAIN prev :
           prev[i].boots < boots' /\ prev[i].boots # boots' /\ prev[i].boots <= boots'
    BY <1>1 DEF CountInv, PrevInv, Types, PrevTypes
  <2> QED
    BY <1>1, <2>1 DEF CountInv, PrevInv
<1>4. SinceInv'
  BY <1>1 DEF CountInv, SinceInv, Origin, Shown
<1> QED
  BY <1>2, <1>3, <1>4 DEF CountInv

LEMMA FetchCounts ==
    ASSUME Types, CountInv, NEW rows, Fetch(rows) PROVE CountInv'
<1>1. /\ Interfaces' = Interfaces
      /\ UNCHANGED <<device, clock, boots, base, carried, prev, now>>
      /\ pc' = "fetched"
      /\ store'.octets = [i \in Interfaces |-> carried[i] - base[i]]
      /\ store'.total = carried /\ store'.at = clock /\ store'.boots = boots
  BY DEF Fetch, deviceVars, configVars, builderVars, poolVars, Interfaces
<1>2. /\ clock \in Nat /\ boots \in Nat /\ MaxLag \in Nat /\ Capacity \in Nat
      /\ \A i \in Interfaces : carried[i] \in Nat /\ base[i] \in Nat /\ base[i] <= carried[i]
  BY NaturalCapacity DEF Types, DeviceTypes
<1>3. ASSUME NEW i \in Interfaces
      PROVE  /\ store'.octets[i] = carried[i] - base[i] /\ store'.total[i] = carried[i]
             /\ Origin(i)' = base[i]
  BY <1>1, <1>2 DEF Origin
<1>4. Capacity * (clock - clock) = 0
  BY <1>2
<1>5. StoreInv'
  <2>1. ASSUME NEW i \in Interfaces
        PROVE  /\ store'.octets[i] <= store'.total[i] /\ store'.total[i] <= carried[i]
               /\ carried[i] - store'.total[i] <= Capacity * (clock - store'.at)
    BY <1>1, <1>2, <1>3, <1>4
  <2> QED
    BY <1>1, <1>2, <1>3, <2>1 DEF StoreInv
<1>6. PrevInv'
  BY <1>1 DEF CountInv, PrevInv, Shown
<1>7. SinceInv'
  <2>1. ASSUME NEW i \in DOMAIN prev
        PROVE  /\ prev[i].boots <= store'.boots /\ prev[i].total <= store'.total[i]
               /\ prev[i].boots = store'.boots =>
                     /\ Origin(i)' <= prev[i].total
                     /\ prev[i].value = Shown(prev[i].column, prev[i].total - Origin(i)')
               /\ prev[i].boots < store'.boots => prev[i].total <= Origin(i)'
    <3>1. i \in Interfaces
      BY DEF Types, PrevTypes
    <3> QED
      BY <1>1, <1>3, <3>1 DEF CountInv, PrevInv
  <2> QED
    BY <1>1, <2>1 DEF SinceInv, Shown
<1> QED
  BY <1>5, <1>6, <1>7 DEF CountInv

(* What the readings of one row say of its traffic.                        *)
LEMMA TrafficIs ==
    ASSUME Types, CountInv, pc = "emit", NEW i \in Counted
    PROVE  /\ i \in Interfaces
           /\ Octets(i) = Shown(OctetColumn, store.octets[i])
           /\ store.octets[i] \in Nat /\ store.total[i] \in Nat /\ Origin(i) \in Nat
           /\ store.octets[i] = store.total[i] - Origin(i)
           /\ i \in DOMAIN prev =>
                 /\ prev[i].total \in Nat /\ prev[i].total <= store.total[i]
                 /\ store.total[i] - prev[i].total <= Capacity * (now - prev[i].at + MaxLag)
<1>1. i \in Interfaces /\ Octets(i) = Shown(OctetColumn, store.octets[i])
  BY CountedIs, CountedOctets DEF Types
<1>2. /\ store.octets[i] \in Nat /\ store.total[i] \in Nat /\ store.octets[i] <= store.total[i]
      /\ store.total[i] <= carried[i] /\ carried[i] \in Nat /\ now = clock
  BY <1>1 DEF Types, StoreTypes, DeviceTypes, CountInv, StoreInv
<1>3. Origin(i) \in Nat /\ store.octets[i] = store.total[i] - Origin(i)
  BY <1>2 DEF Origin
<1>4. ASSUME i \in DOMAIN prev
      PROVE  /\ prev[i].total \in Nat /\ prev[i].total <= store.total[i]
             /\ store.total[i] - prev[i].total <= Capacity * (now - prev[i].at + MaxLag)
  <2>1. /\ prev[i].total \in Nat /\ prev[i].at \in Nat /\ prev[i].total <= store.total[i]
        /\ carried[i] - prev[i].total <= Capacity * (clock - prev[i].at + MaxLag)
    BY <1>4 DEF Types, PrevTypes, CountInv, PrevInv, SinceInv
  <2>2. Capacity * (clock - prev[i].at + MaxLag) \in Int
    BY <2>1, NaturalCapacity DEF Types, DeviceTypes
  <2> QED
    BY <1>2, <2>1, <2>2
<1> QED
  BY <1>1, <1>2, <1>3, <1>4

LEMMA DeriveCounts == Types /\ CountInv /\ Derive => CountInv'
<1> SUFFICES ASSUME Types, CountInv, Derive PROVE CountInv'
  OBVIOUS
<1>1. /\ Interfaces' = Interfaces
      /\ UNCHANGED <<device, clock, boots, base, carried, store, now>>
      /\ pc = "emit" /\ pc' = "built"
      /\ prev' = [i \in DOMAIN prev \cup Counted |-> IF i \in Counted THEN Reading(i) ELSE prev[i]]
  BY DEF Derive, deviceVars, configVars, Interfaces
<1>2. StoreInv'
  BY <1>1 DEF CountInv, StoreInv, Origin
<1>3. SinceInv'
  BY <1>1 DEF SinceInv
<1>4. ASSUME NEW i \in Counted
      PROVE  /\ prev'[i].at <= clock /\ prev'[i].boots <= boots /\ prev'[i].total <= carried[i]
             /\ carried[i] - prev'[i].total <= Capacity * (clock - prev'[i].at + MaxLag)
             /\ prev'[i].boots = boots =>
                   /\ base[i] <= prev'[i].total
                   /\ prev'[i].value = Shown(prev'[i].column, prev'[i].total - base[i])
             /\ prev'[i].boots < boots => prev'[i].total <= base[i]
  <2>1. prev'[i] = Reading(i)
    BY <1>1
  <2>2. /\ prev'[i].value = Octets(i) /\ prev'[i].at = now /\ prev'[i].column = OctetColumn
        /\ prev'[i].total = store.total[i] /\ prev'[i].boots = store.boots
    BY <2>1 DEF Reading
  <2>3. /\ i \in Interfaces /\ Octets(i) = Shown(OctetColumn, store.octets[i])
        /\ store.octets[i] \in Nat /\ store.total[i] \in Nat
        /\ store.octets[i] = store.total[i] - Origin(i) /\ Origin(i) \in Nat
    BY <1>1, TrafficIs
  <2>4. /\ now = clock /\ store.boots <= boots /\ store.total[i] <= carried[i]
        /\ carried[i] - store.total[i] <= Capacity * (clock - store.at)
        /\ store.boots = boots => base[i] = Origin(i)
        /\ store.boots < boots => store.total[i] <= base[i]
        /\ store.at <= clock /\ clock - store.at <= MaxLag
    BY <1>1, <2>3 DEF CountInv, StoreInv
  <2>5. clock \in Nat /\ store.at \in Nat /\ carried[i] \in Nat
    BY <2>3 DEF Types, DeviceTypes, StoreTypes
  <2>6. Capacity * (clock - store.at) <= Capacity * (clock - now + MaxLag)
    <3>1. clock - now + MaxLag = MaxLag
      BY <2>4, <2>5, NaturalCapacity
    <3>2. Capacity * (clock - store.at) <= Capacity * MaxLag
      BY <2>4, <2>5, NaturalCapacity, MoreTime
    <3> QED
      BY <3>1, <3>2
  <2>7. carried[i] - store.total[i] <= Capacity * (clock - now + MaxLag)
    <3>1. /\ Capacity * (clock - store.at) \in Int /\ Capacity * (clock - now + MaxLag) \in Int
      BY <2>4, <2>5, NaturalCapacity
    <3> QED
      BY <2>3, <2>4, <2>5, <2>6, <3>1
  <2>8. store.boots = boots => base[i] <= store.total[i]
    BY <2>3, <2>4
  <2>9. clock <= clock
    BY <2>5
  <2> QED
    BY <2>2, <2>3, <2>4, <2>7, <2>8, <2>9
<1>5. ASSUME NEW i \in DOMAIN prev, i \notin Counted PROVE prev'[i] = prev[i]
  BY <1>1, <1>5
<1>6. DOMAIN prev' = DOMAIN prev \cup Counted
  BY <1>1
<1>7. PrevInv'
  <2>1. ASSUME NEW i \in DOMAIN prev'
        PROVE  /\ prev'[i].at <= clock /\ prev'[i].boots <= boots /\ prev'[i].total <= carried[i]
               /\ carried[i] - prev'[i].total <= Capacity * (clock - prev'[i].at + MaxLag)
               /\ prev'[i].boots = boots =>
                     /\ base[i] <= prev'[i].total
                     /\ prev'[i].value = Shown(prev'[i].column, prev'[i].total - base[i])
               /\ prev'[i].boots < boots => prev'[i].total <= base[i]
    <3>1. CASE i \in Counted
      BY <1>4, <3>1
    <3>2. CASE i \notin Counted
      <4>1. i \in DOMAIN prev /\ prev'[i] = prev[i]
        BY <1>5, <1>6, <3>2
      <4> QED
        BY <4>1 DEF CountInv, PrevInv
    <3> QED
      BY <3>1, <3>2
  <2> QED
    BY <1>1, <2>1 DEF PrevInv, Shown
<1> QED
  BY <1>2, <1>3, <1>7 DEF CountInv

LEMMA CountStep == Types /\ CountInv /\ [Next]_vars => CountInv'
<1> SUFFICES ASSUME Types, CountInv, [Next]_vars PROVE CountInv'
  OBVIOUS
<1> DEFINE Same == UNCHANGED <<device, clock, boots, base, carried, store, prev>>
<1>1. ASSUME Same, pc' = pc, now' = now PROVE CountInv'
  BY <1>1 DEF CountInv, StoreInv, PrevInv, SinceInv, Origin, Shown, Interfaces
<1>2. CASE StartBuild
  <2>1. Same /\ pc = "fetched" /\ pc' = "emit" /\ now' = clock
    BY <1>2 DEF StartBuild, deviceVars, configVars, builderVars
  <2> QED
    BY <2>1 DEF CountInv, StoreInv, PrevInv, SinceInv, Origin, Shown, Interfaces
<1>3. ASSUME NEW i \in Interfaces, EmitRow(i) PROVE CountInv'
  <2>1. Same /\ pc' = pc /\ now' = now
    BY <1>3 DEF EmitRow, deviceVars, configVars
  <2> QED
    BY <1>1, <2>1
<1>4. CASE NextSymbol
  <2>1. Same /\ pc' = pc /\ now' = now
    BY <1>4 DEF NextSymbol, deviceVars, configVars, builderVars
  <2> QED
    BY <1>1, <2>1
<1>5. CASE Report
  <2>1. UNCHANGED <<device, clock, boots, base, carried, prev>> /\ pc' = "idle"
    BY <1>5 DEF Report, deviceVars, configVars, builderVars
  <2> QED
    BY <2>1 DEF CountInv, StoreInv, PrevInv, SinceInv, Shown, Interfaces
<1>6. ASSUME NEW p, Reprofile(p) PROVE CountInv'
  <2>1. Same /\ pc' = pc /\ now' = now
    BY <1>6 DEF Reprofile, deviceVars, configVars, builderVars, poolVars
  <2> QED
    BY <1>1, <2>1
<1>7. CASE Forget
  <2>1. UNCHANGED <<device, clock, boots, base, carried, store, pc, now>> /\ DOMAIN prev' = {}
    BY <1>7 DEF Forget, deviceVars, configVars, poolVars, EmptyMap
  <2> QED
    BY <2>1 DEF CountInv, StoreInv, PrevInv, SinceInv, Origin, Interfaces
<1>8. CASE UNCHANGED vars
  <2>1. Same /\ pc' = pc /\ now' = now
    BY <1>8 DEF vars, deviceVars, configVars, builderVars, poolVars
  <2> QED
    BY <1>1, <2>1
<1> HIDE DEF Same
<1> QED
  BY <1>2, <1>3, <1>4, <1>5, <1>6, <1>7, <1>8, TickCounts, BootCounts, FetchCounts, DeriveCounts
     DEF Next

(* A difference is never more than the traffic, and is it without a        *)
(* restart and a whole wrap.                                               *)
LEMMA DifferenceIs ==
    ASSUME Types, CountInv, pc = "emit", NEW i \in Counted, i \in DOMAIN prev,
           OctetColumn = prev[i].column, prev[i].value <= Octets(i)
    PROVE  /\ Octets(i) - prev[i].value <= store.total[i] - prev[i].total
           /\ store.boots = prev[i].boots
                 /\ (OctetColumn = "ifInOctets" => store.total[i] - prev[i].total < Wrap)
              => Octets(i) - prev[i].value = store.total[i] - prev[i].total
<1> DEFINE A == store.octets[i]
           T == store.total[i]
           P == prev[i].total
           O == Origin(i)
           v == prev[i].value
<1>1. /\ A \in Nat /\ T \in Nat /\ P \in Nat /\ O \in Nat /\ v \in Nat
      /\ A = T - O /\ P <= T /\ Octets(i) = Shown(OctetColumn, A)
      /\ prev[i].boots \in Nat /\ store.boots \in Nat
      /\ OctetColumn \in {"ifHCInOctets", "ifInOctets"}
  BY TrafficIs, CountedIs, CountersAre DEF Types, StoreTypes, PrevTypes
<1>2. /\ prev[i].boots <= store.boots
      /\ prev[i].boots = store.boots => O <= P /\ v = Shown(OctetColumn, P - O)
      /\ prev[i].boots < store.boots => P <= O
  BY DEF CountInv, SinceInv
<1> HIDE DEF A, T, P, O, v
<1>3. A % Wrap \in Nat /\ A % Wrap <= A
  BY <1>1, WrapIs
<1>4. CASE prev[i].boots = store.boots
  <2>1. P - O \in Nat /\ P - O <= A /\ A - (P - O) = T - P
    BY <1>1, <1>2, <1>4
  <2>2. CASE OctetColumn = "ifHCInOctets"
    BY <1>1, <1>2, <1>4, <2>1, <2>2 DEF Shown, v, T, P
  <2>3. CASE OctetColumn = "ifInOctets"
    <3>1. Octets(i) = A % Wrap /\ v = (P - O) % Wrap
      BY <1>1, <1>2, <1>4, <2>3 DEF Shown
    <3>2. (P - O) % Wrap <= A % Wrap
      BY <3>1 DEF v
    <3>3. /\ (A % Wrap) - ((P - O) % Wrap) <= A - (P - O)
          /\ A - (P - O) < Wrap => (A % Wrap) - ((P - O) % Wrap) = A - (P - O)
      BY <1>1, <2>1, <3>2, WrapDifference
    <3> QED
      BY <2>1, <2>3, <3>1, <3>3 DEF v, T, P
  <2> QED
    BY <1>1, <2>2, <2>3
<1>5. CASE prev[i].boots < store.boots
  <2>1. A <= T - P
    BY <1>1, <1>2, <1>5
  <2>2. Octets(i) \in Nat /\ Octets(i) <= A
    BY <1>1, <1>3 DEF Shown
  <2>3. store.boots # prev[i].boots
    BY <1>1, <1>5
  <2> QED
    BY <1>1, <2>1, <2>2, <2>3 DEF v, T, P
<1> QED
  BY <1>1, <1>2, <1>4, <1>5

LEMMA MeasuredIs ==
    ASSUME NEW i, NEW u \in Measured(i)
    PROVE  /\ i \in DOMAIN prev /\ ~ (Octets(i) < prev[i].value)
           /\ u.row = i /\ u.octets = Octets(i) - prev[i].value
           /\ u.elapsed = now - prev[i].at /\ u.capacity = Speed(i)
           /\ u.truth = store.total[i] - prev[i].total
           /\ u.rebooted = (store.boots # prev[i].boots)
           /\ u.switched = (OctetColumn # prev[i].column)
BY DEF Measured, Difference

(* Every figure that is derived, before and after it is reported.          *)
Plausible(u) ==
    /\ ~u.switched => u.octets <= Capacity * (u.elapsed + MaxLag)
    /\ ~u.rebooted /\ ~u.switched /\ (OctetColumn = "ifInOctets" => u.truth < Wrap)
           => u.octets = u.truth
    /\ u.row \in store.rows["ifHighSpeed"] => u.capacity = Capacity

LEMMA MeasuredIsPlausible ==
    ASSUME Types, CountInv, pc = "emit", NEW i \in Counted, NEW u \in Measured(i)
    PROVE  Plausible(u)
<1>1. /\ i \in DOMAIN prev /\ ~ (Octets(i) < prev[i].value)
      /\ u.row = i /\ u.octets = Octets(i) - prev[i].value
      /\ u.elapsed = now - prev[i].at /\ u.capacity = Speed(i)
      /\ u.truth = store.total[i] - prev[i].total
      /\ u.rebooted = (store.boots # prev[i].boots)
      /\ u.switched = (OctetColumn # prev[i].column)
  BY MeasuredIs
<1>2. /\ Octets(i) \in Nat /\ prev[i].value \in Nat /\ prev[i].at \in Nat /\ now \in Nat
  BY <1>1, OctetsType DEF Types, PrevTypes, PoolTypes
<1>3. prev[i].value <= Octets(i)
  BY <1>1, <1>2
<1>4. /\ prev[i].total \in Nat /\ store.total[i] \in Nat
      /\ store.total[i] - prev[i].total <= Capacity * (now - prev[i].at + MaxLag)
      /\ Capacity * (now - prev[i].at + MaxLag) \in Int
  BY <1>1, <1>2, TrafficIs, NaturalCapacity
<1>5. ASSUME ~u.switched PROVE u.octets <= Capacity * (u.elapsed + MaxLag)
  <2>1. u.octets <= store.total[i] - prev[i].total
    BY <1>1, <1>3, <1>5, DifferenceIs
  <2> QED
    BY <1>1, <1>2, <1>4, <2>1
<1>6. ASSUME ~u.rebooted, ~u.switched, OctetColumn = "ifInOctets" => u.truth < Wrap
      PROVE  u.octets = u.truth
  BY <1>1, <1>3, <1>6, DifferenceIs
<1>7. ASSUME i \in store.rows["ifHighSpeed"] PROVE u.capacity = Capacity
  BY <1>1, <1>7 DEF Speed, Value
<1> QED
  BY <1>1, <1>5, <1>6, <1>7 DEF Plausible

FiguresInv == \A u \in utilisation : Plausible(u)

LEMMA FiguresStep == Types /\ CountInv /\ FiguresInv /\ [Next]_vars => FiguresInv'
<1> SUFFICES ASSUME Types, CountInv, FiguresInv, [Next]_vars PROVE FiguresInv'
  OBVIOUS
<1>1. ASSUME UNCHANGED <<utilisation, store>> PROVE FiguresInv'
  <2>1. OctetColumn' = OctetColumn
    BY <1>1 DEF OctetColumn, Available, Answered
  <2> QED
    BY <1>1, <2>1 DEF FiguresInv, Plausible
<1>2. ASSUME NEW rows, Fetch(rows) PROVE FiguresInv'
  BY <1>2 DEF Fetch, poolVars, Types, PoolTypes, FiguresInv
<1>3. CASE Derive
  <2>1. UNCHANGED store /\ utilisation' = UNION {Measured(i) : i \in Counted} /\ pc = "emit"
    BY <1>3 DEF Derive
  <2>2. OctetColumn' = OctetColumn
    BY <2>1 DEF OctetColumn, Available, Answered
  <2>3. ASSUME NEW u \in utilisation' PROVE Plausible(u)
    BY <2>1, MeasuredIsPlausible
  <2> QED
    BY <2>1, <2>2, <2>3 DEF FiguresInv, Plausible
<1>4. CASE Report
  BY <1>4 DEF Report, FiguresInv
<1>5. CASE UNCHANGED vars
  BY <1>1, <1>5 DEF vars, poolVars
<1>6. Tick => UNCHANGED <<utilisation, store>>
  BY DEF Tick, poolVars
<1>7. Boot => UNCHANGED <<utilisation, store>>
  BY DEF Boot, poolVars
<1>8. StartBuild => UNCHANGED <<utilisation, store>>
  BY DEF StartBuild
<1>9. ASSUME NEW i, EmitRow(i) PROVE UNCHANGED <<utilisation, store>>
  BY <1>9 DEF EmitRow
<1>10. NextSymbol => UNCHANGED <<utilisation, store>>
  BY DEF NextSymbol
<1>11. ASSUME NEW p, Reprofile(p) PROVE UNCHANGED <<utilisation, store>>
  BY <1>11 DEF Reprofile, poolVars
<1>12. Forget => UNCHANGED <<utilisation, store>>
  BY DEF Forget, poolVars
<1> QED
  BY <1>1, <1>2, <1>3, <1>4, <1>5, <1>6, <1>7, <1>8, <1>9, <1>10, <1>11, <1>12 DEF Next

LEMMA FiguresHold == Spec => []FiguresInv
<1>1. Init => CountInv /\ FiguresInv
  BY StoreInvInit DEF CountInv, Init, FiguresInv
<1> QED
  BY <1>1, CountStep, FiguresStep, TypesHold, PTL DEF Spec

(* A derived utilisation is bounded by what the interface can carry,       *)
(* whatever wraps, restarts and gets lost (Builder.utilization).           *)
THEOREM NoSpike == Spec => []SpikeIsBounded
<1>1. FiguresInv => SpikeIsBounded
  BY DEF FiguresInv, Plausible, SpikeIsBounded
<1> QED
  BY <1>1, FiguresHold, PTL

(* ... and exact where it can be.                                          *)
THEOREM ExactUtilisation == Spec => []UtilisationIsExact
<1>1. FiguresInv => UtilisationIsExact
  BY DEF FiguresInv, Plausible, UtilisationIsExact
<1> QED
  BY <1>1, FiguresHold, PTL

-----------------------------------------------------------------------------
(* Streams.                                                                *)

(* What a row offers depends on the values of the poll and the scheme.     *)
LEMMA SameValues ==
    ASSUME UNCHANGED <<scheme, store>>, NEW c, NEW s, NEW i
    PROVE  /\ Value(c, i)' = Value(c, i)
           /\ SymbolRows(s)' = SymbolRows(s)
           /\ Available(s.from)' = Available(s.from)
           /\ Sibling(s, c, i)' = Sibling(s, c, i)
           /\ RowTags(s, i)' = RowTags(s, i)
<1>1. Value(c, i)' = Value(c, i)
  BY DEF Value
<1>2. Available(s.from)' = Available(s.from) /\ Answered(s.from)' = Answered(s.from)
  BY DEF Available, Answered
<1>3. SymbolRows(s)' = SymbolRows(s)
  BY <1>2 DEF SymbolRows, RowsOf
<1>4. Sibling(s, c, i)' = Sibling(s, c, i)
  BY <1>1 DEF Sibling
<1>5. RowTags(s, i)' = RowTags(s, i)
  BY DEF RowTags, Value
<1> QED
  BY <1>1, <1>2, <1>3, <1>4, <1>5

LEMMA SameEntries ==
    ASSUME UNCHANGED <<scheme, store>>, NEW s, NEW i
    PROVE  /\ Resolved(s, i)' = Resolved(s, i)
           /\ EntryValue(s, i)' = EntryValue(s, i)
           /\ Value(Available(s.from), i)' = Value(Available(s.from), i)
<1>1. Resolve(scheme, s.name)' = Resolve(scheme, s.name)
  BY DEF Resolve, ApplyScheme
<1>2. \A t : ResolveDispatched(scheme, s.name, t)' = ResolveDispatched(scheme, s.name, t)
  BY DEF ResolveDispatched, ApplyScheme
<1>3. \A kind : KindOfRow(s, kind, i)' = KindOfRow(s, kind, i)
  BY SameValues DEF KindOfRow
<1>4. Resolved(s, i)' = Resolved(s, i)
  <2> DEFINE e == Resolve(scheme, s.name).entry
  <2>1. e' = e
    BY <1>1
  <2>2. CASE e.cases = NoMap
    BY <1>1, <2>2 DEF Resolved
  <2>3. CASE e.cases # NoMap
    <3>1. Resolved(s, i) = UNION {ResolveDispatched(scheme, s.name, e.cases[k]) :
                                     k \in KindOfRow(s, e.kind, i) \cap DOMAIN e.cases}
      BY <2>3 DEF Resolved
    <3>2. Resolved(s, i)' = UNION {ResolveDispatched(scheme, s.name, e.cases[k])' :
                                     k \in KindOfRow(s, e.kind, i)' \cap DOMAIN e.cases}
      BY <2>1, <2>3 DEF Resolved
    <3> HIDE DEF e
    <3>3. ASSUME NEW k PROVE ResolveDispatched(scheme, s.name, e.cases[k])' =
                             ResolveDispatched(scheme, s.name, e.cases[k])
      BY <1>2, <2>1
    <3>4. KindOfRow(s, e.kind, i)' = KindOfRow(s, e.kind, i)
      BY <1>3, <2>1
    <3> QED
      BY <3>1, <3>2, <3>3, <3>4
  <2> QED
    BY <2>2, <2>3
<1>5. EntryValue(s, i)' = EntryValue(s, i)
  BY SameValues DEF EntryValue
<1>6. Value(Available(s.from), i)' = Value(Available(s.from), i)
  BY SameValues
<1> QED
  BY <1>4, <1>5, <1>6

LEMMA SameInstrument ==
    ASSUME UNCHANGED <<scheme, store>>, NEW s, NEW r
    PROVE  InstrumentOf(s, r)' = InstrumentOf(s, r)
<1>1. Available(s.from)' = Available(s.from)
  BY SameValues
<1> QED
  BY <1>1 DEF InstrumentOf, InstrumentFor

LEMMA SameOffers ==
    ASSUME UNCHANGED <<scheme, store>>, NEW s, NEW r, NEW k, NEW i
    PROVE  Offers(s, r, k, i)' = Offers(s, r, k, i)
<1>1. InstrumentOf(s, r)' = InstrumentOf(s, r)
  BY SameInstrument
<1>2. \A n : Attributes(s, r, n, i)' = Attributes(s, r, n, i)
  BY SameValues DEF Attributes
<1>3. \A state : StateValue(s, r, i, state)' = StateValue(s, r, i, state)
  BY SameEntries DEF StateValue
<1>4. EntryValue(s, i)' = EntryValue(s, i)
  BY SameEntries
<1> DEFINE n == r.names[k]
<1>5. CASE r.entry.states = {}
  <2>1. Offers(s, r, k, i) =
            {[name |-> n, instrument |-> InstrumentOf(s, r), priority |-> r.entry.priority,
              key |-> <<n, Attributes(s, r, n, i), "">>, value |-> EntryValue(s, i)]}
    BY <1>5 DEF Offers
  <2>2. Offers(s, r, k, i)' =
            {[name |-> n, instrument |-> InstrumentOf(s, r)', priority |-> r.entry.priority,
              key |-> <<n, Attributes(s, r, n, i)', "">>, value |-> EntryValue(s, i)']}
    BY <1>5 DEF Offers
  <2> QED
    BY <1>1, <1>2, <1>4, <2>1, <2>2
<1>6. CASE r.entry.states # {}
  <2>1. Offers(s, r, k, i) =
            {[name |-> n, instrument |-> InstrumentOf(s, r), priority |-> r.entry.priority,
              key |-> <<n, Attributes(s, r, n, i), state>>, value |-> StateValue(s, r, i, state)] :
                 state \in r.entry.states}
    BY <1>6 DEF Offers
  <2>2. Offers(s, r, k, i)' =
            {[name |-> n, instrument |-> InstrumentOf(s, r)', priority |-> r.entry.priority,
              key |-> <<n, Attributes(s, r, n, i)', state>>, value |-> StateValue(s, r, i, state)'] :
                 state \in r.entry.states}
    BY <1>6 DEF Offers
  <2> QED
    BY <1>1, <1>2, <1>3, <2>1, <2>2
<1> QED
  BY <1>5, <1>6

LEMMA OfferExists ==
    ASSUME NEW s, NEW r, NEW k, NEW i
    PROVE  Offers(s, r, k, i) # {}
<1>1. CASE r.entry.states = {}
  BY <1>1 DEF Offers
<1>2. CASE r.entry.states # {}
  BY <1>2 DEF Offers
<1> QED
  BY <1>1, <1>2

(* The points of a row that count: those of names it agrees with.          *)
Counting(s, i) ==
    UNION {UNION {Offers(s, r, j, i) : j \in {j \in DOMAIN r.names : \A h \in 1..j : Agrees(s, r, h)}} :
              r \in Resolved(s, i)}

LEMMA CountingIs ==
    ASSUME NEW s, NEW i, NEW o
    PROVE  o \in Counting(s, i) <=>
              \E r \in Resolved(s, i) : \E j \in DOMAIN r.names :
                  (\A h \in 1..j : Agrees(s, r, h)) /\ o \in Offers(s, r, j, i)
BY DEF Counting

LEMMA ContributionIs ==
    ASSUME NEW k, NEW i, NEW c
    PROVE  c \in Contribution(k, i) <=>
              \E o \in Counting(profile[k], i) : c = [symbol |-> k, row |-> i, offer |-> o]
<1>1. ASSUME c \in Contribution(k, i)
      PROVE  \E o \in Counting(profile[k], i) : c = [symbol |-> k, row |-> i, offer |-> o]
  <2>1. PICK r \in Resolved(profile[k], i) : \E j \in DOMAIN r.names :
           /\ \A h \in 1..j : Agrees(profile[k], r, h)
           /\ c \in {[symbol |-> k, row |-> i, offer |-> o] : o \in Offers(profile[k], r, j, i)}
    BY <1>1 DEF Contribution, Agrees
  <2>2. PICK j \in DOMAIN r.names :
           /\ \A h \in 1..j : Agrees(profile[k], r, h)
           /\ c \in {[symbol |-> k, row |-> i, offer |-> o] : o \in Offers(profile[k], r, j, i)}
    BY <2>1
  <2>3. PICK o \in Offers(profile[k], r, j, i) : c = [symbol |-> k, row |-> i, offer |-> o]
    BY <2>2
  <2>4. o \in Counting(profile[k], i)
    BY <2>2, <2>3, CountingIs
  <2> QED
    BY <2>3, <2>4
<1>2. ASSUME NEW o \in Counting(profile[k], i), c = [symbol |-> k, row |-> i, offer |-> o]
      PROVE  c \in Contribution(k, i)
  <2>1. PICK r \in Resolved(profile[k], i) : \E j \in DOMAIN r.names :
           (\A h \in 1..j : Agrees(profile[k], r, h)) /\ o \in Offers(profile[k], r, j, i)
    BY CountingIs
  <2>2. PICK j \in DOMAIN r.names :
           (\A h \in 1..j : Agrees(profile[k], r, h)) /\ o \in Offers(profile[k], r, j, i)
    BY <2>1
  <2>3. c \in {[symbol |-> k, row |-> i, offer |-> p] : p \in Offers(profile[k], r, j, i)}
    BY <1>2, <2>2
  <2> QED
    BY <2>2, <2>3 DEF Contribution, Agrees
<1> QED
  BY <1>1, <1>2

(* The contributions so far, one by one.                                   *)
Given(k, i, o) == k \in DOMAIN profile /\ Done(k, i) /\ o \in Counting(profile[k], i)
From(k, i, o)  == [symbol |-> k, row |-> i, offer |-> o]

LEMMA ContributionsAre ==
    ASSUME NEW c
    PROVE  c \in Contributions <=>
              \E k \in DOMAIN profile : \E i \in SymbolRows(profile[k]) :
                  \E o \in Counting(profile[k], i) : c = From(k, i, o)
<1>1. c \in Contributions <=>
         \E k \in DOMAIN profile : \E i \in SymbolRows(profile[k]) : c \in Contribution(k, i)
  BY DEF Contributions
<1> QED
  BY <1>1, ContributionIs DEF From

LEMMA SoFarIs ==
    ASSUME NEW c
    PROVE  c \in SoFar <=> \E k, i, o : Given(k, i, o) /\ c = From(k, i, o)
<1>1. ASSUME c \in SoFar PROVE \E k, i, o : Given(k, i, o) /\ c = From(k, i, o)
  <2>1. PICK k \in DOMAIN profile : \E i \in SymbolRows(profile[k]) :
           \E o \in Counting(profile[k], i) : c = From(k, i, o)
    BY <1>1, ContributionsAre DEF SoFar
  <2>2. PICK i \in SymbolRows(profile[k]) : \E o \in Counting(profile[k], i) : c = From(k, i, o)
    BY <2>1
  <2>4. PICK o \in Counting(profile[k], i) : c = From(k, i, o)
    BY <2>2
  <2>3. Done(k, i)
    BY <1>1, <2>4 DEF SoFar, From
  <2> QED
    BY <2>3, <2>4 DEF Given
<1>2. ASSUME NEW k, NEW i, NEW o, Given(k, i, o), c = From(k, i, o) PROVE c \in SoFar
  <2>1. i \in SymbolRows(profile[k]) /\ k \in DOMAIN profile /\ o \in Counting(profile[k], i)
    BY <1>2 DEF Given, Done
  <2>2. c \in Contributions
    BY <1>2, <2>1, ContributionsAre
  <2>3. c.symbol = k /\ c.row = i
    BY <1>2 DEF From
  <2> QED
    BY <1>2, <2>2, <2>3 DEF SoFar, Given
<1> QED
  BY <1>1, <1>2

LEMMA SoFarNext == (\A c : c \in SoFar <=> \E k, i, o : Given(k, i, o) /\ c = From(k, i, o))'
<1>1. \A c : c \in SoFar <=> \E k, i, o : Given(k, i, o) /\ c = From(k, i, o)
  BY SoFarIs
<1> QED
  BY <1>1, PTL

(* A row counts once under a key.                                          *)
LEMMA OneCounts ==
    ASSUME NEW s, NEW i, NEW o \in Counting(s, i), NEW p \in Counting(s, i), o.key = p.key
    PROVE  o = p
<1>1. PICK r \in Resolved(s, i) : \E k \in DOMAIN r.names : o \in Offers(s, r, k, i)
  BY CountingIs
<1>2. PICK k \in DOMAIN r.names : o \in Offers(s, r, k, i)
  BY <1>1
<1>3. PICK h \in DOMAIN r.names : p \in Offers(s, r, h, i)
  BY CountingIs, OneResolution
<1>4. o.key[1] = r.names[k] /\ p.key[1] = r.names[h]
  BY <1>2, <1>3, OfferIs
<1>5. k = h
  BY <1>4, ResolvedIs
<1> QED
  BY <1>2, <1>3, <1>5, OfferIs

LEMMA CountingTypes ==
    ASSUME NEW s, NEW i, NEW o \in Counting(s, i)
    PROVE  o.priority \in Nat
<1>1. PICK r \in Resolved(s, i) : \E k \in DOMAIN r.names : o \in Offers(s, r, k, i)
  BY CountingIs
<1> QED
  BY <1>1, OfferIs, ResolvedIs

LEMMA SymbolRowsAre ==
    ASSUME Types, NEW k \in DOMAIN profile
    PROVE  SymbolRows(profile[k]) \subseteq Nat /\ SymbolRows(profile[k]) \subseteq Interfaces
<1>1. profile[k].from \in Seq(Columns)
  BY ProfileIs DEF IsSymbol, Types
<1>2. SymbolRows(profile[k]) \subseteq Interfaces
  BY <1>1, RowsAreInterfaces DEF SymbolRows, Types
<1> QED
  BY <1>2, DeviceIs DEF Types

(* What a row has a say in stays as it is, if its names stay settled.      *)
LEMMA SameCounting ==
    ASSUME UNCHANGED <<scheme, store>>, NEW s, NEW i,
           \A r \in Resolved(s, i) : \A j \in DOMAIN r.names :
               (\A h \in 1..j : Agrees(s, r, h)') <=> (\A h \in 1..j : Agrees(s, r, h))
    PROVE  Counting(s, i)' = Counting(s, i)
<1>1. Resolved(s, i)' = Resolved(s, i)
  BY SameEntries
<1>2. ASSUME NEW o PROVE o \in Counting(s, i)' <=> o \in Counting(s, i)
  <2>1. o \in Counting(s, i)' <=>
              \E r \in Resolved(s, i)' : \E j \in DOMAIN r.names :
                  (\A h \in 1..j : Agrees(s, r, h)') /\ o \in Offers(s, r, j, i)'
    BY DEF Counting
  <2>2. o \in Counting(s, i) <=>
              \E r \in Resolved(s, i) : \E j \in DOMAIN r.names :
                  (\A h \in 1..j : Agrees(s, r, h)) /\ o \in Offers(s, r, j, i)
    BY CountingIs
  <2>3. \A r, j : Offers(s, r, j, i)' = Offers(s, r, j, i)
    BY SameOffers
  <2> QED
    BY <1>1, <2>1, <2>2, <2>3
<1> QED
  BY <1>2

(* A row that is done has its say for good.                                *)
LEMMA SettledStays ==
    ASSUME NEW s, NEW i, Settled(s, i), UNCHANGED <<scheme, store>>,
           \A n \in DOMAIN metrics : n \in DOMAIN metrics' /\ metrics'[n] = metrics[n]
    PROVE  Settled(s, i)' /\ Counting(s, i)' = Counting(s, i)
<1>1. Resolved(s, i)' = Resolved(s, i)
  BY SameEntries
<1>2. ASSUME NEW r \in Resolved(s, i), NEW h, r.names[h] \in DOMAIN metrics
      PROVE  Agrees(s, r, h)' <=> Agrees(s, r, h)
  <2>1. InstrumentOf(s, r)' = InstrumentOf(s, r)
    BY SameInstrument
  <2>2. r.names[h] \in DOMAIN metrics' /\ metrics'[r.names[h]] = metrics[r.names[h]]
    BY <1>2
  <2> QED
    BY <1>2, <2>1, <2>2 DEF Agrees
<1>3. ASSUME NEW r \in Resolved(s, i), NEW j \in DOMAIN r.names
      PROVE  /\ j \in 1..2
             /\ (\A h \in 1..j : Agrees(s, r, h)') <=> (\A h \in 1..j : Agrees(s, r, h))
             /\ (\A h \in 1..(j - 1) : Agrees(s, r, h)') <=> (\A h \in 1..(j - 1) : Agrees(s, r, h))
  <2>1. PICK n \in 1..2 : DOMAIN r.names = 1..n
    BY ResolvedIs
  <2>2. j \in 1..2 /\ 1 \in DOMAIN r.names /\ (j = 2 => 2 \in DOMAIN r.names)
    BY <2>1
  <2>3. r.names[1] \in DOMAIN metrics
    BY <2>2 DEF Settled
  <2>4. Agrees(s, r, 1)' <=> Agrees(s, r, 1)
    BY <1>2, <2>3
  <2>5. ASSUME j = 2, Agrees(s, r, 1) PROVE Agrees(s, r, 2)' <=> Agrees(s, r, 2)
    <3>1. \A h \in 1..(2 - 1) : Agrees(s, r, h)
      BY <2>5
    <3>2. r.names[2] \in DOMAIN metrics
      BY <2>2, <2>5, <3>1 DEF Settled
    <3> QED
      BY <1>2, <3>2
  <2>6. CASE j = 1
    <3>1. 1..j = {1} /\ 1..(j - 1) = {}
      BY <2>6
    <3> QED
      BY <2>2, <2>4, <3>1
  <2>7. CASE j = 2
    <3>1. 1..j = {1, 2} /\ 1..(j - 1) = {1}
      BY <2>7
    <3> QED
      BY <2>2, <2>4, <2>5, <2>7, <3>1
  <2> QED
    BY <2>2, <2>6, <2>7
<1>4. Counting(s, i)' = Counting(s, i)
  BY <1>3, SameCounting
<1>5. Settled(s, i)'
  <2>1. ASSUME NEW r \in Resolved(s, i), NEW j \in DOMAIN r.names,
               \A h \in 1..(j - 1) : Agrees(s, r, h)'
        PROVE  r.names[j] \in DOMAIN metrics'
    <3>1. \A h \in 1..(j - 1) : Agrees(s, r, h)
      BY <1>3, <2>1
    <3>2. r.names[j] \in DOMAIN metrics
      BY <3>1 DEF Settled
    <3> QED
      BY <3>2
  <2> QED
    BY <1>1, <2>1 DEF Settled
<1> QED
  BY <1>4, <1>5

(* The row emitted now has its say in the metrics it has been added to.    *)
LEMMA RowCounts ==
    ASSUME NEW s, NEW i, Add(RowOffers(s, i)), UNCHANGED <<scheme, store>>
    PROVE  Settled(s, i)' /\ Counting(s, i)' = RowOffers(s, i)
<1>1. Resolved(s, i)' = Resolved(s, i) /\ \A r, j : Offers(s, r, j, i)' = Offers(s, r, j, i)
  BY SameEntries, SameOffers
<1>2. ASSUME NEW r PROVE InstrumentOf(s, r)' = InstrumentOf(s, r)
  BY SameInstrument
<1>3. ASSUME NEW r \in Resolved(s, i), NEW j \in DOMAIN r.names,
             \A h \in 1..j : ~Conflicts(r.names[h], InstrumentOf(s, r))
      PROVE  Agrees(s, r, j)'
  <2>1. PICK o \in Offers(s, r, j, i) : TRUE
    BY OfferExists
  <2>2. o \in RowOffers(s, i)
    BY <1>3, <2>1, RowOfferIs
  <2>3. o.name = r.names[j] /\ o.instrument = InstrumentOf(s, r)
    BY <2>1, OfferIs
  <2> QED
    BY <1>2, <2>2, <2>3, AddedMetrics DEF Agrees
<1>4. ASSUME NEW r \in Resolved(s, i), NEW j \in DOMAIN r.names, Agrees(s, r, j)'
      PROVE  ~Conflicts(r.names[j], InstrumentOf(s, r))
  <2>1. metrics'[r.names[j]] = InstrumentOf(s, r)
    BY <1>2, <1>4 DEF Agrees
  <2>2. r.names[j] \in DOMAIN metrics => metrics'[r.names[j]] = metrics[r.names[j]]
    BY AddedMetrics
  <2> QED
    BY <2>1, <2>2 DEF Conflicts
<1>5. ASSUME NEW r \in Resolved(s, i), NEW j \in DOMAIN r.names
      PROVE  /\ \A h \in 1..j : h \in DOMAIN r.names /\ \A g \in 1..h : g \in 1..j
             /\ \A h \in 1..(j - 1) : h \in DOMAIN r.names
             /\ \A h \in 1..j : h = j \/ h \in 1..(j - 1)
  <2>1. PICK n \in 1..2 : DOMAIN r.names = 1..n
    BY ResolvedIs
  <2> QED
    BY <2>1
<1>6. ASSUME NEW r \in Resolved(s, i), NEW j \in DOMAIN r.names
      PROVE  (\A h \in 1..j : Agrees(s, r, h)') <=>
             (\A h \in 1..j : ~Conflicts(r.names[h], InstrumentOf(s, r)))
  <2>1. ASSUME \A h \in 1..j : ~Conflicts(r.names[h], InstrumentOf(s, r)), NEW h \in 1..j
        PROVE  Agrees(s, r, h)'
    <3>1. h \in DOMAIN r.names /\ \A g \in 1..h : ~Conflicts(r.names[g], InstrumentOf(s, r))
      BY <1>5, <2>1
    <3> QED
      BY <1>3, <3>1
  <2>2. ASSUME \A h \in 1..j : Agrees(s, r, h)', NEW h \in 1..j
        PROVE  ~Conflicts(r.names[h], InstrumentOf(s, r))
    BY <1>4, <1>5, <2>2
  <2> QED
    BY <2>1, <2>2
<1>7. ASSUME NEW o PROVE o \in Counting(s, i)' <=> o \in RowOffers(s, i)
  <2>1. o \in Counting(s, i)' <=>
              \E r \in Resolved(s, i)' : \E j \in DOMAIN r.names :
                  (\A h \in 1..j : Agrees(s, r, h)') /\ o \in Offers(s, r, j, i)'
    BY DEF Counting
  <2> QED
    BY <1>1, <1>6, <2>1, RowOfferIs
<1>8. ASSUME NEW r \in Resolved(s, i), NEW j \in DOMAIN r.names,
             \A h \in 1..(j - 1) : Agrees(s, r, h)'
      PROVE  r.names[j] \in DOMAIN metrics'
  <2>1. CASE Conflicts(r.names[j], InstrumentOf(s, r))
    BY <2>1, AddedMetrics DEF Conflicts
  <2>2. CASE ~Conflicts(r.names[j], InstrumentOf(s, r))
    <3>1. \A h \in 1..j : ~Conflicts(r.names[h], InstrumentOf(s, r))
      BY <1>4, <1>5, <1>8, <2>2
    <3>2. Agrees(s, r, j)'
      BY <1>3, <3>1
    <3> QED
      BY <3>2 DEF Agrees
  <2> QED
    BY <2>1, <2>2
<1>9. Settled(s, i)'
  BY <1>1, <1>8 DEF Settled
<1> QED
  BY <1>7, <1>9

StreamsInv == OrderInv /\ SettledInv /\ BestInv

(* Nothing is done yet.                                                    *)
LEMMA NothingDone ==
    ASSUME Types, next = 1, emitted = {}, DOMAIN streams = {} PROVE StreamsInv
<1>1. DOMAIN profile = 1..Len(profile) /\ Len(profile) \in Nat
  BY ProfileIs DEF Types
<1>2. \A k \in DOMAIN profile : \A i : ~Done(k, i)
  BY <1>1 DEF Done
<1>3. SoFar = {}
  BY <1>2, SoFarIs DEF Given
<1>4. OrderInv
  BY DEF OrderInv
<1>5. SettledInv
  BY <1>2 DEF SettledInv
<1>6. BestInv
  BY <1>3 DEF BestInv
<1> QED
  BY <1>4, <1>5, <1>6 DEF StreamsInv

(* What is done stays as it is, as far as it was.                          *)
LEMMA DoneStays ==
    ASSUME SettledInv, UNCHANGED <<scheme, store, profile>>,
           \A n \in DOMAIN metrics : n \in DOMAIN metrics' /\ metrics'[n] = metrics[n],
           NEW k \in DOMAIN profile, NEW i, Done(k, i)
    PROVE  Settled(profile[k], i)' /\ Counting(profile[k], i)' = Counting(profile[k], i)
<1> DEFINE s == profile[k]
<1>1. Settled(s, i)
  BY DEF SettledInv, Done
<1>2. s' = s
  OBVIOUS
<1> SUFFICES ASSUME NEW t, t = profile[k]
             PROVE  Settled(t, i)' /\ Counting(t, i)' = Counting(t, i)
  BY <1>2 DEF Settled, Counting, Agrees
<1>3. Settled(t, i)
  BY <1>1
<1> QED
  BY <1>3, SettledStays

(* A build goes on without another row.                                    *)
LEMMA SameDone ==
    ASSUME Types, StreamsInv, UNCHANGED <<scheme, store, profile, metrics, streams>>,
           \A k \in DOMAIN profile : \A i : Done(k, i)' <=> Done(k, i), OrderInv'
    PROVE  StreamsInv'
<1>1. ASSUME NEW k \in DOMAIN profile, NEW i, Done(k, i)
      PROVE  Settled(profile[k], i)' /\ Counting(profile[k], i)' = Counting(profile[k], i)
  BY <1>1, DoneStays DEF StreamsInv
<1>2. SettledInv'
  BY <1>1 DEF SettledInv, Done
<1>3. ASSUME NEW k, NEW i, NEW o PROVE Given(k, i, o)' <=> Given(k, i, o)
  BY <1>1 DEF Given
<1>4. SoFar' = SoFar
  <2>1. ASSUME NEW c PROVE c \in SoFar' <=> c \in SoFar
    <3>1. c \in SoFar' <=> \E k, i, o : Given(k, i, o)' /\ c = From(k, i, o)
      BY SoFarNext DEF From
    <3> QED
      BY <1>3, <3>1, SoFarIs
  <2> QED
    BY <2>1
<1>5. BestInv'
  BY <1>4 DEF StreamsInv, BestInv, Best, Better
<1> QED
  BY <1>2, <1>5 DEF StreamsInv

LEMMA GivenTypes ==
    ASSUME Types, NEW k, NEW i, NEW o, Given(k, i, o)
    PROVE  k \in Nat /\ i \in Nat /\ o.priority \in Nat
<1>1. k \in DOMAIN profile /\ DOMAIN profile = 1..Len(profile) /\ Len(profile) \in Nat
  BY ProfileIs DEF Given, Types
<1>2. i \in SymbolRows(profile[k])
  BY DEF Given, Done
<1> QED
  BY <1>1, <1>2, SymbolRowsAre, CountingTypes DEF Given

(* The row emitted now joins those that are done, as the last of them.     *)
LEMMA RowJoins ==
    ASSUME Types, StreamsInv, NEW i, EmitRow(i)
    PROVE  /\ next \in DOMAIN profile /\ i \in Remaining
           /\ UNCHANGED <<scheme, store, profile, next>>
           /\ Add(RowOffers(profile[next], i))
           /\ \A k \in DOMAIN profile : \A j : Done(k, j)' <=> Done(k, j) \/ (k = next /\ j = i)
           /\ \A k \in DOMAIN profile : \A j : Done(k, j) => k < next \/ (k = next /\ j < i)
           /\ OrderInv'
<1>1. /\ next <= Len(profile) /\ i \in Remaining /\ \A j \in Remaining : i <= j
      /\ Add(RowOffers(profile[next], i)) /\ emitted' = emitted \cup {i}
      /\ UNCHANGED <<scheme, store, profile, next>>
  BY DEF EmitRow, deviceVars, configVars
<1>2. DOMAIN profile = 1..Len(profile) /\ Len(profile) \in Nat /\ next \in Nat /\ next >= 1
  BY ProfileIs DEF Types, PoolTypes
<1>3. next \in DOMAIN profile
  BY <1>1, <1>2
<1>4. SymbolRows(profile[next]) \subseteq Nat
  BY <1>3, SymbolRowsAre
<1>5. emitted \subseteq SymbolRows(profile[next]) /\ \A e \in emitted : \A j \in Remaining : e < j
  BY <1>1 DEF StreamsInv, OrderInv
<1>6. i \in SymbolRows(profile[next])
  BY <1>1 DEF Remaining
<1>7. ASSUME NEW s PROVE SymbolRows(s)' = SymbolRows(s)
  BY <1>1, SameValues
<1>8. ASSUME NEW k \in DOMAIN profile PROVE SymbolRows(profile[k])' = SymbolRows(profile[k])
  BY <1>1, <1>7
<1>9. \A k \in DOMAIN profile : \A j : Done(k, j)' <=> Done(k, j) \/ (k = next /\ j = i)
  BY <1>1, <1>2, <1>3, <1>6, <1>8 DEF Done
<1>10. \A k \in DOMAIN profile : \A j : Done(k, j) => k < next \/ (k = next /\ j < i)
  BY <1>1, <1>5 DEF Done
<1>11. Remaining' = Remaining \ {i}
  BY <1>1, <1>3, <1>8 DEF Remaining
<1>12. OrderInv'
  <2>1. ASSUME NEW e \in emitted', NEW j \in Remaining' PROVE e < j
    <3>1. j \in Remaining /\ j # i /\ j \in Nat /\ i \in Nat
      BY <1>4, <1>6, <1>11 DEF Remaining
    <3>2. CASE e = i
      BY <1>1, <3>1, <3>2
    <3>3. CASE e \in emitted
      BY <1>5, <3>1, <3>3
    <3> QED
      BY <1>1, <3>2, <3>3
  <2>2. emitted' \subseteq SymbolRows(profile[next])'
    BY <1>1, <1>3, <1>5, <1>6, <1>8
  <2> QED
    BY <2>1, <2>2 DEF OrderInv
<1> QED
  BY <1>1, <1>3, <1>9, <1>10, <1>12

LEMMA RowGives ==
    ASSUME Types, StreamsInv, NEW i, EmitRow(i)
    PROVE  /\ SettledInv'
           /\ \A k, j, o : Given(k, j, o)' <=>
                 Given(k, j, o) \/ (k = next /\ j = i /\ o \in RowOffers(profile[next], i))
<1>1. /\ next \in DOMAIN profile
      /\ UNCHANGED <<scheme, store, profile, next>>
      /\ Add(RowOffers(profile[next], i))
      /\ \A k \in DOMAIN profile : \A j : Done(k, j)' <=> Done(k, j) \/ (k = next /\ j = i)
      /\ \A k \in DOMAIN profile : \A j : Done(k, j) => k < next \/ (k = next /\ j < i)
  BY RowJoins
<1>2. \A n \in DOMAIN metrics : n \in DOMAIN metrics' /\ metrics'[n] = metrics[n]
  BY <1>1, AddedMetrics
<1>3. ASSUME NEW k \in DOMAIN profile, NEW j, Done(k, j)
      PROVE  Settled(profile[k], j)' /\ Counting(profile[k], j)' = Counting(profile[k], j)
  BY <1>1, <1>2, <1>3, DoneStays DEF StreamsInv
<1>4. Settled(profile[next], i)' /\ Counting(profile[next], i)' = RowOffers(profile[next], i)
  <2> SUFFICES ASSUME NEW s, s = profile[next]
               PROVE  Settled(s, i)' /\ Counting(s, i)' = RowOffers(s, i)
    BY <1>1 DEF Settled, Counting, Agrees
  <2>1. Add(RowOffers(s, i))
    BY <1>1
  <2> QED
    BY <1>1, <2>1, RowCounts
<1>5. SettledInv'
  BY <1>1, <1>3, <1>4 DEF SettledInv
<1>6. ~Done(next, i)
  <2>1. i \in Nat /\ next \in Nat
    BY RowJoins, SymbolRowsAre DEF Remaining, Types, PoolTypes
  <2> QED
    BY <1>1, <2>1
<1>7. ASSUME NEW k, NEW j, NEW o
      PROVE  Given(k, j, o)' <=>
                 Given(k, j, o) \/ (k = next /\ j = i /\ o \in RowOffers(profile[next], i))
  <2>1. Given(k, j, o)' <=> /\ k \in DOMAIN profile
                            /\ Done(k, j) \/ (k = next /\ j = i)
                            /\ o \in Counting(profile[k], j)'
    BY <1>1 DEF Given
  <2>2. CASE k = next /\ j = i
    BY <1>1, <1>4, <1>6, <2>1, <2>2 DEF Given
  <2>3. CASE ~ (k = next /\ j = i)
    BY <1>3, <2>1, <2>3 DEF Given
  <2> QED
    BY <2>2, <2>3
<1> QED
  BY <1>5, <1>7

(* BestInv, one contribution at a time.                                    *)
BestOf(k, i, o) ==
    \A g, j, p : Given(g, j, p) /\ p.key = o.key => ~Better(From(g, j, p), From(k, i, o))

LEMMA BetterIs ==
    ASSUME NEW k, NEW i, NEW o, NEW g, NEW j, NEW p
    PROVE  Better(From(g, j, p), From(k, i, o)) <=>
              \/ p.priority > o.priority
              \/ /\ p.priority = o.priority
                 /\ g < k \/ (g = k /\ j < i)
BY DEF Better, From

LEMMA BestIs ==
    ASSUME NEW k, NEW i, NEW o
    PROVE  Best(From(k, i, o)) <=> BestOf(k, i, o)
<1>1. ASSUME NEW g, NEW j, NEW p PROVE From(g, j, p).offer = p
  BY DEF From
<1>2. ASSUME Best(From(k, i, o)) PROVE BestOf(k, i, o)
  BY <1>1, <1>2, SoFarIs DEF Best, BestOf
<1>3. ASSUME BestOf(k, i, o), NEW d \in SoFar, d.offer.key = From(k, i, o).offer.key
      PROVE  ~Better(d, From(k, i, o))
  <2>1. PICK g, j, p : Given(g, j, p) /\ d = From(g, j, p)
    BY <1>3, SoFarIs
  <2> QED
    BY <1>1, <1>3, <2>1 DEF BestOf
<1> QED
  BY <1>2, <1>3 DEF Best

BestBy(key, k, i, o) ==
    /\ Given(k, i, o) /\ o.key = key /\ BestOf(k, i, o)
    /\ streams[key].value = o.value /\ streams[key].priority = o.priority

LEMMA BestInvIs ==
    BestInv <=> /\ \A k, i, o : Given(k, i, o) => o.key \in DOMAIN streams
                /\ \A key \in DOMAIN streams : \E k, i, o : BestBy(key, k, i, o)
<1>1. ASSUME NEW g, NEW j, NEW p PROVE From(g, j, p).offer = p
  BY DEF From
<1>2. (\A c \in SoFar : c.offer.key \in DOMAIN streams) <=>
      (\A k, i, o : Given(k, i, o) => o.key \in DOMAIN streams)
  BY <1>1, SoFarIs
<1>3. ASSUME NEW key
      PROVE  (\E c \in SoFar : /\ c.offer.key = key /\ Best(c)
                               /\ streams[key].value = c.offer.value
                               /\ streams[key].priority = c.offer.priority)
             <=> \E k, i, o : BestBy(key, k, i, o)
  BY <1>1, SoFarIs, BestIs DEF BestBy
<1> QED
  BY <1>2, <1>3 DEF BestInv

LEMMA BestInvNext ==
    (BestInv <=> /\ \A k, i, o : Given(k, i, o) => o.key \in DOMAIN streams
                 /\ \A key \in DOMAIN streams : \E k, i, o : BestBy(key, k, i, o))'
BY BestInvIs, PTL

LEMMA RowKeepsBest ==
    ASSUME Types, StreamsInv, StartsInv, NEW i \in Interfaces, EmitRow(i)
    PROVE  BestInv'
<1> DEFINE s == profile[next]
           offers == RowOffers(s, i)
<1>1. /\ next \in DOMAIN profile /\ i \in Remaining
      /\ UNCHANGED <<scheme, store, profile, next>>
      /\ Add(offers)
      /\ \A k \in DOMAIN profile : \A j : Done(k, j) => k < next \/ (k = next /\ j < i)
  BY RowJoins
<1>2. ASSUME NEW k, NEW j, NEW o
      PROVE  Given(k, j, o)' <=> Given(k, j, o) \/ (k = next /\ j = i /\ o \in offers)
  BY RowGives
<1>3. /\ \A k, j, o : Given(k, j, o) => o.key \in DOMAIN streams
      /\ \A key \in DOMAIN streams : \E k, j, o : BestBy(key, k, j, o)
  BY BestInvIs DEF StreamsInv
<1>4. next \in Nat /\ i \in Nat
  BY <1>1, SymbolRowsAre DEF Remaining, Types, PoolTypes
<1>5. ASSUME NEW o \in offers PROVE o.priority \in Nat /\ Given(next, i, o)'
  <2>1. PICK r \in Resolved(s, i) : \E k \in DOMAIN r.names : o \in Offers(s, r, k, i)
    BY RowOfferIs
  <2>2. o.priority = r.entry.priority
    BY <2>1, OfferIs
  <2>3. r.entry.priority \in Nat
    BY ResolvedIs
  <2>4. Given(next, i, o)'
    BY <1>1, <1>2
  <2> QED
    BY <2>2, <2>3, <2>4
<1> HIDE DEF s
<1>6. ASSUME NEW k, NEW j, NEW o, Given(k, j, o)
      PROVE  /\ k \in Nat /\ j \in Nat /\ o.priority \in Nat
             /\ k < next \/ (k = next /\ j < i)
  BY <1>1, <1>6, GivenTypes DEF Given
<1>7. ASSUME NEW k, NEW j, NEW o, Given(k, j, o)' PROVE o.key \in DOMAIN streams'
  <2>1. CASE Given(k, j, o)
    BY <1>1, <1>3, <2>1, AddedStreams
  <2>2. CASE o \in offers
    BY <1>1, <2>2, AddedStreams
  <2> QED
    BY <1>2, <1>7, <2>1, <2>2
<1>8. ASSUME NEW key \in DOMAIN streams', \A o \in offers : o.key # key
      PROVE  \E k, j, o : BestBy(key, k, j, o)'
  <2>1. key \in DOMAIN streams /\ streams'[key] = streams[key]
    BY <1>1, <1>8, AddedStreams
  <2>2. PICK k, j, o : BestBy(key, k, j, o)
    BY <1>3, <2>1
  <2>3. ASSUME NEW g, NEW h, NEW p, Given(g, h, p)', p.key = o.key
        PROVE  ~Better(From(g, h, p), From(k, j, o))
    <3>1. Given(g, h, p)
      BY <1>2, <1>8, <2>2, <2>3 DEF BestBy
    <3> QED
      BY <2>2, <2>3, <3>1 DEF BestBy, BestOf
  <2>4. BestOf(k, j, o)'
    BY <2>3 DEF BestOf, Better, From
  <2>5. BestBy(key, k, j, o)'
    BY <1>2, <2>1, <2>2, <2>4 DEF BestBy
  <2> QED
    BY <2>5
<1>9. ASSUME NEW o \in offers
      PROVE  \E k, j, p : BestBy(o.key, k, j, p)'
  <2>1. streams'[o.key] = Point(o)
    BY <1>1, AddedStreams
  <2>2. ASSUME NEW g, NEW h, NEW p, Given(g, h, p)', p.key = o.key
        PROVE  Given(g, h, p) \/ (g = next /\ h = i /\ p = o)
    BY <1>2, <2>2, OneOffer
  <2>3. CASE o.key \notin DOMAIN streams
    <3>1. ASSUME NEW g, NEW h, NEW p, Given(g, h, p)', p.key = o.key
          PROVE  ~Better(From(g, h, p), From(next, i, o))
      <4>1. g = next /\ h = i /\ p = o
        BY <1>3, <2>2, <2>3, <3>1
      <4> QED
        BY <1>4, <1>5, <4>1, BetterIs
    <3>2. BestOf(next, i, o)'
      BY <1>1, <3>1 DEF BestOf, Better, From
    <3>3. streams'[o.key].value = o.value /\ streams'[o.key].priority = o.priority
      BY <2>1, <2>3 DEF Point
    <3>4. BestBy(o.key, next, i, o)'
      BY <1>1, <1>5, <3>2, <3>3 DEF BestBy
    <3> QED
      BY <1>1, <3>4
  <2>4. CASE o.key \in DOMAIN streams
    <3>1. PICK k, j, c : BestBy(o.key, k, j, c)
      BY <1>3, <2>4
    <3>2. /\ Given(k, j, c) /\ c.key = o.key
          /\ streams[o.key].value = c.value /\ streams[o.key].priority = c.priority
          /\ \A g, h, p : Given(g, h, p) /\ p.key = o.key => ~Better(From(g, h, p), From(k, j, c))
      BY <3>1 DEF BestBy, BestOf
    <3>3. k \in Nat /\ j \in Nat /\ c.priority \in Nat /\ (k < next \/ (k = next /\ j < i))
      BY <1>6, <3>2
    <3>4. IsPoint(streams[o.key])
      BY <2>4 DEF StartsInv, IsPoint
    <3>5. CASE Outranks(o)
      <4>1. o.priority > c.priority
        BY <3>2, <3>5 DEF Outranks
      <4>2. ASSUME NEW g, NEW h, NEW p, Given(g, h, p)', p.key = o.key
            PROVE  ~Better(From(g, h, p), From(next, i, o))
        <5>1. CASE g = next /\ h = i /\ p = o
          BY <1>4, <1>5, <5>1, BetterIs
        <5>2. CASE Given(g, h, p)
          <6>1. ~ (p.priority > c.priority) /\ p.priority \in Nat
            BY <1>6, <3>2, <4>2, <5>2, BetterIs
          <6>2. ~ (p.priority > o.priority) /\ p.priority # o.priority
            BY <1>5, <3>3, <4>1, <6>1
          <6> QED
            BY <6>2, BetterIs
        <5> QED
          BY <2>2, <4>2, <5>1, <5>2
      <4>3. BestOf(next, i, o)'
        BY <1>1, <4>2 DEF BestOf, Better, From
      <4>4. streams'[o.key] = [streams[o.key] EXCEPT !.value = o.value, !.priority = o.priority]
        BY <2>1, <2>4, <3>5 DEF Point
      <4>5. streams'[o.key].value = o.value /\ streams'[o.key].priority = o.priority
        BY <3>4, <4>4 DEF IsPoint
      <4>6. BestBy(o.key, next, i, o)'
        BY <1>1, <1>5, <4>3, <4>5 DEF BestBy
      <4> QED
        BY <1>1, <4>6
    <3>6. CASE ~Outranks(o)
      <4>1. ~ (o.priority > c.priority)
        BY <3>2, <3>6 DEF Outranks
      <4>2. ASSUME NEW g, NEW h, NEW p, Given(g, h, p)', p.key = o.key
            PROVE  ~Better(From(g, h, p), From(k, j, c))
        <5>1. CASE g = next /\ h = i /\ p = o
          <6>1. ~ (next < k) /\ ~ (next = k /\ i < j)
            BY <1>4, <3>3
          <6> QED
            BY <4>1, <5>1, <6>1, BetterIs
        <5>2. CASE Given(g, h, p)
          BY <3>2, <4>2, <5>2
        <5> QED
          BY <2>2, <4>2, <5>1, <5>2
      <4>3. BestOf(k, j, c)'
        BY <3>2, <4>2 DEF BestOf, Better, From
      <4>4. streams'[o.key] = streams[o.key]
        BY <2>1, <2>4, <3>6 DEF Point
      <4>5. BestBy(o.key, k, j, c)'
        BY <1>2, <3>2, <4>3, <4>4 DEF BestBy
      <4> QED
        BY <4>5
    <3> QED
      BY <3>5, <3>6
  <2> QED
    BY <2>3, <2>4
<1>10. ASSUME NEW key \in DOMAIN streams' PROVE \E k, j, o : BestBy(key, k, j, o)'
  <2>1. CASE \A o \in offers : o.key # key
    BY <1>8, <2>1
  <2>2. CASE \E o \in offers : o.key = key
    BY <1>9, <2>2
  <2> QED
    BY <2>1, <2>2
<1> QED
  BY <1>7, <1>10, BestInvNext

LEMMA StreamsStep == Types /\ StartsInv /\ StreamsInv /\ [Next]_vars => StreamsInv'
<1> SUFFICES ASSUME Types, StartsInv, StreamsInv, [Next]_vars PROVE StreamsInv'
  OBVIOUS
<1>0. Types'
  BY TypesStep
<1>1. ASSUME next' = 1, emitted' = {}, DOMAIN streams' = {} PROVE StreamsInv'
  <2>1. (Types /\ next = 1 /\ emitted = {} /\ DOMAIN streams = {} => StreamsInv)'
    BY NothingDone, PTL
  <2> QED
    BY <1>0, <1>1, <2>1
<1>2. DOMAIN EmptyMap = {}
  BY DEF EmptyMap
<1>3. ASSUME pc' \in {"idle", "fetched"} PROVE StreamsInv'
  BY <1>0, <1>1, <1>2, <1>3 DEF Types, PoolTypes
<1>4. ASSUME UNCHANGED <<scheme, store, profile, next, emitted, metrics, streams>> PROVE StreamsInv'
  <2>1. ASSUME NEW s PROVE SymbolRows(s)' = SymbolRows(s)
    BY <1>4, SameValues
  <2>2. \A k : SymbolRows(profile[k])' = SymbolRows(profile[k])
    BY <1>4, <2>1
  <2>3. \A k \in DOMAIN profile : \A i : Done(k, i)' <=> Done(k, i)
    BY <1>4, <2>2 DEF Done
  <2>4. OrderInv'
    BY <1>4, <2>2 DEF StreamsInv, OrderInv, Remaining
  <2> QED
    BY <1>4, <2>3, <2>4, SameDone
<1>5. CASE Tick
  BY <1>3, <1>5 DEF Tick, poolVars
<1>6. CASE Boot
  BY <1>3, <1>6 DEF Boot, poolVars
<1>7. ASSUME NEW rows, Fetch(rows) PROVE StreamsInv'
  BY <1>3, <1>7 DEF Fetch
<1>8. CASE StartBuild
  BY <1>1, <1>2, <1>8 DEF StartBuild, Types, PoolTypes
<1>9. ASSUME NEW i \in Interfaces, EmitRow(i) PROVE StreamsInv'
  BY <1>9, RowJoins, RowGives, RowKeepsBest DEF StreamsInv
<1>10. CASE NextSymbol
  <2>1. /\ UNCHANGED <<scheme, store, profile, metrics, streams>>
        /\ next <= Len(profile) /\ Remaining = {} /\ next' = next + 1 /\ emitted' = {}
    BY <1>10 DEF NextSymbol, deviceVars, configVars
  <2>2. DOMAIN profile = 1..Len(profile) /\ Len(profile) \in Nat /\ next \in Nat /\ next >= 1
    BY ProfileIs DEF Types, PoolTypes
  <2>3. emitted = SymbolRows(profile[next])
    BY <2>1 DEF StreamsInv, OrderInv, Remaining
  <2>4. ASSUME NEW s PROVE SymbolRows(s)' = SymbolRows(s)
    BY <2>1, SameValues
  <2>5. \A k : SymbolRows(profile[k])' = SymbolRows(profile[k])
    BY <2>1, <2>4
  <2>6. ASSUME NEW k \in DOMAIN profile, NEW i PROVE Done(k, i)' <=> Done(k, i)
    <3>1. k < next' <=> k < next \/ k = next
      BY <2>1, <2>2
    <3>2. Done(k, i)' <=> i \in SymbolRows(profile[k]) /\ k < next'
      BY <2>1, <2>5 DEF Done
    <3>3. k = next /\ i \in SymbolRows(profile[k]) => i \in emitted
      BY <2>3
    <3> QED
      BY <3>1, <3>2, <3>3 DEF Done
  <2>7. OrderInv'
    BY <2>1 DEF OrderInv
  <2> QED
    BY <2>1, <2>6, <2>7, SameDone
<1>11. CASE Derive
  BY <1>4, <1>11 DEF Derive, deviceVars, configVars
<1>12. CASE Report
  BY <1>3, <1>12 DEF Report
<1>13. ASSUME NEW p, Reprofile(p) PROVE StreamsInv'
  BY <1>3, <1>13 DEF Reprofile
<1>14. CASE Forget
  BY <1>3, <1>14 DEF Forget
<1>15. CASE UNCHANGED vars
  BY <1>4, <1>15 DEF vars, deviceVars, configVars, poolVars
<1> QED
  BY <1>5, <1>6, <1>7, <1>8, <1>9, <1>10, <1>11, <1>12, <1>13, <1>14, <1>15 DEF Next

LEMMA StreamsHold == Spec => [](Types /\ StreamsInv)
<1>1. Init => Types /\ StartsInv /\ StreamsInv
  <2>1. Init => Types /\ StartsInv /\ next = 1 /\ emitted = {} /\ DOMAIN streams = {}
    BY TypesInit DEF Init, StartsInv, EmptyMap
  <2> QED
    BY <2>1, NothingDone
<1>2. Types /\ StartsInv /\ [Next]_vars => StartsInv'
  BY StartsStep
<1> QED
  BY <1>1, <1>2, TypesStep, StreamsStep, PTL DEF Spec

(* When a build is done every contribution has been emitted.               *)
LEMMA BuiltIsBest == Types /\ StreamsInv => BestSymbolWins
<1> SUFFICES ASSUME Types, StreamsInv, pc = "built"
             PROVE  /\ DOMAIN streams = {c.offer.key : c \in Contributions}
                    /\ \A c \in Contributions :
                          (\A d \in Contributions : d.offer.key = c.offer.key => ~Better(d, c))
                              => streams[c.offer.key].value = c.offer.value
  BY DEF BestSymbolWins
<1>1. next = Len(profile) + 1 /\ DOMAIN profile = 1..Len(profile) /\ Len(profile) \in Nat
  BY ProfileIs DEF Types, PoolTypes
<1>2. ASSUME NEW k \in DOMAIN profile, NEW i \in SymbolRows(profile[k]) PROVE Done(k, i)
  BY <1>1 DEF Done
<1>3. SoFar = Contributions
  <2>1. ASSUME NEW c PROVE c \in Contributions => c \in SoFar
    BY <1>2, SoFarIs, ContributionsAre DEF Given
  <2> QED
    BY <2>1 DEF SoFar
<1>4. DOMAIN streams = {c.offer.key : c \in Contributions}
  BY <1>3 DEF StreamsInv, BestInv
<1>5. ASSUME NEW c \in Contributions,
             \A d \in Contributions : d.offer.key = c.offer.key => ~Better(d, c)
      PROVE  streams[c.offer.key].value = c.offer.value
  <2>1. PICK k, i, o : Given(k, i, o) /\ c = From(k, i, o)
    BY <1>3, SoFarIs
  <2>2. c.offer = o
    BY <2>1 DEF From
  <2>3. PICK g, j, p : BestBy(o.key, g, j, p)
    BY <2>1, BestInvIs DEF StreamsInv
  <2>4. Given(g, j, p) /\ p.key = o.key /\ streams[o.key].value = p.value
    BY <2>3 DEF BestBy
  <2>5. ~Better(From(g, j, p), From(k, i, o))
    <3>1. From(g, j, p) \in Contributions /\ From(g, j, p).offer = p
      BY <1>3, <2>4, SoFarIs DEF From
    <3> QED
      BY <1>5, <2>1, <2>2, <2>4, <3>1
  <2>6. ~Better(From(k, i, o), From(g, j, p))
    BY <2>1, <2>3, <2>4 DEF BestBy, BestOf
  <2>7. g = k /\ j = i
    <3>1. /\ k \in Nat /\ i \in Nat /\ o.priority \in Nat
          /\ g \in Nat /\ j \in Nat /\ p.priority \in Nat
      BY <2>1, <2>4, GivenTypes
    <3> QED
      BY <2>5, <2>6, <3>1, BetterIs
  <2>8. p = o
    BY <2>1, <2>4, <2>7, OneCounts DEF Given
  <2> QED
    BY <2>2, <2>4, <2>8
<1> QED
  BY <1>4, <1>5

(* Each stream is reported with the value of the symbol of the highest     *)
(* priority (metricPool.add), in whatever order and with whatever rows.    *)
THEOREM BestWins == Spec => []BestSymbolWins
BY StreamsHold, BuiltIsBest, PTL

-----------------------------------------------------------------------------
(* Rows apart.                                                             *)

(* A row that reports under a name without its identity has an entry that  *)
(* neither opts in nor is reported under its own hw. name.                 *)
LEMMA Anonymous ==
    ASSUME NEW s, NEW i, NEW r \in Resolved(s, i), NEW j \in DOMAIN r.names,
           ~NamesComponent(r.entry, r.names[j]), NEW e \in Lookup(s.name)
    PROVE  ~e.identity /\ (e.hardware => scheme # "semconv")
<1> DEFINE own == <<"curated", e.metric>>
           whole == Resolve(scheme, s.name)
<1>1. whole = ApplyScheme(scheme, e, own, s.name, TRUE)
  <2>1. (CHOOSE f \in Lookup(s.name) : TRUE) = e
    BY LookupIs
  <2> QED
    BY <2>1 DEF Resolve
<1>2. whole.entry = e
  BY <1>1 DEF ApplyScheme
<1>3. CASE e.cases # NoMap
  BY <1>3, LookupIs
<1>4. CASE e.cases = NoMap
  <2>1. r = whole
    BY <1>2, <1>4 DEF Resolved
  <2>2. ~e.identity /\ ~ (r.names[j][1] = "curated" /\ e.hardware)
    BY <1>2, <2>1 DEF NamesComponent, IsHardware
  <2>3. ASSUME scheme = "semconv" PROVE r.names[j][1] = "curated"
    <3>1. r.names = <<own>>
      BY <1>1, <2>1, <2>3 DEF ApplyScheme
    <3>2. j = 1
      BY <3>1
    <3> QED
      BY <3>1, <3>2
  <2> QED
    BY <2>2, <2>3
<1> QED
  BY <1>3, <1>4

(* What the key of a contribution says of its row.                         *)
LEMMA KeyNamesRow ==
    ASSUME NEW k, NEW i, NEW o \in Counting(profile[k], i)
    PROVE  /\ o.key[2].tags = RowTags(profile[k], i)
           /\ o.key[2].id \in {{<<Component(profile[k].table), i>>}, {}}
           /\ o.key[2].id = {} =>
                 \A e \in Lookup(profile[k].name) : ~e.identity /\ (e.hardware => scheme # "semconv")
<1> DEFINE s == profile[k]
<1>1. PICK r \in Resolved(s, i) : \E j \in DOMAIN r.names : o \in Offers(s, r, j, i)
  BY CountingIs
<1>2. PICK j \in DOMAIN r.names : o \in Offers(s, r, j, i)
  BY <1>1
<1>3. o.key[2] = Attributes(s, r, r.names[j], i)
  BY <1>2, OfferIs
<1>4. /\ o.key[2].tags = RowTags(s, i)
      /\ o.key[2].id = IF NamesComponent(r.entry, r.names[j])
                       THEN {<<Component(s.table), i>>} ELSE {}
  BY <1>3 DEF Attributes
<1>5. o.key[2].id = {} => ~NamesComponent(r.entry, r.names[j])
  BY <1>4
<1> QED
  BY <1>4, <1>5, Anonymous

LEMMA Apart == RowsKeptApart
<1> SUFFICES ASSUME NEW c \in Contributions, NEW d \in Contributions,
                    c.row # d.row, c.offer.key = d.offer.key
             PROVE  /\ RowTags(profile[c.symbol], c.row) = RowTags(profile[d.symbol], d.row)
                    /\ \A name \in {profile[c.symbol].name, profile[d.symbol].name} :
                          \A e \in Lookup(name) : ~e.identity /\ (e.hardware => scheme # "semconv")
  BY DEF RowsKeptApart
<1>1. PICK k, i, o : o \in Counting(profile[k], i) /\ c = From(k, i, o)
  BY ContributionsAre
<1>2. PICK g, j, p : p \in Counting(profile[g], j) /\ d = From(g, j, p)
  BY ContributionsAre
<1>3. /\ c.symbol = k /\ c.row = i /\ c.offer = o
      /\ d.symbol = g /\ d.row = j /\ d.offer = p
  BY <1>1, <1>2 DEF From
<1>4. i # j /\ o.key = p.key
  BY <1>3
<1>5. /\ o.key[2].tags = RowTags(profile[k], i)
      /\ o.key[2].id \in {{<<Component(profile[k].table), i>>}, {}}
      /\ o.key[2].id = {} =>
            \A e \in Lookup(profile[k].name) : ~e.identity /\ (e.hardware => scheme # "semconv")
  BY <1>1, KeyNamesRow
<1>6. /\ p.key[2].tags = RowTags(profile[g], j)
      /\ p.key[2].id \in {{<<Component(profile[g].table), j>>}, {}}
      /\ p.key[2].id = {} =>
            \A e \in Lookup(profile[g].name) : ~e.identity /\ (e.hardware => scheme # "semconv")
  BY <1>2, KeyNamesRow
<1>7. o.key[2].id = {} /\ p.key[2].id = {}
  BY <1>4, <1>5, <1>6
<1>8. RowTags(profile[k], i) = RowTags(profile[g], j)
  BY <1>4, <1>5, <1>6
<1> QED
  BY <1>3, <1>5, <1>6, <1>7, <1>8

(* Rows of a component's metric never share a stream; rows of another      *)
(* metric share one only with the same tags (Builder.buildAttributes).     *)
THEOREM RowsApart == Spec => []RowsKeptApart
BY Apart, PTL

-----------------------------------------------------------------------------
(* Readings.                                                               *)

(* Nothing is stored that was not asked for.                               *)
AskedInv == pc # "idle" => \A c \in Columns \ Asked : store.rows[c] = {}

LEMMA AskedStep == AskedInv /\ [Next]_vars => AskedInv'
<1> SUFFICES ASSUME AskedInv, [Next]_vars PROVE AskedInv'
  OBVIOUS
<1>1. ASSUME UNCHANGED <<profile, store>>, pc' # "idle" => pc # "idle" PROVE AskedInv'
  BY <1>1 DEF AskedInv, Asked
<1>2. ASSUME pc' = "idle" PROVE AskedInv'
  BY <1>2 DEF AskedInv
<1>3. CASE Tick
  BY <1>1, <1>3 DEF Tick
<1>4. CASE Boot
  BY <1>1, <1>4 DEF Boot
<1>5. ASSUME NEW rows \in [Asked -> SUBSET Interfaces], Fetch(rows) PROVE AskedInv'
  <2>1. profile' = profile
    BY <1>5 DEF Fetch
  <2>2. store'.rows = [c \in Columns |-> IF c \in Asked THEN rows[c] ELSE {}]
    BY <1>5 DEF Fetch
  <2> QED
    BY <2>1, <2>2 DEF AskedInv, Asked
<1>6. CASE StartBuild
  BY <1>1, <1>6 DEF StartBuild, deviceVars
<1>7. ASSUME NEW i \in Interfaces, EmitRow(i) PROVE AskedInv'
  BY <1>1, <1>7 DEF EmitRow
<1>8. CASE NextSymbol
  BY <1>1, <1>8 DEF NextSymbol
<1>9. CASE Derive
  BY <1>1, <1>9 DEF Derive
<1>10. CASE Report
  BY <1>2, <1>10 DEF Report
<1>11. ASSUME NEW p, Reprofile(p) PROVE AskedInv'
  BY <1>2, <1>11 DEF Reprofile
<1>12. CASE Forget
  BY <1>2, <1>12 DEF Forget
<1>13. CASE UNCHANGED vars
  BY <1>1, <1>13 DEF vars
<1> QED
  BY <1>3, <1>4, <1>5, <1>6, <1>7, <1>8, <1>9, <1>10, <1>11, <1>12, <1>13 DEF Next

LEMMA FixedValue ==
    ASSUME NEW c \in DOMAIN Fixed, NEW i
    PROVE  Value(c, i) = Fixed[c][i]
<1>1. c # "ifHCInOctets" /\ c # "ifInOctets" /\ c # "ifHighSpeed" /\ c # "ifSpeed"
  BY StreamAssumptions DEF Changing
<1> QED
  BY <1>1 DEF Value

(* An entry of the registry's metrics is the one that is found.            *)
LEMMA LookupFinds ==
    ASSUME NEW m \in DOMAIN Metrics
    PROVE  Lookup(m) = {Metrics[m]}
BY DEF Lookup

(* A name of a row that is curated is among those of its symbol.           *)
LEMMA AppliedEntry ==
    ASSUME NEW entry, NEW own, NEW symbol, NEW curated
    PROVE  ApplyScheme(scheme, entry, own, symbol, curated).entry = entry
BY DEF ApplyScheme

LEMMA AppliedName ==
    ASSUME NEW r, NEW entry, NEW own, NEW symbol, NEW curated,
           r = ApplyScheme(scheme, entry, own, symbol, curated),
           NEW j \in DOMAIN r.names, r.names[j][1] = "curated"
    PROVE  r.names[j] = own
<1>1. CompatName(symbol)[1] # "curated"
  BY DEF CompatName
<1>2. CASE scheme = "datadog_compat"
  <2>1. r.names = <<CompatName(symbol)>>
    BY <1>2 DEF ApplyScheme
  <2>2. j = 1
    BY <2>1
  <2> QED
    BY <1>1, <2>1, <2>2
<1>3. CASE scheme # "datadog_compat" /\ scheme = "both" /\ CompatName(symbol) # own
  <2>1. r.names = <<own, CompatName(symbol)>>
    BY <1>3 DEF ApplyScheme
  <2>2. j \in 1..2 /\ r.names[1] = own /\ r.names[2] = CompatName(symbol)
    BY <2>1
  <2> QED
    BY <1>1, <2>2
<1>4. CASE scheme # "datadog_compat" /\ ~ (scheme = "both" /\ CompatName(symbol) # own)
  <2>1. r.names = <<own>>
    BY <1>4 DEF ApplyScheme
  <2> QED
    BY <2>1
<1> QED
  BY <1>2, <1>3, <1>4

LEMMA CuratedNameIs ==
    ASSUME NEW s, NEW i, NEW r \in Resolved(s, i), NEW j \in DOMAIN r.names,
           r.names[j][1] = "curated"
    PROVE  \E e \in Lookup(s.name) :
              \/ /\ e.cases = NoMap
                 /\ r.entry = e /\ r.names[j] = CuratedName(e)
              \/ \E k \in KindOfRow(s, e.kind, i) \cap DOMAIN e.cases :
                    /\ e.cases # NoMap /\ e.cases[k] \in DOMAIN Metrics
                    /\ r.entry = Metrics[e.cases[k]] /\ r.names[j] = CaseName(e, k)
<1> DEFINE whole == Resolve(scheme, s.name)
<1>1. CASE Lookup(s.name) = {}
  <2> DEFINE none == Entry("", FALSE, "gauge")
  <2>1. none.cases = NoMap
    BY DEF Entry
  <2>2. whole = ApplyScheme(scheme, none, FallbackName(s.name), s.name, FALSE)
    BY <1>1 DEF Resolve
  <2> HIDE DEF none
  <2>3. whole.entry = none
    <3> HIDE DEF whole
    <3> QED
      BY <2>2, AppliedEntry
  <2>4. r = whole
    BY <2>1, <2>3 DEF Resolved
  <2>5. r.names[j] = FallbackName(s.name)
    <3>1. r = ApplyScheme(scheme, none, FallbackName(s.name), s.name, FALSE)
      BY <2>2, <2>4
    <3> HIDE DEF whole
    <3> QED
      BY <3>1, AppliedName
  <2>6. FallbackName(s.name)[1] # "curated"
    BY DEF FallbackName, CompatName
  <2> QED
    BY <2>5, <2>6
<1>2. CASE Lookup(s.name) # {}
  <2> DEFINE e == CHOOSE f \in Lookup(s.name) : TRUE
  <2>1. e \in Lookup(s.name)
    BY <1>2
  <2>2. whole = ApplyScheme(scheme, e, <<"curated", e.metric>>, s.name, TRUE)
    BY <1>2 DEF Resolve
  <2> HIDE DEF e
  <2>3. whole.entry = e
    <3> HIDE DEF whole
    <3> QED
      BY <2>2, AppliedEntry
  <2>4. CASE e.cases = NoMap
    <3>1. r = whole
      BY <2>3, <2>4 DEF Resolved
    <3>2. r.names[j] = <<"curated", e.metric>>
      <4>1. r = ApplyScheme(scheme, e, <<"curated", e.metric>>, s.name, TRUE)
        BY <2>2, <3>1
      <4> HIDE DEF whole
      <4> QED
        BY <4>1, AppliedName
    <3> QED
      BY <2>1, <2>3, <2>4, <3>1, <3>2 DEF CuratedName
  <2>5. CASE e.cases # NoMap
    <3>1. PICK k \in KindOfRow(s, e.kind, i) \cap DOMAIN e.cases :
             r \in ResolveDispatched(scheme, s.name, e.cases[k])
      BY <2>3, <2>5 DEF Resolved
    <3> DEFINE t == e.cases[k]
    <3>2. /\ t \in DOMAIN Metrics
          /\ r = ApplyScheme(scheme, Metrics[t], <<"curated", Metrics[t].metric>>, s.name, TRUE)
      BY <3>1 DEF ResolveDispatched
    <3>3. r.names[j] = <<"curated", Metrics[t].metric>>
      BY <3>2, AppliedName
    <3>4. r.entry = Metrics[t]
      BY <3>2 DEF ApplyScheme
    <3> QED
      BY <2>1, <2>5, <3>1, <3>2, <3>3, <3>4 DEF CaseName, CuratedName
  <2> QED
    BY <2>4, <2>5
<1> QED
  BY <1>1, <1>2

(* What a source reads in a row of it, and with which decimal places.      *)
LEMMA SourceReads ==
    ASSUME NEW s, NEW m \in DOMAIN Fixed, s.from = <<m>>, ~s.constant,
           NEW i \in SymbolRows(s)
    PROVE  /\ Value(Available(s.from), i) = Fixed[m][i]
           /\ Sibling(s, Precision, i) = {} => EntryValue(s, i) = Fixed[m][i]
           /\ Sibling(s, Precision, i) # {} =>
                 EntryValue(s, i) = Fixed[m][i] \div 10^Value(Precision, i)
<1>1. DOMAIN s.from = {1} /\ s.from[1] = m
  <2>1. Len(s.from) = 1 /\ s.from[1] = m /\ DOMAIN s.from = 1..1
    OBVIOUS
  <2> QED
    BY <2>1
<1>2. Answered(s.from) = {1}
  <2>1. Answered(s.from) # {}
    BY DEF SymbolRows, RowsOf
  <2> QED
    BY <1>1, <2>1 DEF Answered
<1>3. Available(s.from) = m
  <2> DEFINE k == CHOOSE k \in Answered(s.from) : \A j \in Answered(s.from) : k <= j
  <2>1. k \in {1}
    BY <1>2
  <2> QED
    BY <1>1, <2>1 DEF Available
<1>4. Value(m, i) = Fixed[m][i]
  BY FixedValue
<1> QED
  BY <1>3, <1>4 DEF EntryValue

(* The points of a sensor, and of a state set.                             *)
LEMMA SensorOffer ==
    ASSUME NEW s, NEW r, NEW j, NEW i, NEW o \in Offers(s, r, j, i), r.entry.states = {}
    PROVE  o.value = EntryValue(s, i)
<1>1. o = [name |-> r.names[j], instrument |-> InstrumentOf(s, r), priority |-> r.entry.priority,
           key |-> <<r.names[j], Attributes(s, r, r.names[j], i), "">>, value |-> EntryValue(s, i)]
  BY DEF Offers
<1> QED
  BY <1>1

LEMMA StateOffer ==
    ASSUME NEW s, NEW r, NEW j, NEW i, NEW o \in Offers(s, r, j, i), r.entry.states # {}
    PROVE  o.value = StateValue(s, r, i, o.key[3])
<1>1. PICK state \in r.entry.states :
         o = [name |-> r.names[j], instrument |-> InstrumentOf(s, r), priority |-> r.entry.priority,
              key |-> <<r.names[j], Attributes(s, r, r.names[j], i), state>>,
              value |-> StateValue(s, r, i, state)]
  BY DEF Offers
<1> QED
  BY <1>1

(* What the row of a contribution tells of a sensor's metric.              *)
LEMMA SensorIsTrue ==
    ASSUME SensorsAlone, Types, AskedInv, pc = "built",
           NEW q \in DOMAIN profile, NEW i \in SymbolRows(profile[q]),
           NEW o \in Counting(profile[q], i),
           NEW m \in DOMAIN Metrics, o.key[1] \in SensorNames(Metrics[m])
    PROVE  LET e == Metrics[m]
           IN  /\ o.key[1] \in {CaseName(e, k) : k \in {Fixed[e.kind][i]} \cap DOMAIN e.cases}
               /\ \/ o.value = Fixed[m][i] \div 10^Fixed[Precision][i]
                  \/ o.value = Fixed[m][i] /\ i \notin store.rows[Precision]
<1> DEFINE e == Metrics[m]
           s == profile[q]
<1>1. PICK r \in Resolved(s, i) : \E j \in DOMAIN r.names : o \in Offers(s, r, j, i)
  BY CountingIs
<1>2. PICK j \in DOMAIN r.names : o \in Offers(s, r, j, i)
  BY <1>1
<1>3. o.key[1] = r.names[j]
  BY <1>2, OfferIs
<1>4. r.names[j][1] = "curated"
  BY <1>3 DEF SensorNames, CaseName, CuratedName
<1>5. PICK f \in Lookup(s.name) :
         \/ /\ f.cases = NoMap
            /\ r.entry = f /\ r.names[j] = CuratedName(f)
         \/ \E k \in KindOfRow(s, f.kind, i) \cap DOMAIN f.cases :
               /\ f.cases # NoMap /\ f.cases[k] \in DOMAIN Metrics
               /\ r.entry = Metrics[f.cases[k]] /\ r.names[j] = CaseName(f, k)
  BY <1>4, CuratedNameIs
<1>6. r.names[j] \in CuratedNames(s.name)
  BY <1>5 DEF CuratedNames, SensorNames
<1>7. IsSource(profile, s, m)
  <2>1. device \in Devices /\ profile \in device.profiles /\ s \in Range(profile)
    BY DEF Types, DeviceTypes, Range
  <2> QED
    BY <1>3, <1>6, <2>1 DEF SensorsAlone, ReadingNames
<1>8. f = e
  BY <1>5, <1>7, LookupFinds DEF IsSource
<1>9. e.cases # NoMap
  BY DEF SensorNames, NoMap, EmptyMap
<1>10. PICK k \in KindOfRow(s, e.kind, i) \cap DOMAIN e.cases :
          /\ e.cases[k] \in DOMAIN Metrics
          /\ r.entry = Metrics[e.cases[k]] /\ r.names[j] = CaseName(e, k)
  BY <1>5, <1>8, <1>9
<1>11. /\ s.from = <<m>> /\ m \in DOMAIN Fixed /\ ~s.constant
       /\ e.kind \in DOMAIN Fixed /\ Precision \in DOMAIN Fixed
       /\ \A t \in Range(profile) : Precision \in ColumnsOf(t) => Precision \in s.siblings
  BY <1>7, <1>9 DEF IsSource
<1>12. k = Fixed[e.kind][i]
  BY <1>10, <1>11, FixedValue DEF KindOfRow, Sibling
<1>13. o.value = EntryValue(s, i)
  <2>1. r.entry.states = {}
    BY <1>10, NamingAssumptions
  <2> QED
    BY <1>2, <2>1, SensorOffer
<1>14. CASE i \in store.rows[Precision]
  <2>1. Precision \in Asked
    <3>1. Precision \in Columns
      BY <1>11 DEF Columns
    <3> QED
      BY <1>14, <3>1 DEF AskedInv
  <2>2. Precision \in s.siblings
    BY <1>11, <2>1 DEF Asked
  <2>3. Sibling(s, Precision, i) # {} /\ Value(Precision, i) = Fixed[Precision][i]
    BY <1>11, <1>14, <2>2, FixedValue DEF Sibling
  <2>4. EntryValue(s, i) = Fixed[m][i] \div 10^Value(Precision, i)
    BY <1>11, <2>3, SourceReads
  <2> QED
    BY <1>3, <1>10, <1>12, <1>13, <2>3, <2>4
<1>15. CASE i \notin store.rows[Precision]
  <2>1. Sibling(s, Precision, i) = {}
    BY <1>15 DEF Sibling
  <2>2. EntryValue(s, i) = Fixed[m][i]
    BY <1>11, <2>1, SourceReads
  <2> QED
    BY <1>3, <1>10, <1>12, <1>13, <1>15, <2>2
<1> QED
  BY <1>14, <1>15

(* ... and of a state set's.                                               *)
LEMMA StateIsTrue ==
    ASSUME SensorsAlone, Types,
           NEW q \in DOMAIN profile, NEW i \in SymbolRows(profile[q]),
           NEW o \in Counting(profile[q], i),
           NEW m \in DOMAIN Metrics, Metrics[m].states # {}, o.key[1] = CuratedName(Metrics[m])
    PROVE  LET e == Metrics[m]
           IN  o.value = 1 <=> o.key[3] \in {e.active[v] : v \in {Fixed[m][i]} \cap DOMAIN e.active}
<1> DEFINE e == Metrics[m]
           s == profile[q]
<1>1. PICK r \in Resolved(s, i) : \E j \in DOMAIN r.names : o \in Offers(s, r, j, i)
  BY CountingIs
<1>2. PICK j \in DOMAIN r.names : o \in Offers(s, r, j, i)
  BY <1>1
<1>3. o.key[1] = r.names[j]
  BY <1>2, OfferIs
<1>4. r.names[j][1] = "curated"
  BY <1>3 DEF CuratedName
<1>5. PICK f \in Lookup(s.name) :
         \/ /\ f.cases = NoMap
            /\ r.entry = f /\ r.names[j] = CuratedName(f)
         \/ \E k \in KindOfRow(s, f.kind, i) \cap DOMAIN f.cases :
               /\ f.cases # NoMap /\ f.cases[k] \in DOMAIN Metrics
               /\ r.entry = Metrics[f.cases[k]] /\ r.names[j] = CaseName(f, k)
  BY <1>4, CuratedNameIs
<1>6. r.names[j] \in CuratedNames(s.name)
  BY <1>5 DEF CuratedNames, SensorNames
<1>7. IsSource(profile, s, m)
  <2>1. device \in Devices /\ profile \in device.profiles /\ s \in Range(profile)
    BY DEF Types, DeviceTypes, Range
  <2>2. r.names[j] \in ReadingNames(e)
    BY <1>3 DEF ReadingNames
  <2> QED
    BY <1>6, <2>1, <2>2 DEF SensorsAlone
<1>8. f = e
  BY <1>5, <1>7, LookupFinds DEF IsSource
<1>9. e.cases = NoMap
  BY NamingAssumptions
<1>10. r.entry = e
  BY <1>5, <1>8, <1>9
<1>11. s.from = <<m>> /\ m \in DOMAIN Fixed /\ ~s.constant
  BY <1>7 DEF IsSource
<1>12. Value(Available(s.from), i) = Fixed[m][i]
  BY <1>11, SourceReads
<1>13. o.value = StateValue(s, r, i, o.key[3])
  BY <1>2, <1>10, StateOffer
<1>14. o.value = IF Fixed[m][i] \in DOMAIN e.active /\ e.active[Fixed[m][i]] = o.key[3]
                 THEN 1 ELSE 0
  BY <1>10, <1>12, <1>13 DEF StateValue
<1> HIDE DEF e, s
<1>15. o.value = 1 <=> Fixed[m][i] \in DOMAIN e.active /\ e.active[Fixed[m][i]] = o.key[3]
  BY <1>14
<1>16. o.value = 1 <=> o.key[3] \in {e.active[v] : v \in {Fixed[m][i]} \cap DOMAIN e.active}
  BY <1>15
<1> QED
  BY <1>16 DEF e

LEMMA BuiltIsTrue ==
    ASSUME SensorsAlone, Types, StreamsInv, AskedInv
    PROVE  ReadingsAreTrue
<1> SUFFICES ASSUME pc = "built", NEW key \in DOMAIN streams, NEW id \in key[2].id,
                    NEW m \in DOMAIN Metrics
             PROVE  LET e == Metrics[m]
                        i == id[2]
                        value == streams[key].value
                    IN  /\ key[1] \in SensorNames(e) =>
                              /\ key[1] \in {CaseName(e, k) : k \in {Fixed[e.kind][i]} \cap DOMAIN e.cases}
                              /\ value = Fixed[m][i] \div 10^Fixed[Precision][i]
                                 \/ (value = Fixed[m][i] /\ i \notin store.rows[Precision])
                        /\ e.states # {} /\ key[1] = CuratedName(e) =>
                              (value = 1 <=> key[3] \in {e.active[v] : v \in {Fixed[m][i]} \cap DOMAIN e.active})
  BY DEF ReadingsAreTrue
<1> DEFINE i == id[2]
<1>1. PICK q, j, o : BestBy(key, q, j, o)
  BY BestInvIs DEF StreamsInv
<1>2. Given(q, j, o) /\ o.key = key /\ streams[key].value = o.value
  BY <1>1 DEF BestBy
<1>3. q \in DOMAIN profile /\ j \in SymbolRows(profile[q]) /\ o \in Counting(profile[q], j)
  BY <1>2 DEF Given, Done
<1>4. j = i
  <2>1. o.key[2].id \in {{<<Component(profile[q].table), j>>}, {}}
    BY <1>3, KeyNamesRow
  <2> QED
    BY <1>2, <2>1
<1>5. i \in SymbolRows(profile[q]) /\ o \in Counting(profile[q], i)
  BY <1>3, <1>4
<1>6. ASSUME key[1] \in SensorNames(Metrics[m])
      PROVE  LET e == Metrics[m]
             IN  /\ key[1] \in {CaseName(e, k) : k \in {Fixed[e.kind][i]} \cap DOMAIN e.cases}
                 /\ \/ streams[key].value = Fixed[m][i] \div 10^Fixed[Precision][i]
                    \/ streams[key].value = Fixed[m][i] /\ i \notin store.rows[Precision]
  BY <1>2, <1>3, <1>5, <1>6, SensorIsTrue
<1>7. ASSUME Metrics[m].states # {}, key[1] = CuratedName(Metrics[m])
      PROVE  LET e == Metrics[m]
             IN  streams[key].value = 1 <=>
                    key[3] \in {e.active[v] : v \in {Fixed[m][i]} \cap DOMAIN e.active}
  BY <1>2, <1>3, <1>5, <1>7, StateIsTrue
<1> QED
  BY <1>6, <1>7

(* A sensor's reading is the one of its row and kind, and a state set says *)
(* what the device reports (dispatchSensor, emitStateSet), where these     *)
(* metrics have one source, as in every embedded profile.                  *)
THEOREM TrueReadings ==
    ASSUME SensorsAlone
    PROVE  Spec => []ReadingsAreTrue
<1>1. Init => AskedInv
  BY DEF Init, AskedInv
<1>2. Types /\ StreamsInv /\ AskedInv => ReadingsAreTrue
  BY BuiltIsTrue
<1> QED
  BY <1>1, <1>2, StreamsHold, AskedStep, PTL DEF Spec
=============================================================================
