# Formal models of the network device receiver

TLA+ models of the SNMP receiver in this repository, TLC configurations that check them on
small instances, and TLAPS proofs for every instance. `PROJECT.json` lists runs, theorems,
the mutants that each property must detect, and, for every definition, the source lines it
models.

    tlc -config PollScheduler.cfg MCPollScheduler     # any run: see "Runs"
    tlapm PollSchedulerProofs.tla                     # the proofs: every ...Proofs.tla,
    tlapm OrderLemmas.tla                             # and the lemmas they share

## The system

The receiver is an OpenTelemetry collector component. `Start` loads profiles and naming
tables, restores the device set from the storage extension, registers the configured
devices and starts two goroutines; `Shutdown` cancels their context, waits, and saves.

    discoveryLoop --Scan--> SubnetScan (feeder, workers, closer, collector)
         | Upsert, SetProfile, Save                        \
         v                                                  \ ProbeSysObjectID
    DeviceRegistry  <--Load/Save-->  storage                 \
         ^ | Devices()                                        v
         | v                                                 Fetch  <--SNMP-->  agent
    pollLoop --jobs--> pollers --pollDevice--> ensureProfile -^  \--> Build --> pipeline
         (inFlight, nextDue)      MarkSuccess / MarkFailure

| Component | State | Operations | What makes it correct | Module |
|---|---|---|---|---|
| poll scheduler, `receiver.go` `pollLoop` | `nextDue`, `inFlight`, the unbuffered channel `jobs`, ticker | tick, first sight, claim, hand-off, skip, prune, close; pollers receive, poll, release | at most one poll per device, exact claims, phase kept, no catch-up bursts, no device forgotten, ends on cancellation | PollScheduler, PollExclusion |
| receiver lifecycle, `receiver.go` | run context, `staticHosts`, wait group | Start, Shutdown | what is saved is the final set; what was saved survives crashes; shutdown returns | Receiver |
| device poll, `receiver.go` `pollDevice` | `state` (builder, compiled profile per device) | credentials, profile selection, fetch, verdict, drop | late polls neither drop nor revive a device; dead devices age out; replaced hardware is re-detected | Receiver |
| discovery loop, `receiver.go` | the round's results | scan, register, match, save | one identity per host | Receiver |
| device registry, `internal/discovery/registry.go` | the device map (one mutex), its stored copy | Upsert, SetProfile, MarkSuccess, MarkFailure, Devices, Save, Load | the failure budget; static devices never persisted, never aged out | DeviceRegistry |
| subnet scanner, `internal/discovery/scan.go` | channels `jobs`, `results`, the wait group | feed, probe, send, drop, close, collect; ExpandCIDR | complete, sound, no send on a closed channel, ends; exactly the hosts of a subnet | SubnetScan, AddressRange |
| SNMP fetch, `internal/snmp/fetch.go` | walk positions, batch size, rows, report | batched GET, GETBULK/GETNEXT walk, consume | complete unless it reports an error or truncation; the row cap is final; ends, of finitely many OIDs, whatever is answered | SnmpFetch |
| SNMP session, `internal/snmp/session.go` | socket, security | Get, GetNext, GetBulk | timeouts bound every request | (the agent in SnmpFetch) |
| profile store, `internal/profile/store.go` | documents, resolved cache | Resolve: expand, merge, copy; user files hide embedded ones | each ancestor merged once; the child wins; failures are not cached | ProfileStore |
| profile matching, `internal/profile/match.go` | index of claims | Match | the most specific pattern of all, and a profile only if one has it | ProfileMatch |
| profile compilation, `internal/profile/compile.go` | OIDs, `missing` | Compile, MarkMissing, FetchOIDs | only absent OIDs are given up | (what is asked for in MetricStreams, what is missing in SnmpFetch) |
| metric builder, `internal/report` | stream pool, start times, previous counters | Build | one datapoint per stream, the best one; rows stay apart; readings are true; stable starts, no false rate | MetricStreams |
| naming registry, `internal/naming` | read-only table | Resolve, ResolveDispatched | every symbol gets the names its scheme asks for | MetricNaming |
| profile documents, configuration, tools | read-only tables | pure | | not modelled |

What is hard here: the scheduler, pollers and scanner work on copies of registry entries that
others change or drop; the context can be cancelled in any select; saves copy first and
write later; agents answer late, partially or wrongly. `PROJECT.json` lists each of these
hazards at its line, with the properties that cover it or the reason why none does.

## Modules

**PollScheduler** models `pollLoop`. `pc` is the scheduler goroutine (`select`, the `for`
over the snapshot as `loop`, the inner `select` as `send`, then `close`, `join`, `done`);
`at[w]` is a poller (`loop`, `recv`, `got`, `poll`, `release`, `gone`). A hand-off is a
rendezvous with a poller at its receive, and the `default` case is taken only when no other
case is ready, as Go specifies. A ticker channel of capacity one drops ticks. Devices are
numbers because the snapshot is sorted by ID. `sentAt` is a history variable. A poll is one
step that may drop its device. A device's phase (`Offset`) is its hash, a word of any width,
modulo the interval; nothing is assumed of the hash.

**PollExclusion** is the abstract specification: pollers begin and end polls, never two of
one device, none after the cancellation, and the loop finishes. PollScheduler implements it
with a poller's device as the poll (property `ImplementsPollExclusion`, theorem
`RefinesPollExclusion`).

**DeviceRegistry** holds the registry and the stored copy, with one operator per method.
Methods are atomic because each takes the mutex for its whole body; `Save` is two steps
(`Persistable`, `Write`). Ports, subnets and `LastSeen` decide nothing and are left out;
the failure count of a static device decides nothing either.

**Receiver** extends DeviceRegistry with `Start`, `Shutdown`, crashes, the discovery loop
(one step per registry access: `ScanProbe`, then `ScanUpsert` and `ScanMatch` or
`ScanSkipStatic` per result, `ScanCopy`, `ScanWrite`) and polls (`PollBegin`, the profile,
the fetch, `PollSuccess` or `PollFailure`, `PollForget`). A poll holds the copy of its
device that the scheduler's snapshot had. The scheduler is reduced to what PollScheduler
shows: some devices of a snapshot are dispatched, in ID order, to idle pollers, never one
that is still held. A host answers to one secret (`Secret`); the subnet has a list of
credentials, another one in every run if the operator edits it, of which the registry keeps
the index (`AuthIndex`) across restarts as the code does. The scan is reduced to what SubnetScan shows: everything that answers
is found, unless datagrams are lost or the scan is cancelled. `ProfileOf` is `Store.Match`.
Each start may have another configuration. Every error return of a poll is in it: credentials
that are gone, a session that cannot be opened (`NoSession`: a socket, or credentials no
session takes), no sysObjectID, no matching profile, a profile that does not resolve or
compile (`Broken`; the store indexes profiles without resolving them), no answer, and a device
that has none of the profile's OIDs (not in `Serves`), of which MarkMissing may leave nothing
to ask for (`bare`). A host has one ID in every subnet it is in; the subnets share one list of
credentials.

**SubnetScan** models `Scanner.Scan` and `probe`: unbuffered sends are joint steps of both
sides; a probe is one step per credential set.

**SnmpFetch** models `Fetch`. A request and its response are one step, a walk response is
consumed one varbind per step. OIDs are numbers ordered as `CompareOIDs` orders them, and
the subtree of a column is an interval. The walk positions (`next`) are a map from column to
cursor, as in the code, and the response being consumed (`packet`) one from slot to varbind:
column p of n in repetition r is slot (r - 1) n + p, and the lowest slot left is consumed next. The agent answers as the double of
`internal/snmptest` does, and may also lose requests, cut GETBULK responses, or (`rogue`)
answer a walk or a GET with any varbinds of `RogueOIDs`, asked for or not, and any request
with any error. What a GET is answered is taken by name (`Claimed`), as in `fetchScalars`.

**AddressRange** models `ExpandCIDR`, the loop as a recursive function. In TLC's instance
addresses and counts are numbers of a few bits, fewer for IPv4 than a count has and more for
IPv6, as 32 and 128 are to 64; the proofs are for any widths. `MCSubnetScan` scans the addresses it makes of a subnet.

**ProfileStore** models `Store.Resolve`: the recursion of `expand` is a stack (`refs`) of the
references still to follow at each depth, `seen` is the map of that name, and one step
follows one reference. A document's lists are its name; its device metadata is the set of
fields it defines, of which the model keeps where each came from. A library is the embedded
documents, the user's, which replace those of the same name (`Overlay`), the profiles that
devices are configured with, and the sysObjectIDs that devices have. `Detect` is
`Store.Match` for one device, and what was configured or detected is resolved.
`IsLibrary` says what may be installed: finitely many documents, each with any list of parents
and of patterns, none of them empty. Documents are
never modified in the model because `copyDefinition` copies what `merge` appends to;
`Normalize` is left out.

**ProfileMatch** has the pure part of `match.go`: which patterns match (`filepath.Match` is
external), which of two is more specific, who is preferred among the claimants of one, and
when they conflict. Patterns and identifiers are sequences of arcs. The claimants of a pattern
are a set: the sort of the code puts users first and the others in an order that shows only in
the text of the error.

**MetricStreams** models a device's `Builder` over its polls. `Tick` and `Boot` are the
device: `carried` counts its octets, and the counters show them since the last start,
wrapped for `ifInOctets`. `Fetch` stores the rows that came (any of those asked for),
`StartBuild` takes the time, `EmitRow` is one row of one symbol, with the entry chosen for
it, its attributes and values, and `metricPool.add` for each name; `NextSymbol` goes on when
there are no more. A symbol without a column of its own borrows its rows from the first of
`from` that was answered (`Answered`, `Available`). Attributes are the identity (the
component of the symbol's table with the row's index: `ifTable` and `ifXTable` are one
component), the entry's constant attributes, and the tags; names read off the tags (`hw.name`)
add nothing to them. `Derive` is `emitBandwidthUtilization` for one direction, `Report` ends
the pool. A symbol of a profile is its columns, tags and metric type, the rest comes from the
registry. The values that matter are octets and speeds, the kind, figure and precision of a
sensor, and the number of a state; those that do not change are the constant `Fixed`. The
utilisation is kept as the figures it is computed from, with what really happened beside it.

**MetricNaming** models `internal/naming`: the entries of the registry, the lookup with its
system namespace, and which names a scheme makes of an entry. Its assumptions are what
registry.yaml keeps to: an entry that dispatches to others has no metric, identity or states
of its own, and those it dispatches to have no states either.

**...Proofs** has the theorems of the module it is named after; **OrderLemmas** is about finite
sets of naturals and what the models count and choose from them (least and greatest elements,
ranks, rows and columns). **GoMap** has Go maps as functions. **MC...** modules give TLC its constants. Operators
marked as mutants are wrong variants of the next definition; no specification uses them.

## Runs

| Run | Bounds | Shows |
|---|---|---|
| scheduler | 2 devices with different phases (hashes of 4 bits, one with its top bit set), 2 pollers, interval 3, tick 1, clock to 5 | OnePollerPerDevice, InFlightExact, PhaseKept, OnePollPerSlot, Terminates, ImplementsPollExclusion |
| scheduler_forever | 2 devices, 1 poller, clock rebased without end | OfferedForEver |
| receiver | static and scanned identity of one host, one more host, hardware with a good, a broken and no profile (2 networks), 1 poller, failure budget 1, 2 starts, 1 crash, losses, sockets that do not open, rejected metrics | OneIdentityPerHost, StaticsAreConfigured, ScanSurvivesCrash, ShutdownSavesFinalSet, StalePollDoesNotDrop, PollNeverRegisters |
| receiver_live | 1 scanned device, 2 hardware models, one with a broken profile, 3 credential lists (with its secret first or second, or no subnets), 2 starts, 1 change of the network | ShutdownReturns, DeadDevicesAgeOut, LiveDevicesMonitored |
| receiver_shutdown | violation | ShutdownKeepsDevices fails: a poll in flight when Shutdown cancels counts as a failed one |
| receiver_redetect | violation | ReplacedHardwareRedetected fails for static devices |
| scan | a subnet of 4 addresses, 1 ignored, 2 credential sets, 2 workers, any network; every prefix of 3-bit and 5-bit addresses, 4-bit counts, limits 1, 2, 5, 8 | ScanIsComplete, ScanIsSound, NoSendOnClosed, ScanReturns, RangeIsExact |
| fetch | 3 scalars, 3 columns of up to 4, 2 and 1 rows and an instance after them, row cap 2, batches to 3, 2 repetitions, 1 lost request; rogues that send 2 varbinds of 5 OIDs | WalkComplete, ScalarsAccounted, TruncationIsFinal, RecoversFromRejection, FetchReturns |
| fetch_nested | violation | SubtreeAndBeneath fails: the outer column of two nested ones can be ended early |
| fetch_cut | violation | UnmentionedHaveEnded fails: a cut GETBULK response ends the columns it does not mention |
| profiles | every graph over 3 documents and an unknown one, up to 2 parents (one list twice the same), 1 field; 2 and 3 patterns of up to 3 arcs; claims of 2 embedded and 2 user profiles, one abstract, one overriding | EachMergedOnce, ChildWins, MostSpecificWins, OneClaimantWins, ResolveReturns |
| streams | 1 interface, 3 profiles, a counter that wraps at 8, 0 or 2 octets per tick, clock to 4, builds up to 1 tick late, 1 restart; 2 rows of colliding symbols, state sets, identities and constant attributes, 3 sensors, each with any rows lost, under 3 naming schemes | BestSymbolWins, RowsKeptApart, ReadingsAreTrue, StartsAreStable, SpikeIsBounded, UtilisationIsExact |

*scheduler*, *scan* and *fetch* also check a type invariant, because ranges matter there (a
slot is never negative, a batch is never larger than its maximum, an AuthIndex exists).

Why the bounds are enough to be interesting. *scheduler*: an interval of three ticks, which
does not divide the hash's range, and a clock of nearly two intervals let a poll outlast its interval, a tick be lost, a device be dropped during its poll and
rediscovered, and the pool saturate; two devices and two pollers are what a double dispatch
takes. *scheduler_forever* has one poller, so that every poll saturates the pool; `Rebase`
moves all times back by one interval when the scheduler waits at the bound, which no
comparison in the loop can tell. *receiver*: two starts with a crash or a shutdown between
them let each configuration meet what the other stored; a budget of 1 makes both the
counted and the dropping failure happen. *scan*: three probed addresses for two workers make
workers reuse their state, and two credential sets make the order matter. *fetch*: three
columns against limits 0 to 3 pass through every batch size; a column of 3 or 4 rows is
truncated at the cap of 2, the longer one in the middle of a response whose later repetitions
still name it; an instance of another column has a value that does not decode. The rogues send
two varbinds at a time, so that the second meets what the first has done, a truncation
included. `GrowAfter` is 2
instead of 10 so that batches grow again. In *scan*, /0, /31, /32 and
blocks at both ends of the address space occur in both families, and for IPv6 counts beyond
the word. *receiver_live*: the three lists are those that leave, move, and take away the index under
which the device was found, or take away its subnet. *receiver* begins with one of two networks, so that
a good profile meets either a broken one or none: hardware changes in *receiver_live*, where
either model may come first. *profiles*: three documents are what a diamond
with a cycle through its child takes; the calls of Resolve come in any order, so that each
result meets every cache. Patterns of three arcs over two numbers and a star differ in
length, in where the star is and in number; three of them, and an identifier longer than
each, make the maximum matter; one detection per library is enough, since Match keeps
nothing. *streams*: symbols collide on priorities, on equal priorities and on instruments,
with and without the tag that tells their streams apart, and a device changes between two
profiles. The families with two or three rows are built at one moment, since nothing in them
depends on time; the three sensors are of two kinds that have a case and one that has none. Two octets per tick and a wrap at 8 make a wrapped and a restarted counter
look alike, and four ticks allow polls between which the counter was lost.

Where deadlock is not checked the system may stop (cancelled, bounds used up, fetch done,
every profile resolved); that it does not stop too early is what the liveness properties
say. MetricStreams has no liveness: a poll is a call that returns.

### Fairness

Goroutines are weakly fair: Go runs every runnable goroutine. A poll ends and a probe ends
because `internal/snmp` gives every request a timeout and a retry limit. A call of Resolve
that has begun runs on; nobody has to call it. Nothing is assumed
of the scanner, the operator, the network or crashes, and no run claims liveness of a
system that crashes for ever. In Receiver `Dispatching` is strongly fair: a device that is
offered again and again is eventually handed to a poller. The code does not guarantee this
for a pool that stays saturated; it is the assumption that the operator gave the receiver
enough pollers, and OfferedForEver is the part of it that the code does provide.
`Lossy = FALSE` in receiver_live says that a device that answers does so within its
retries; with endless loss no device could be told from a dead one.

## Proofs

`PollSchedulerProofs` proves, for any finite set of devices, any set of pollers, any
interval and tick, any hashes, and any bound of the clock (assumptions
`DevicesAssumption` to `MaxTimeAssumption`). That every offset lies within the interval is a
lemma (`OffsetBounds`):

- `TypeCorrect`, `MutualExclusion`, `ClaimsExact`: TypeOK, OnePollerPerDevice,
  InFlightExact. OnePollerPerDevice is not inductive: that a claimed device is in nobody's
  hands follows from the claims being exact, and these stay exact only because the device
  being offered is held by nobody. `IInv` adds `OfferedIsFree` and, for the return inside
  the select that leaves a claim behind, `EndIsCancelled` (the loop is past its select only
  when it was cancelled).
- `PhaseIsKept`: PhaseKept, from two lemmas on `NextSlot` (it lies after the tick and at
  most one interval after it; it differs from the slot by whole intervals).
- `NoCatchingUp`: OnePollPerSlot, from `SlotInv`: a device's last hand-off lies before its
  next slot, in an interval already closed.
- `RefinesPollExclusion`: the safety part of the refinement, step by step.

`SubnetScanProofs` proves, for any network, any finite set of addresses, any number of
credential sets and any workers (`ScanAssumptions`; there is at least one worker, since
Scan turns a count of 0 into 10):

- `TypeCorrect` and `Soundness`: TypeOK and ScanIsSound, from `SoundInv`. What a worker
  knows must be true before it is sent: the sets it has passed over did not answer
  (`OutcomesAreTrue`), and only addresses that are not ignored reach it.
- `NoSendAfterClose`: NoSendOnClosed, because "gone" is final.
- `Completeness`: ScanIsComplete, from `CompleteInv`, which accounts for every address: as
  long as nobody has cancelled, it is still to be fed, offered, in a worker's hands, or all
  its answers are found, and no worker is gone before jobs is closed. When Scan returns all
  workers are gone, and only the last case is left; that there is a worker at all is needed
  here.

`AddressRangeProofs` proves for any widths of addresses and counts, and any limits the
configuration allows, what `ExpandCIDR` returns (`RangesAreExact`); the run's RangeIsExact is
the same of its widths. The loop is a recursive function, of which only
its equation is known. `Run` is a function that satisfies the equation; that no other does is
shown by a least counterexample, from the end of the address space down. Powers of two are
counted as subsets.

`ReceiverProofs` proves, for any devices, hosts and lists of credentials, any pollers, and any
number of starts, crashes and changes of the network (`ReceiverAssumptions`, of which the one
that matters is that two IDs in `devices:` are of different hosts, as `DeviceID` makes them;
in the subnets a host may have any number of IDs):

- `OneIdentity`, `StaticsOfThisRun`: OneIdentityPerHost and StaticsAreConfigured, from
  `IdentityInv`: static entries are exactly the configured ones, and the others are of the
  subnets and of hosts that are not configured. A host that is not configured has one entry
  in every subnet it was found in, in the code as well, and nothing is claimed of it. It has to hold in every copy of the set, in
  the storage and in a round being saved as well (`SetInv`), because a restart reads them back
  under another configuration.
- `ScansSurvive`: ScanSurvivesCrash, from `PromiseInv`. Between copying and writing, the copy
  must still cover the registry: only polls run then, and they only remove.
- `FinalSetSaved`: ShutdownSavesFinalSet. It is inductive with `Quiet`: no loop outlives the
  receiver.
- `PollsRegisterNothing`: PollNeverRegisters, step by step.
- `StalePollsDropNothing`: StalePollDoesNotDrop, from `PollInv`: no device is in two polls, and
  one that a scan has refreshed during its poll has no failures on record. It supposes that at
  least one failure is forgiven (`AllowedFailures # 0`): with a budget of 0 any failed poll
  drops its device, which is what that setting means. The run `receiver` has a budget of 1.

`SnmpFetchProofs` proves, for any scalars and columns, any devices, any sizes of batches,
repetitions and caps, and any number of lost requests:

- `RowsStayInColumn`, `CapIsFinal`: TypeOK and TruncationIsFinal, against agents that send
  anything, to any length (`Types`, `WalkTypes`, `CapInv`).
- `RejectionIsNoFailure`: RecoversFromRejection, from `RecoveryInv`.
- `EveryScalarAccounted`: ScalarsAccounted, from `ScalarsInv`: a scalar is still to be asked
  for, or what became of it is on record.
- `DisjointWalkIsComplete`: WalkComplete, the hardest. A column being walked has exactly the
  rows up to its position (`RowsInv`), and what is left of a response skips none of its
  instances, tells the truth, and is ahead of the walk as long as there is more (`PacketInv`).
  It supposes `DisjointColumns`, that no column is beneath another. That is not a convenience:
  without it the code does lose rows, which is the finding of the run `fetch_nested`.

`MetricStreamsProofs` proves, for any devices, profiles, registry and schemes, any number of
rows, any traffic, wrap and capacity, and any number of restarts:

- `StartTimesKept`: StartsAreStable, from `StartsInv`.
- `NoSpike`, `ExactUtilisation`: SpikeIsBounded and UtilisationIsExact, from `CountInv`. What is
  remembered and what was fetched are tied to the octets really carried, to the start of the
  agent they belong to, and to the time since: of this start, the counter shows the octets
  since then; of an earlier one, they were carried before it.
- `BestWins`: BestSymbolWins, from `StreamsInv`: each stream has the best point of the rows
  emitted so far. That needs `SettledInv`: the instrument of a name that an emitted row has
  reached is fixed, so which rows count cannot change any more.
- `RowsApart`: RowsKeptApart, from the names and attributes alone.
- `TrueReadings`: ReadingsAreTrue, from `BestInv` and `AskedInv` (nothing is stored that was
  not asked for). It supposes `SensorsAlone`: in a profile only the symbol of a sensor's or
  state set's entry reports under its metrics. So do all embedded profiles: `hw.temperature` and
  `hw.voltage` are shared with ups* symbols, but no profile has those and entPhySensorValue.
  Where another symbol shares the metric, the values are its own and the property says
  nothing true of them. `MCMetricStreams` has TLC check that its profiles satisfy it.

`ProfileStoreProofs` proves, for any libraries:

- `MostSpecificPatternWins`, `OnlyClaimantWins`: MostSpecificWins and OneClaimantWins. The
  order of patterns is a strict total order (`FirstDifferenceDecides`, `MoreSpecificTotal`,
  `MoreSpecificTransitive`), so one of those that match is before all others. The property
  says "more specific" in its own terms, as one pattern matching the other, and
  `PrecedingDoesNotMatch` shows that the order agrees with that.
- `DiamondsMergeOnce`, `ChildKeepsItsFields`: EachMergedOnce and ChildWins, from `ResolveInv`.
  While expand runs, what it has seen is within reach, and the parents of what it has merged
  are seen or still on the stack (`SeenInv`); when the stack is empty the seen are closed, and
  the least closed set is what is within reach. `ContentInv`, `MetadataInv` and `CacheInv`
  say the same of the documents and fields merged, and of the cache.

Every safety invariant and safety action property of a passing run is a theorem. Left to TLC is
what this prover cannot state: liveness under fairness (Terminates, OfferedForEver,
ShutdownReturns, DeadDevicesAgeOut, LiveDevicesMonitored, ScanReturns, FetchReturns,
ResolveReturns) and the liveness part of ImplementsPollExclusion. What the four violations show
is shown on their instances.

## What the violations say

1. *Shutdown can lose devices* (`receiver.go:175`): the context is cancelled before the
   last polls have ended, a cancelled poll is counted as a failure, and a device at the end
   of its budget is dropped before the set is saved.
2. *Static devices are not re-detected* (`receiver.go:596`): the profile detected first is
   kept until restart; only scans write a new sysObjectID, and they skip static hosts.
3. *Nested columns* (`fetch.go:266`): longest-prefix attribution protects the inner
   column and starves the outer one.
4. *Cut responses* (`fetch.go:260`): a column not mentioned in a response need not
   have ended.

Some properties promise less than a comment or the documentation, because the code does less.

- SpikeIsBounded allows for a late build, since octets are divided by the time between two
  builds and not between two readings (`derived.go:83`, `README.md:259`). UtilisationIsExact
  exempts restarts, since a counter that restarted and has passed its old value is not
  recognised. Both exempt an interface whose 64-bit column was lost for a poll and read as
  the 32-bit one, or the reverse: `prevCounters` does not name the column, and the two are
  compared. (The profiles under `default_profiles` have one of the columns at most.) Only the
  incoming direction is instantiated; the outgoing one is the same code.
- ReadingsAreTrue exempts a sensor whose precision column alone was lost: its figure is then
  reported without its decimal places.
- RowsKeptApart says of metrics that are neither `hw.*` nor opt in to an identity only that
  rows which share a stream have the same tags: when a device leaves out a tag, rows merge.
- MostSpecificWins is for patterns of numbers and stars; `comparePatterns` takes `?` and `[]`
  for literals. `match.go:143` says that two patterns with different numbers in one place
  cannot match one identifier; after a `*`, which spans any number of arcs, they can, and
  the greater one wins. Numbers have one digit, so that their order is that of strings.
  OneClaimantWins counts a pattern that one profile lists twice as two claims, so that the
  profile conflicts with itself, as in the code.
- LiveDevicesMonitored and DeadDevicesAgeOut are for one list of credentials; of two subnets
  with the same network `credentialsFor` only asks the first. A device that answers but whose
  profile does not resolve or compile, or that has none of its OIDs, is dropped after its
  failed polls and found again, for ever (`receiver.go:630`, `store.go:74`): the run has such
  devices, LiveDevicesMonitored is about the others.
- FetchReturns is about agents that name finitely many OIDs, though the comment on
  `MaxRowsPerColumn` (`fetch.go:21`) says that it "bounds a single column walk". It bounds the
  rows stored: an agent that goes on returning greater instances whose values do not decode is
  walked for as long as it does (`fetch.go:288`). TruncationIsFinal is what the code keeps of
  that comment.
- `builder.go:150` iterates over a map: where two fields set one resource attribute and
  differ, either may win. No property covers it, a hazard of `PROJECT.json` names it.

## Not modelled

Values and text: decoding, regular expressions, value maps, the text of fallback names, YAML,
the wording of errors and telemetry. In MetricStreams scalars and resource attributes. The
SNMP session and its security: gosnmp. The cache of missing OIDs: it only grows, by what
Fetch reports, and ScalarsAccounted says of what it reports when that is right. `Validate`
decides before the start and keeps nothing; what it guarantees is in the assumptions on the
constants. Failing starts (unreadable profiles, a bad endpoint, a missing storage extension)
start nothing. Two endpoints of one host in `devices:` share an ID, so that the second takes
the place of the first; a host in the model is configured once. The tools under `cmd/` print one poll, or check a directory of profiles, with
the functions that are modelled; the documentation generator renders the naming registry.
In Receiver hosts are names, not resolved.

## Plan

Modelled: the scheduler and the scanner, the receiver with the registry and its credentials,
the fetch, the address range, the profile store with matching, the metric streams with
naming; the safety of all of them is proved. Next:

1. A liveness argument as far as it is safety: a measure that every step of a Fetch decreases,
   from which FetchReturns follows under fairness, and the same for Scan and Resolve.
2. The scheduler as Receiver uses it: that what Receiver does with devices in `poll` and `todo`
   is a step of PollExclusion.
