---------------------------- MODULE ReceiverProofs ----------------------------
(***************************************************************************)
(* The safety of the receiver's device set for any devices, subnets, lists *)
(* of credentials and pollers, over any number of restarts and crashes.    *)
(***************************************************************************)
EXTENDS Receiver, TLAPS

-----------------------------------------------------------------------------
(* The inductive invariant.                                                *)

(* What every copy of the device set keeps of a device: its identity, and  *)
(* the fields of the record.                                               *)
IsEntry(d, r) ==
    /\ r = [id |-> r.id, addr |-> r.addr, obj |-> r.obj, profile |-> r.profile,
            failures |-> r.failures, auth |-> r.auth, static |-> r.static]
    /\ r.id = d /\ r.addr = AddressOf[d]
    /\ r.failures \in Nat
    /\ r.static \in BOOLEAN

Entries(m) == DOMAIN m \subseteq IDs /\ \A d \in DOMAIN m : IsEntry(d, m[d])

(* Only what scans have found reaches the storage.                         *)
ScannedEntries(m) == Entries(m) /\ DOMAIN m \subseteq ScanIDs /\ \A d \in DOMAIN m : ~m[d].static

(* A receiver that does not run has no loops left.                         *)
Quiet == mode \in {"down", "stopped"} => poll = Idle /\ scan = "off"

SetInv ==
    /\ mode \in {"down", "running", "stopping", "stopped"}
    /\ statics \subseteq StaticIDs
    /\ Entries(registry)
    /\ ScannedEntries(stored)
    /\ ScannedEntries(saving)
    /\ Quiet

(* The static entries are those configured, all others are of the subnet,  *)
(* and of other hosts.  This also holds when nothing runs.                 *)
IdentityInv ==
    /\ \A d \in DOMAIN registry : registry[d].static <=> d \in statics
    /\ statics \subseteq DOMAIN registry
    /\ DOMAIN registry \subseteq statics \cup ScanIDs
    /\ \A d \in DOMAIN registry \ statics : ~StaticHost(d)

(* What a round has copied still covers the registry: nothing but the scan *)
(* itself, which is writing, registers devices.                            *)
PromiseInv ==
    /\ ScanSurvivesCrash
    /\ scan = "write" => DOMAIN Persistable(registry) \subseteq DOMAIN saving

IInv == SetInv /\ IdentityInv /\ PromiseInv /\ ShutdownSavesFinalSet

(* The polls, for StalePollDoesNotDrop: no device is in two of them, and   *)
(* one that a scan has refreshed during its poll has a clean record: its   *)
(* own poller is the only one that could spoil it.                         *)
Polling(w) == poll[w] # NoPoll

PollInv ==
    /\ poll \in [Workers -> {poll[w] : w \in Workers}]
    /\ \A d \in DOMAIN todo : todo[d].id = d
    /\ \A w \in Workers : Polling(w) =>
          poll[w] = [at |-> poll[w].at, dev |-> poll[w].dev]
    /\ \A v, w \in Workers :
          Polling(v) /\ Polling(w) /\ DeviceOf(v).id = DeviceOf(w).id => v = w
    /\ \A w \in refreshed :
          /\ w \in Workers /\ Polling(w)
          /\ DeviceOf(w).id \in DOMAIN registry => registry[DeviceOf(w).id].failures = 0

-----------------------------------------------------------------------------
(* The operations of the registry.                                         *)

LEMMA KeepEntries ==
    ASSUME NEW m, NEW S, Entries(m)
    PROVE  Entries(Keep(m, S))
BY DEF Entries, Keep

LEMMA PersistableEntries ==
    ASSUME NEW m, Entries(m), \A d \in DOMAIN m : m[d].static \/ d \in ScanIDs
    PROVE  ScannedEntries(Persistable(m))
<1>1. Entries(Persistable(m))
  BY KeepEntries DEF Persistable
<1>2. QED
  BY <1>1 DEF ScannedEntries, Persistable, Keep, Entries, IsEntry

(* An update of one entry that keeps its identity.                         *)
LEMMA UpsertedEntry ==
    ASSUME NEW m, Entries(m), NEW d \in IDs, NEW dev, IsEntry(d, dev)
    PROVE  /\ IsEntry(d, Upserted(m, dev))
           /\ Upserted(m, dev).failures = 0
           /\ Upserted(m, dev).static <=> dev.static \/ (d \in DOMAIN m /\ m[d].static)
<1>1. CASE d \in DOMAIN m
  <2>1. IsEntry(d, m[d])
    BY <1>1 DEF Entries
  <2>2. QED
    BY <1>1, <2>1 DEF Upserted, IsEntry, LatestAuth, FailuresCleared
<1>2. CASE d \notin DOMAIN m
  BY <1>2 DEF Upserted, IsEntry
<1>3. QED
  BY <1>1, <1>2

(* SetProfile and MarkSuccess touch neither the keys, nor the identities,  *)
(* nor the static marks.                                                   *)
SameDevices(m, n) ==
    /\ DOMAIN n = DOMAIN m
    /\ \A d \in DOMAIN m : n[d].static = m[d].static

LEMMA SetProfileKeeps ==
    ASSUME Entries(registry), NEW d, NEW obj, NEW profile, SetProfile(d, obj, profile)
    PROVE  /\ Entries(registry') /\ SameDevices(registry, registry')
           /\ \A e \in DOMAIN registry : registry'[e].failures = registry[e].failures
<1>1. CASE d \in DOMAIN registry
  <2>1. registry' = [registry EXCEPT ![d] = [registry[d] EXCEPT !.obj = obj, !.profile = profile]]
    BY <1>1 DEF SetProfile
  <2>2. IsEntry(d, registry[d])
    BY <1>1 DEF Entries
  <2>3. /\ IsEntry(d, registry'[d])
        /\ registry'[d].static = registry[d].static
        /\ registry'[d].failures = registry[d].failures
    BY <1>1, <2>1, <2>2 DEF IsEntry
  <2>4. QED
    BY <1>1, <2>1, <2>3 DEF Entries, SameDevices
<1>2. CASE d \notin DOMAIN registry
  BY <1>2 DEF SetProfile, SameDevices
<1>3. QED
  BY <1>1, <1>2

LEMMA MarkSuccessKeeps ==
    ASSUME Entries(registry), NEW d, MarkSuccess(d)
    PROVE  /\ Entries(registry') /\ SameDevices(registry, registry')
           /\ \A e \in DOMAIN registry : registry'[e].failures \in {0, registry[e].failures}
<1>1. CASE d \in DOMAIN registry
  <2>1. registry' = [registry EXCEPT ![d] = [registry[d] EXCEPT !.failures = 0]]
    BY <1>1 DEF MarkSuccess
  <2>2. IsEntry(d, registry[d])
    BY <1>1 DEF Entries
  <2>3. /\ IsEntry(d, registry'[d])
        /\ registry'[d].static = registry[d].static
        /\ registry'[d].failures = 0
    BY <1>1, <2>1, <2>2 DEF IsEntry
  <2>4. QED
    BY <1>1, <2>1, <2>3 DEF Entries, SameDevices
<1>2. CASE d \notin DOMAIN registry
  BY <1>2 DEF MarkSuccess, SameDevices
<1>3. QED
  BY <1>1, <1>2

(* MarkFailure drops the device, if it drops any, and counts otherwise.    *)
LEMMA MarkFailureKeeps ==
    ASSUME Entries(registry), NEW d, MarkFailure(d)
    PROVE  /\ Entries(registry')
           /\ DOMAIN registry' = IF Drops(d) THEN DOMAIN registry \ {d} ELSE DOMAIN registry
           /\ \A e \in DOMAIN registry' : registry'[e].static = registry[e].static
           /\ \A e \in DOMAIN registry' \ {d} : registry'[e] = registry[e]
           /\ Drops(d) => ~registry[d].static
<1>1. CASE d \notin DOMAIN registry \/ registry[d].static
  BY <1>1 DEF MarkFailure, Drops
<1>2. CASE Drops(d)
  <2>1. registry' = Keep(registry, DOMAIN registry \ {d})
    BY <1>2 DEF MarkFailure, Drops, Delete
  <2>2. QED
    BY <1>2, <2>1, KeepEntries DEF Keep, Drops
<1>3. CASE d \in DOMAIN registry /\ ~registry[d].static /\ ~Drops(d)
  <2>1. registry' = [registry EXCEPT ![d] = [registry[d] EXCEPT !.failures = registry[d].failures + 1]]
    BY <1>3 DEF MarkFailure
  <2>2. IsEntry(d, registry[d])
    BY <1>3 DEF Entries
  <2>3. IsEntry(d, registry'[d]) /\ registry'[d].static = registry[d].static
    BY <1>3, <2>1, <2>2 DEF IsEntry
  <2>4. QED
    BY <1>3, <2>1, <2>3 DEF Entries
<1>4. QED
  BY <1>1, <1>2, <1>3 DEF Drops

(* The device set a receiver starts with: the configured devices, and of   *)
(* the restored ones those of other hosts.                                 *)
LEMMA SeededSet ==
    ASSUME NEW m, ScannedEntries(m), NEW S \in SUBSET StaticIDs
    PROVE  /\ Entries(Seeded(m, S))
           /\ DOMAIN Seeded(m, S) =
                  S \cup {d \in DOMAIN m : AddressOf[d] \notin {AddressOf[s] : s \in S}}
           /\ \A d \in DOMAIN Seeded(m, S) : Seeded(m, S)[d].static <=> d \in S
<1> USE ReceiverAssumptions
<1> DEFINE with == [d \in DOMAIN m \cup S |->
                       IF d \in S THEN Upserted(m, StaticDevice(d)) ELSE m[d]]
           hosts == {AddressOf[d] : d \in S}
<1>0. Entries(m) /\ DOMAIN m \subseteq ScanIDs /\ \A d \in DOMAIN m : ~m[d].static
  BY DEF ScannedEntries
<1>1. ASSUME NEW d \in S PROVE IsEntry(d, with[d]) /\ with[d].static = TRUE
  <2>1. IsEntry(d, StaticDevice(d)) /\ StaticDevice(d).static = TRUE
    BY DEF IsEntry, StaticDevice
  <2>2. d \in IDs
    OBVIOUS
  <2>3. IsEntry(d, Upserted(m, StaticDevice(d))) /\ Upserted(m, StaticDevice(d)).static
    BY <1>0, <2>1, <2>2, UpsertedEntry
  <2>4. with[d] = Upserted(m, StaticDevice(d))
    OBVIOUS
  <2>5. QED
    BY <2>3, <2>4 DEF IsEntry
<1>2. ASSUME NEW d \in DOMAIN m \ S
      PROVE  IsEntry(d, with[d]) /\ ~with[d].static /\ with[d].addr = AddressOf[d]
  BY <1>0 DEF Entries, IsEntry
<1>3. Entries(with)
  BY <1>0, <1>1, <1>2 DEF Entries
<1>4. Seeded(m, S) = Keep(with, {d \in DOMAIN with : with[d].static \/ with[d].addr \notin hosts})
  BY DEF Seeded
<1> HIDE DEF with
<1>5. DOMAIN with = DOMAIN m \cup S
  BY DEF with
<1>6. S \cap DOMAIN m = {}
  BY <1>0 DEF ScanIDs
<1>7. DOMAIN Seeded(m, S) = S \cup {d \in DOMAIN m : AddressOf[d] \notin hosts}
  BY <1>1, <1>2, <1>4, <1>5, <1>6 DEF Keep
<1>8. \A d \in DOMAIN Seeded(m, S) : Seeded(m, S)[d] = with[d]
  BY <1>4 DEF Keep
<1>9. Entries(Seeded(m, S))
  BY <1>3, <1>4, KeepEntries
<1>10. QED
  BY <1>1, <1>2, <1>5, <1>7, <1>8, <1>9

-----------------------------------------------------------------------------
(* The invariant.                                                          *)

LEMMA InitInv == Init => IInv
<1> SUFFICES ASSUME Init PROVE IInv
  OBVIOUS
<1>1. DOMAIN registry = {} /\ DOMAIN stored = {} /\ DOMAIN saving = {}
  BY DEF Init, EmptyMap
<1>2. QED
  BY <1>1 DEF Init, IInv, SetInv, Entries, ScannedEntries, Quiet, IdentityInv, PromiseInv,
     ScanSurvivesCrash, ShutdownSavesFinalSet

(* What Save writes is of the subnet.                                      *)
LEMMA Saveable == IInv => ScannedEntries(Persistable(registry))
BY PersistableEntries DEF IInv, SetInv, IdentityInv

(* A step that changes none of what the invariant is about, ...            *)
LEMMA FrameStep ==
    ASSUME IInv, UNCHANGED <<registry, stored, mode, statics, saving, promised, atStop>>,
           scan' = "write" => scan = "write", Quiet'
    PROVE  IInv'
BY DEF IInv, SetInv, IdentityInv, PromiseInv, ScanSurvivesCrash, ShutdownSavesFinalSet, StaticHost,
   StaticHosts, Entries, ScannedEntries

(* ... or only what the registry says of the same devices.                 *)
LEMMA SameDevicesStep ==
    ASSUME IInv, UNCHANGED <<stored, mode, statics, saving, promised, atStop>>,
           Entries(registry'), SameDevices(registry, registry'),
           mode \in {"running", "stopping"},
           scan' = "write" => scan = "write"
    PROVE  IInv'
<1>1. DOMAIN Persistable(registry)' = DOMAIN Persistable(registry)
  BY DEF Persistable, Keep, SameDevices
<1>2. SetInv' /\ ShutdownSavesFinalSet'
  BY DEF IInv, SetInv, Quiet, ShutdownSavesFinalSet, ScannedEntries, Entries
<1>3. IdentityInv'
  BY DEF IInv, IdentityInv, SameDevices, StaticHost, StaticHosts
<1>4. PromiseInv'
  BY <1>1 DEF IInv, PromiseInv, ScanSurvivesCrash, SameDevices
<1>5. QED
  BY <1>2, <1>3, <1>4 DEF IInv

LEMMA StartStep ==
    ASSUME IInv, NEW S \in SUBSET StaticIDs, NEW list, NEW readable \in BOOLEAN,
           Start(S, list, readable)
    PROVE  IInv'
<1> DEFINE m == Loaded(readable)
<1>1. ScannedEntries(m)
  BY DEF IInv, SetInv, Loaded, ScannedEntries, Entries, EmptyMap
<1>2. registry' = Seeded(m, S) /\ statics' = S
  BY DEF Start
<1> HIDE DEF m
<1>3. /\ Entries(registry')
      /\ DOMAIN registry' =
             S \cup {d \in DOMAIN m : AddressOf[d] \notin {AddressOf[s] : s \in S}}
      /\ \A d \in DOMAIN registry' : registry'[d].static <=> d \in S
  BY <1>1, <1>2, SeededSet
<1>4. SetInv'
  BY <1>2, <1>3 DEF Start, IInv, SetInv, ScannedEntries, Entries, Quiet
<1>5. IdentityInv'
  BY <1>1, <1>2, <1>3 DEF IdentityInv, ScannedEntries, StaticHost, StaticHosts
<1>6. PromiseInv'
  <2>1. scan' # "write"
    BY DEF Start
  <2>2. promised' \subseteq DOMAIN stored /\ UNCHANGED stored
    BY DEF Start, IInv, PromiseInv, ScanSurvivesCrash
  <2>3. promised' \subseteq DOMAIN registry'
    BY <1>3 DEF Start, IInv, PromiseInv, ScanSurvivesCrash, m, Loaded
  <2>4. QED
    BY <2>1, <2>2, <2>3 DEF PromiseInv, ScanSurvivesCrash
<1>7. ShutdownSavesFinalSet'
  BY DEF Start, ShutdownSavesFinalSet
<1>8. QED
  BY <1>4, <1>5, <1>6, <1>7 DEF IInv

LEMMA ShutdownStep == ASSUME IInv, Shutdown PROVE IInv'
BY DEF Shutdown, IInv, SetInv, IdentityInv, PromiseInv, ScanSurvivesCrash, ShutdownSavesFinalSet,
   StaticHost, StaticHosts, Entries, ScannedEntries, StoreVars, configVars, scanVars, Quiet

(* What was promised is in the registry until Shutdown has saved it.       *)
LEMMA ShutdownSaveStep ==
    ASSUME IInv, NEW written \in BOOLEAN, ShutdownSave(written)
    PROVE  IInv'
<1> USE DEF configVars, scanVars
<1>1. ScannedEntries(stored')
  BY Saveable DEF ShutdownSave, Write, IInv, SetInv
<1>2. SetInv'
  BY <1>1 DEF ShutdownSave, LoopsEnded, IInv, SetInv, Entries, ScannedEntries, Quiet
<1>3. IdentityInv'
  BY DEF ShutdownSave, IInv, IdentityInv, StaticHost, StaticHosts
<1>4. promised \subseteq DOMAIN Persistable(registry)
  <2>1. promised \subseteq ScanIDs \cap DOMAIN registry
    BY DEF ShutdownSave, IInv, SetInv, ScannedEntries, PromiseInv, ScanSurvivesCrash
  <2>2. QED
    BY <2>1 DEF IInv, SetInv, IdentityInv, Persistable, Keep, ScanIDs
<1>5. PromiseInv'
  BY <1>4 DEF ShutdownSave, LoopsEnded, Write, IInv, PromiseInv, ScanSurvivesCrash
<1>6. ShutdownSavesFinalSet'
  BY DEF ShutdownSave, Write, ShutdownSavesFinalSet
<1>7. QED
  BY <1>2, <1>3, <1>5, <1>6 DEF IInv

LEMMA CrashStep == ASSUME IInv, Crash PROVE IInv'
<1>1. DOMAIN registry' = {} /\ DOMAIN saving' = {} /\ statics' = {}
  BY DEF Crash, EmptyMap
<1>2. QED
  BY <1>1 DEF Crash, IInv, SetInv, IdentityInv, PromiseInv, ScanSurvivesCrash,
     ShutdownSavesFinalSet, Entries, ScannedEntries, Quiet

(* A scan only registers devices of hosts that are not configured.         *)
LEMMA ScanUpsertStep ==
    ASSUME IInv, NEW d \in ScanIDs, ScanUpsert(d)
    PROVE  IInv'
<1> USE ReceiverAssumptions DEF configVars, countVars
<1>0. d \in IDs /\ d \notin StaticIDs /\ Entries(registry) /\ mode \in {"running", "stopping"}
  BY DEF ScanIDs, IInv, SetInv, Quiet, ScanUpsert
<1>1. IsEntry(d, ScannedDevice(d)) /\ ~ScannedDevice(d).static
  BY <1>0 DEF IsEntry, ScannedDevice
<1> DEFINE r == Upserted(registry, ScannedDevice(d))
<1>2. IsEntry(d, r) /\ ~r.static
  <2>1. d \in DOMAIN registry => ~registry[d].static
    BY <1>0 DEF IInv, SetInv, IdentityInv
  <2>2. QED
    BY <1>0, <1>1, <2>1, UpsertedEntry
<1>3. registry' = Put(registry, d, r)
  BY <1>1 DEF ScanUpsert, Upsert, IsEntry
<1> HIDE DEF r
<1>4. /\ Entries(registry')
      /\ DOMAIN registry' = DOMAIN registry \cup {d}
      /\ \A e \in DOMAIN registry' : registry'[e] = IF e = d THEN r ELSE registry[e]
  BY <1>0, <1>2, <1>3 DEF Put, Entries
<1>5. SetInv'
  BY <1>4 DEF ScanUpsert, IInv, SetInv, ScannedEntries, Entries, Quiet
<1>6. IdentityInv'
  <2>1. d \notin statics /\ statics' = statics /\ ~StaticHost(d)
    BY <1>0 DEF ScanUpsert, IInv, SetInv
  <2>2. \A e : StaticHost(e)' <=> StaticHost(e)
    BY <2>1 DEF StaticHost, StaticHosts
  <2>3. QED
    BY <1>2, <1>4, <2>1, <2>2 DEF IInv, IdentityInv
<1>7. PromiseInv'
  BY <1>4 DEF ScanUpsert, IInv, PromiseInv, ScanSurvivesCrash
<1>8. ShutdownSavesFinalSet'
  BY <1>0 DEF ScanUpsert, ShutdownSavesFinalSet
<1>9. QED
  BY <1>5, <1>6, <1>7, <1>8 DEF IInv

LEMMA ScanCopyStep == ASSUME IInv, ScanCopy PROVE IInv'
<1> USE DEF StoreVars, configVars, countVars, historyVars
<1>1. SetInv'
  BY Saveable DEF ScanCopy, IInv, SetInv, Quiet, Entries, ScannedEntries
<1>2. IdentityInv' /\ ShutdownSavesFinalSet'
  BY DEF ScanCopy, IInv, IdentityInv, ShutdownSavesFinalSet, StaticHost, StaticHosts
<1>3. PromiseInv'
  BY DEF ScanCopy, IInv, PromiseInv, ScanSurvivesCrash
<1>4. QED
  BY <1>1, <1>2, <1>3 DEF IInv

LEMMA ScanWriteStep ==
    ASSUME IInv, NEW written \in BOOLEAN, ScanWrite(written)
    PROVE  IInv'
<1> USE DEF configVars, countVars
<1>1. SetInv'
  BY DEF ScanWrite, Write, IInv, SetInv, Quiet, Entries, ScannedEntries, EmptyMap
<1>2. IdentityInv' /\ ShutdownSavesFinalSet'
  BY DEF ScanWrite, IInv, SetInv, Quiet, IdentityInv, ShutdownSavesFinalSet, StaticHost, StaticHosts
<1>3. DOMAIN Persistable(registry) \subseteq DOMAIN registry
  BY DEF Persistable, Keep
<1>4. PromiseInv'
  BY <1>3 DEF ScanWrite, Write, IInv, PromiseInv, ScanSurvivesCrash
<1>5. QED
  BY <1>1, <1>2, <1>4 DEF IInv

(* A poll that drops a device takes the promise back.                      *)
LEMMA PollFailureStep ==
    ASSUME IInv, NEW w \in Workers, PollFailure(w)
    PROVE  IInv'
<1> USE DEF configVars, countVars, scanVars
<1> DEFINE d == DeviceOf(w).id
<1>0. mode \in {"running", "stopping"} /\ Entries(registry) /\ MarkFailure(d)
  BY DEF PollFailure, PollAt, Idle, IInv, SetInv, Quiet
<1> HIDE DEF d
<1>1. /\ Entries(registry')
      /\ DOMAIN registry' = IF Drops(d) THEN DOMAIN registry \ {d} ELSE DOMAIN registry
      /\ \A e \in DOMAIN registry' : registry'[e].static = registry[e].static
      /\ Drops(d) => ~registry[d].static
  BY <1>0, MarkFailureKeeps
<1>2. promised' = IF Drops(d) THEN promised \ {d} ELSE promised
  BY DEF PollFailure, d
<1>3. SetInv' /\ ShutdownSavesFinalSet'
  BY <1>0, <1>1 DEF PollFailure, IInv, SetInv, ScannedEntries, Entries, Quiet, ShutdownSavesFinalSet
<1>4. IdentityInv'
  <2>1. Drops(d) => d \notin statics
    BY <1>1 DEF IInv, IdentityInv, Drops
  <2>2. statics' = statics /\ \A e : StaticHost(e)' <=> StaticHost(e)
    BY DEF PollFailure, StaticHost, StaticHosts
  <2>3. QED
    BY <1>1, <2>1, <2>2 DEF IInv, IdentityInv
<1>5. PromiseInv'
  <2>1. DOMAIN Persistable(registry)' \subseteq DOMAIN Persistable(registry)
    BY <1>1 DEF Persistable, Keep
  <2>2. QED
    BY <1>1, <1>2, <2>1 DEF PollFailure, IInv, PromiseInv, ScanSurvivesCrash
<1>6. QED
  BY <1>3, <1>4, <1>5 DEF IInv

(* All other steps of the scans and the scheduler leave the device set     *)
(* alone.                                                                  *)
LEMMA DiscoveryStep == ASSUME IInv, Discovery PROVE IInv'
<1> USE DEF StoreVars, configVars, countVars, historyVars
<1>0. Quiet
  BY DEF IInv, SetInv
<1>1. ASSUME NEW F \in SUBSET ScanIDs, ScanProbe(F) PROVE IInv'
  BY <1>0, <1>1, FrameStep DEF ScanProbe, Quiet
<1>2. ASSUME NEW d \in ScanIDs, ScanSkipStatic(d) PROVE IInv'
  BY <1>0, <1>2, FrameStep DEF ScanSkipStatic, Quiet
<1>3. CASE ScanMatch
  <2>1. CASE UNCHANGED registry
    BY <1>0, <1>3, <2>1, FrameStep DEF ScanMatch, Quiet
  <2>2. CASE SetProfile(current, found[current], ProfileOf[found[current]])
    <3>1. Entries(registry') /\ SameDevices(registry, registry')
      BY <2>2, SetProfileKeeps DEF IInv, SetInv
    <3>2. mode \in {"running", "stopping"}
      BY <1>0, <1>3 DEF ScanMatch, Quiet, IInv, SetInv
    <3>3. QED
      BY <1>3, <3>1, <3>2, SameDevicesStep DEF ScanMatch
  <2>3. QED
    BY <1>3, <2>1, <2>2 DEF ScanMatch
<1>4. CASE ScanAgain \/ ScanEnd
  BY <1>0, <1>4, FrameStep DEF ScanAgain, ScanEnd, DiscoveryEnds, Quiet
<1>5. QED
  BY <1>1, <1>2, <1>3, <1>4, ScanUpsertStep, ScanCopyStep, ScanWriteStep DEF Discovery

LEMMA PollStepInv == ASSUME IInv, NEW w \in Workers, PollStep(w) PROVE IInv'
<1> USE DEF StoreVars, configVars, countVars, historyVars, scanVars
<1>0. Quiet /\ mode \in {"running", "stopping"} /\ Entries(registry)
  <2>1. poll # Idle
    BY DEF PollStep, PollBegin, PollKnownProfile, PollDetect, PollUndetected, FetchAnswered,
       FetchEmpty, PollSuccess, PollFailure, PollForget, PollAt, Idle
  <2>2. QED
    BY <2>1 DEF IInv, SetInv, Quiet
<1>1. CASE PollBegin(w)
  BY <1>0, <1>1, FrameStep DEF PollBegin, Quiet
<1>2. CASE PollKnownProfile(w) \/ PollUndetected(w) \/ FetchEmpty(w)
  BY <1>0, <1>2, FrameStep DEF PollKnownProfile, PollUndetected, FetchEmpty, Quiet
<1>3. CASE PollDetect(w)
  <2>1. Entries(registry') /\ SameDevices(registry, registry')
    BY <1>0, <1>3, SetProfileKeeps DEF PollDetect
  <2>2. QED
    BY <1>0, <1>3, <2>1, SameDevicesStep DEF PollDetect
<1>4. ASSUME NEW accepted, FetchAnswered(w, accepted) PROVE IInv'
  BY <1>0, <1>4, FrameStep DEF FetchAnswered, Quiet
<1>5. CASE PollSuccess(w)
  <2>1. Entries(registry') /\ SameDevices(registry, registry')
    BY <1>0, <1>5, MarkSuccessKeeps DEF PollSuccess, Confirm
  <2>2. QED
    BY <1>0, <1>5, <2>1, SameDevicesStep DEF PollSuccess
<1>6. CASE PollForget(w)
  BY <1>0, <1>6, FrameStep DEF PollForget, Quiet
<1>7. QED
  BY <1>1, <1>2, <1>3, <1>4, <1>5, <1>6, PollFailureStep DEF PollStep

LEMMA InvStep == IInv /\ [Next]_vars => IInv'
<1> SUFFICES ASSUME IInv, [Next]_vars PROVE IInv'
  OBVIOUS
<1> USE DEF StoreVars, configVars, countVars, historyVars, scanVars
<1>0. Quiet
  BY DEF IInv, SetInv
<1>1. CASE Environment
  <2>1. ASSUME NEW a, NEW v, Flip(a, v) PROVE IInv'
    BY <1>0, <2>1, FrameStep DEF Flip, Quiet
  <2>2. QED
    BY <1>1, <2>1, StartStep, ShutdownStep, CrashStep DEF Environment
<1>2. CASE SchedTick
  BY <1>0, <1>2, FrameStep DEF SchedTick, Quiet
<1>3. ASSUME NEW d \in IDs, NEW w \in Workers, Dispatch(w, d) PROVE IInv'
  BY <1>0, <1>3, FrameStep DEF Dispatch, Quiet
<1>4. ASSUME NEW d \in IDs, PassOver(d) PROVE IInv'
  BY <1>0, <1>4, FrameStep DEF PassOver, Quiet
<1>5. CASE UNCHANGED vars
  BY <1>0, <1>5, FrameStep DEF vars, Quiet
<1>6. QED
  BY <1>1, <1>2, <1>3, <1>4, <1>5, DiscoveryStep, PollStepInv, ShutdownSaveStep DEF Next, Dispatching

LEMMA InvHolds == Spec => []IInv
<1>1. QED
  BY InitInv, InvStep, PTL DEF Spec

-----------------------------------------------------------------------------
(* The theorems.                                                           *)

(* A host that is configured statically has that entry only, however many  *)
(* subnets it is in and whatever was stored of it.                         *)
THEOREM OneIdentity == Spec => []OneIdentityPerHost
<1>1. IInv => OneIdentityPerHost
  <2> SUFFICES ASSUME IInv, NEW d \in DOMAIN registry, NEW e \in DOMAIN registry,
                      registry[d].static, registry[d].addr = registry[e].addr
               PROVE  d = e
    BY DEF OneIdentityPerHost
  <2>1. AddressOf[d] = AddressOf[e]
    BY DEF IInv, SetInv, Entries, IsEntry
  <2>2. d \in statics
    BY DEF IInv, IdentityInv
  <2>3. e \in statics
    BY <2>1, <2>2 DEF IInv, IdentityInv, StaticHost, StaticHosts
  <2>4. QED
    BY <2>1, <2>2, <2>3, ReceiverAssumptions DEF IInv, SetInv
<1>2. QED
  BY <1>1, InvHolds, PTL

(* The static entries are those of the configuration: the storage never    *)
(* has one to bring back, and no failed poll drops one.                    *)
THEOREM StaticsOfThisRun == Spec => []StaticsAreConfigured
<1>1. IInv => StaticsAreConfigured
  BY DEF IInv, IdentityInv, StaticsAreConfigured
<1>2. QED
  BY <1>1, InvHolds, PTL

(* A completed scan is not lost, over any number of crashes and restarts,  *)
(* failed saves among them.                                                *)
THEOREM ScansSurvive == Spec => []ScanSurvivesCrash
<1>1. IInv => ScanSurvivesCrash
  BY DEF IInv, PromiseInv
<1>2. QED
  BY <1>1, InvHolds, PTL

(* What Shutdown leaves in the storage is the last state of the set.       *)
THEOREM FinalSetSaved == Spec => []ShutdownSavesFinalSet
<1>1. IInv => ShutdownSavesFinalSet
  BY DEF IInv
<1>2. QED
  BY <1>1, InvHolds, PTL

-----------------------------------------------------------------------------
(* The polls.                                                              *)

(* A poll that fails, succeeds or forgets finds the device in the registry *)
(* or not; only scans and starts add one.                                  *)
THEOREM PollsRegisterNothing == Spec => PollNeverRegisters
<1> DEFINE Registers ==
        \A d \in DOMAIN registry' \ DOMAIN registry :
            \/ mode' # mode
            \/ scan = "register" /\ d \in DOMAIN found
<1>1. [Next]_vars => Registers
  <2> SUFFICES ASSUME [Next]_vars PROVE Registers
    OBVIOUS
  <2> USE DEF StoreVars, configVars, countVars, historyVars, scanVars
  <2>1. CASE Environment
    <3>1. ASSUME NEW S, NEW list, NEW readable, Start(S, list, readable) PROVE Registers
      BY <3>1 DEF Start
    <3>2. ASSUME NEW a, NEW v, Flip(a, v) PROVE Registers
      BY <3>2 DEF Flip
    <3>3. CASE Shutdown \/ Crash
      BY <3>3 DEF Shutdown, Crash
    <3>4. QED
      BY <2>1, <3>1, <3>2, <3>3 DEF Environment
  <2>2. CASE Discovery
    <3>1. ASSUME NEW d, ScanUpsert(d) PROVE Registers
      BY <3>1 DEF ScanUpsert, Upsert, Put, ScannedDevice
    <3>2. CASE ScanMatch
      BY <3>2 DEF ScanMatch, SetProfile
    <3>3. CASE ScanCopy \/ ScanAgain \/ ScanEnd
      BY <3>3 DEF ScanCopy, ScanAgain, ScanEnd
    <3>4. ASSUME NEW F, ScanProbe(F) PROVE Registers
      BY <3>4 DEF ScanProbe
    <3>5. ASSUME NEW d, ScanSkipStatic(d) PROVE Registers
      BY <3>5 DEF ScanSkipStatic
    <3>6. ASSUME NEW written, ScanWrite(written) PROVE Registers
      BY <3>6 DEF ScanWrite
    <3>7. QED
      BY <2>2, <3>1, <3>2, <3>3, <3>4, <3>5, <3>6 DEF Discovery
  <2>3. ASSUME NEW w \in Workers, PollStep(w) PROVE Registers
    <3>1. CASE PollBegin(w) \/ PollKnownProfile(w) \/ PollUndetected(w) \/ FetchEmpty(w) \/ PollForget(w)
      BY <3>1 DEF PollBegin, PollKnownProfile, PollUndetected, FetchEmpty, PollForget
    <3>2. CASE PollDetect(w)
      BY <3>2 DEF PollDetect, SetProfile
    <3>3. ASSUME NEW accepted, FetchAnswered(w, accepted) PROVE Registers
      BY <3>3 DEF FetchAnswered
    <3>4. CASE PollSuccess(w)
      BY <3>4 DEF PollSuccess, Confirm, MarkSuccess
    <3>5. CASE PollFailure(w)
      BY <3>5 DEF PollFailure, MarkFailure, Delete, Keep
    <3>6. QED
      BY <2>3, <3>1, <3>2, <3>3, <3>4, <3>5 DEF PollStep
  <2>4. ASSUME NEW d, NEW w, Dispatch(w, d) PROVE Registers
    BY <2>4 DEF Dispatch
  <2>5. ASSUME NEW d, PassOver(d) PROVE Registers
    BY <2>5 DEF PassOver
  <2>6. ASSUME NEW written, ShutdownSave(written) PROVE Registers
    BY <2>6 DEF ShutdownSave
  <2>7. CASE SchedTick \/ UNCHANGED vars
    BY <2>7 DEF SchedTick, vars
  <2>8. QED
    BY <2>1, <2>2, <2>3, <2>4, <2>5, <2>6, <2>7 DEF Next, Dispatching
<1>2. [Next]_vars => [Registers]_vars
  BY <1>1
<1>3. QED
  BY <1>2, PTL DEF Spec, PollNeverRegisters

LEMMA InitPolls == Init => PollInv
BY DEF Init, PollInv, Polling, Idle, NoPoll, EmptyMap

(* What a poller does to its own poll, ...                                 *)
LEMMA GoToKeeps ==
    ASSUME PollInv, NEW w \in Workers, Polling(w), NEW place, GoTo(w, place)
    PROVE  /\ poll' \in [Workers -> {poll'[v] : v \in Workers}]
           /\ \A v \in Workers \ {w} : poll'[v] = poll[v]
           /\ poll'[w] = [at |-> place, dev |-> poll[w].dev]
           /\ Polling(w)'
<1>1. poll' = [poll EXCEPT ![w] = [poll[w] EXCEPT !.at = place]]
  BY DEF GoTo
<1>2. poll[w] = [at |-> poll[w].at, dev |-> poll[w].dev]
  BY DEF PollInv
<1>3. poll'[w] = [poll[w] EXCEPT !.at = place]
  BY <1>1 DEF PollInv
<1>4. poll'[w] = [at |-> place, dev |-> poll[w].dev]
  BY <1>2, <1>3
<1>5. "dev" \in DOMAIN poll'[w] /\ "dev" \notin DOMAIN NoPoll
  BY <1>4 DEF NoPoll
<1>6. poll'[w] # NoPoll
  BY <1>5
<1>7. poll' \in [Workers -> {poll'[v] : v \in Workers}]
  BY <1>1 DEF PollInv
<1>8. \A v \in Workers \ {w} : poll'[v] = poll[v]
  BY <1>1 DEF PollInv
<1>9. QED
  BY <1>4, <1>6, <1>7, <1>8 DEF Polling

(* ... which keeps its device, or ends.                                    *)
LEMMA OwnPollStep ==
    ASSUME PollInv, NEW w \in Workers, Polling(w), UNCHANGED todo,
           \/ refreshed' = refreshed /\ \E place : GoTo(w, place)
           \/ Released(w),
           \A v \in refreshed' : DeviceOf(v).id \in DOMAIN registry' =>
               /\ DeviceOf(v).id \in DOMAIN registry
               /\ registry'[DeviceOf(v).id].failures \in {0, registry[DeviceOf(v).id].failures}
    PROVE  PollInv'
<1>1. CASE refreshed' = refreshed /\ \E place : GoTo(w, place)
  <2>1. PICK place : GoTo(w, place)
    BY <1>1
  <2>2. /\ poll' \in [Workers -> {poll'[v] : v \in Workers}]
        /\ \A v \in Workers \ {w} : poll'[v] = poll[v]
        /\ poll'[w] = [at |-> place, dev |-> poll[w].dev]
        /\ Polling(w)'
    BY <2>1, GoToKeeps
  <2>3. \A v \in Workers : (Polling(v)' <=> Polling(v)) /\ poll'[v].dev = poll[v].dev
    BY <2>2 DEF Polling
  <2>4. \A v \in Workers : Polling(v)' => poll'[v] = [at |-> poll'[v].at, dev |-> poll'[v].dev]
    BY <2>2 DEF PollInv, Polling
  <2>5. \A u, v \in Workers :
            Polling(u)' /\ Polling(v)' /\ DeviceOf(u)'.id = DeviceOf(v)'.id => u = v
    BY <2>3 DEF PollInv, DeviceOf
  <2>6. \A v \in refreshed' :
            /\ v \in Workers /\ Polling(v)'
            /\ DeviceOf(v)'.id \in DOMAIN registry' => registry'[DeviceOf(v)'.id].failures = 0
    BY <1>1, <2>3 DEF PollInv, DeviceOf
  <2>7. QED
    BY <2>2, <2>4, <2>5, <2>6 DEF PollInv
<1>2. CASE Released(w)
  <2>1. /\ poll' \in [Workers -> {poll'[v] : v \in Workers}]
        /\ \A v \in Workers \ {w} : poll'[v] = poll[v]
        /\ poll'[w] = NoPoll
    BY <1>2 DEF Released, PollInv
  <2>2. QED
    BY <1>2, <2>1 DEF Released, PollInv, DeviceOf, Polling
<1>3. QED
  BY <1>1, <1>2

(* A step of anybody else.                                                 *)
LEMMA OthersStep ==
    ASSUME PollInv, UNCHANGED <<poll, refreshed>>,
           \A d \in DOMAIN todo' : todo'[d].id = d,
           \A v \in refreshed : DeviceOf(v).id \in DOMAIN registry' =>
               /\ DeviceOf(v).id \in DOMAIN registry
               /\ registry'[DeviceOf(v).id].failures = registry[DeviceOf(v).id].failures
    PROVE  PollInv'
BY DEF PollInv, DeviceOf, Polling

LEMMA PollFailurePolls ==
    ASSUME IInv, PollInv, NEW w \in Workers, PollFailure(w)
    PROVE  PollInv'
<1> USE DEF configVars, countVars, scanVars
<1> DEFINE d == DeviceOf(w).id
<1>0. Polling(w) /\ UNCHANGED todo
  BY DEF PollFailure, PollAt, Polling
<1>1. MarkFailure(d) /\ Entries(registry)
  BY DEF PollFailure, IInv, SetInv
<1>2. /\ DOMAIN registry' = IF Drops(d) THEN DOMAIN registry \ {d} ELSE DOMAIN registry
      /\ \A e \in DOMAIN registry' \ {d} : registry'[e] = registry[e]
  <2> HIDE DEF d
  <2>1. QED
    BY <1>1, MarkFailureKeeps
<1>3. \/ refreshed' = refreshed /\ GoTo(w, "forget") /\ Drops(d)
      \/ Released(w) /\ ~Drops(d)
  BY DEF PollFailure
<1>4. ASSUME NEW v \in refreshed', DeviceOf(v).id \in DOMAIN registry'
      PROVE  DeviceOf(v).id # d
  <2>1. v \in refreshed
    BY <1>3 DEF Released
  <2>2. CASE v = w
    BY <1>2, <1>3, <1>4, <2>2 DEF Released
  <2>3. CASE v # w
    BY <1>0, <2>1, <2>3 DEF PollInv
  <2>4. QED
    BY <2>2, <2>3
<1>5. \A v \in refreshed' : DeviceOf(v).id \in DOMAIN registry' =>
          /\ DeviceOf(v).id \in DOMAIN registry
          /\ registry'[DeviceOf(v).id].failures \in {0, registry[DeviceOf(v).id].failures}
  BY <1>2, <1>4
<1> HIDE DEF d
<1>6. QED
  BY <1>0, <1>3, <1>5, OwnPollStep

LEMMA ScanUpsertPolls ==
    ASSUME IInv, PollInv, NEW d \in ScanIDs, ScanUpsert(d)
    PROVE  PollInv'
<1> USE DEF configVars, countVars
<1> DEFINE r == Upserted(registry, ScannedDevice(d))
<1>1. IsEntry(d, ScannedDevice(d)) /\ d \in IDs /\ Entries(registry)
  BY DEF IsEntry, ScannedDevice, ScanIDs, IInv, SetInv
<1>2. r.failures = 0
  BY <1>1, UpsertedEntry
<1>3. registry' = Put(registry, d, r)
  BY <1>1 DEF ScanUpsert, Upsert, IsEntry
<1> HIDE DEF r
<1>4. /\ DOMAIN registry' = DOMAIN registry \cup {d}
      /\ \A e \in DOMAIN registry' : registry'[e] = IF e = d THEN r ELSE registry[e]
  BY <1>3 DEF Put
<1>5. /\ UNCHANGED <<poll, todo>>
      /\ refreshed' = refreshed \cup {w \in Workers : poll[w] # NoPoll /\ poll[w].dev.id = d}
  BY DEF ScanUpsert
<1>6. QED
  BY <1>2, <1>4, <1>5 DEF PollInv, DeviceOf, Polling

LEMMA DispatchPolls ==
    ASSUME PollInv, NEW d \in IDs, NEW w \in Workers, Dispatch(w, d)
    PROVE  PollInv'
<1> USE DEF StoreVars, configVars, countVars, historyVars, scanVars
<1>1. /\ poll' \in [Workers -> {poll'[v] : v \in Workers}]
      /\ \A v \in Workers \ {w} : poll'[v] = poll[v]
      /\ poll'[w] = [at |-> "begin", dev |-> todo[d]]
  BY DEF Dispatch, PollInv
<1>2. todo[d].id = d /\ \A v \in Workers : Polling(v) => DeviceOf(v).id # d
  BY DEF Dispatch, IsNext, PollInv, Polled, Polling, DeviceOf
<1>3. w \notin refreshed /\ UNCHANGED <<refreshed, registry>>
  BY DEF Dispatch, PollInv, Polling
<1>4. \A e \in DOMAIN todo' : todo'[e].id = e
  BY DEF Dispatch, Delete, Keep, PollInv
<1>5. \A v \in refreshed : poll'[v] = poll[v]
  BY <1>1, <1>3 DEF PollInv
<1>6. \A v \in Workers : Polling(v)' => poll'[v] = [at |-> poll'[v].at, dev |-> poll'[v].dev]
  BY <1>1 DEF PollInv, Polling
<1>7. \A u, v \in Workers :
          Polling(u)' /\ Polling(v)' /\ DeviceOf(u)'.id = DeviceOf(v)'.id => u = v
  <2>1. DeviceOf(w)'.id = d
    BY <1>1, <1>2 DEF DeviceOf
  <2>2. \A v \in Workers \ {w} : Polling(v)' => Polling(v) /\ DeviceOf(v)' = DeviceOf(v)
    BY <1>1 DEF Polling, DeviceOf
  <2>3. QED
    BY <1>2, <2>1, <2>2 DEF PollInv
<1>8. QED
  BY <1>1, <1>3, <1>4, <1>5, <1>6, <1>7 DEF PollInv, Polling, DeviceOf

LEMMA PollStepPolls ==
    ASSUME IInv, PollInv, NEW w \in Workers, PollStep(w)
    PROVE  PollInv'
<1> USE DEF StoreVars, configVars, countVars, historyVars, scanVars
<1>0. Polling(w) /\ Entries(registry)
  BY DEF PollStep, PollBegin, PollKnownProfile, PollDetect, PollUndetected, FetchAnswered,
     FetchEmpty, PollSuccess, PollFailure, PollForget, PollAt, Polling, IInv, SetInv
<1>1. CASE PollBegin(w)
  <2>1. /\ UNCHANGED <<todo, registry>>
        /\ Released(w) \/ (refreshed' = refreshed /\ \E place : GoTo(w, place))
    BY <1>1 DEF PollBegin
  <2>2. \A v \in refreshed' : v \in refreshed
    BY <2>1 DEF Released
  <2>3. QED
    BY <1>0, <2>1, <2>2, OwnPollStep
<1>2. CASE PollKnownProfile(w) \/ PollUndetected(w) \/ FetchEmpty(w)
  <2>1. UNCHANGED <<todo, registry, refreshed>> /\ \E place : GoTo(w, place)
    BY <1>2 DEF PollKnownProfile, PollUndetected, FetchEmpty, Compile
  <2>2. QED
    BY <1>0, <2>1, OwnPollStep
<1>3. CASE PollDetect(w)
  <2>1. UNCHANGED <<todo, refreshed>> /\ \E place : GoTo(w, place)
    BY <1>3 DEF PollDetect, Compile
  <2>2. /\ SameDevices(registry, registry')
        /\ \A e \in DOMAIN registry : registry'[e].failures = registry[e].failures
    BY <1>0, <1>3, SetProfileKeeps DEF PollDetect
  <2>3. QED
    BY <1>0, <2>1, <2>2, OwnPollStep DEF SameDevices
<1>4. ASSUME NEW accepted, FetchAnswered(w, accepted) PROVE PollInv'
  <2>1. /\ UNCHANGED <<todo, registry>>
        /\ Released(w) \/ (refreshed' = refreshed /\ \E place : GoTo(w, place))
    BY <1>4 DEF FetchAnswered
  <2>2. QED
    BY <1>0, <2>1, OwnPollStep
<1>5. CASE PollSuccess(w)
  <2>1. UNCHANGED todo /\ Released(w)
    BY <1>5 DEF PollSuccess
  <2>2. /\ SameDevices(registry, registry')
        /\ \A e \in DOMAIN registry : registry'[e].failures \in {0, registry[e].failures}
    BY <1>0, <1>5, MarkSuccessKeeps DEF PollSuccess, Confirm
  <2>3. QED
    BY <1>0, <2>1, <2>2, OwnPollStep DEF SameDevices
<1>6. CASE PollForget(w)
  <2>1. UNCHANGED <<todo, registry>> /\ Released(w)
    BY <1>6 DEF PollForget
  <2>2. QED
    BY <1>0, <2>1, OwnPollStep
<1>7. QED
  BY <1>1, <1>2, <1>3, <1>4, <1>5, <1>6, PollFailurePolls DEF PollStep

LEMMA PollInvStep == IInv /\ PollInv /\ [Next]_vars => PollInv'
<1> SUFFICES ASSUME IInv, PollInv, [Next]_vars PROVE PollInv'
  OBVIOUS
<1> USE DEF StoreVars, configVars, countVars, historyVars, scanVars
<1>0. \A d \in DOMAIN todo : todo[d].id = d
  BY DEF PollInv
<1>1. CASE Environment
  <2>1. ASSUME NEW S, NEW list, NEW readable, Start(S, list, readable) PROVE PollInv'
    <3>1. refreshed = {}
      BY <2>1 DEF Start, IInv, SetInv, Quiet, Idle, PollInv, Polling
    <3>2. QED
      BY <1>0, <2>1, <3>1, OthersStep DEF Start
  <2>2. ASSUME NEW a, NEW v, Flip(a, v) PROVE PollInv'
    BY <1>0, <2>2, OthersStep DEF Flip, PollInv
  <2>3. CASE Shutdown
    <3>1. DOMAIN todo' = {}
      BY <2>3 DEF Shutdown, EmptyMap
    <3>2. QED
      BY <2>3, <3>1, OthersStep DEF Shutdown, PollInv
  <2>4. CASE Crash
    BY <2>4 DEF Crash, PollInv, Polling, Idle, NoPoll, EmptyMap
  <2>5. QED
    BY <1>1, <2>1, <2>2, <2>3, <2>4 DEF Environment
<1>2. CASE SchedTick
  <2>1. \A d \in DOMAIN todo' : todo'[d].id = d
    BY <1>2 DEF SchedTick, Snapshot, IInv, SetInv, Entries, IsEntry
  <2>2. QED
    BY <1>2, <2>1, OthersStep DEF SchedTick
<1>3. ASSUME NEW d \in IDs, PassOver(d) PROVE PollInv'
  <2>1. \A e \in DOMAIN todo' : todo'[e].id = e
    BY <1>0, <1>3 DEF PassOver, Delete, Keep
  <2>2. QED
    BY <1>3, <2>1, OthersStep DEF PassOver
<1>4. CASE Discovery
  <2>1. CASE ScanMatch
    <3>1. /\ DOMAIN registry' = DOMAIN registry
          /\ \A e \in DOMAIN registry : registry'[e].failures = registry[e].failures
      BY <2>1, SetProfileKeeps DEF ScanMatch, SameDevices, IInv, SetInv
    <3>2. QED
      BY <1>0, <2>1, <3>1, OthersStep DEF ScanMatch
  <2>2. CASE UNCHANGED <<registry, todo, poll, refreshed>>
    BY <1>0, <2>2, OthersStep
  <2>3. QED
    BY <1>4, <2>1, <2>2, ScanUpsertPolls DEF Discovery, ScanProbe, ScanSkipStatic, ScanCopy,
       ScanWrite, ScanAgain, ScanEnd
<1>5. ASSUME NEW written, ShutdownSave(written) PROVE PollInv'
  BY <1>0, <1>5, OthersStep DEF ShutdownSave
<1>6. CASE UNCHANGED vars
  BY <1>0, <1>6, OthersStep DEF vars
<1>7. QED
  BY <1>1, <1>2, <1>3, <1>4, <1>5, <1>6, PollStepPolls, DispatchPolls DEF Next, Dispatching

(* If one failure is forgiven at all, a device that a scan found alive is  *)
(* not dropped by the poll that was under way: that poll is the only one   *)
(* of the device, and the failure it counts is the first.                  *)
THEOREM StalePollsDropNothing ==
    ASSUME AllowedFailures # 0
    PROVE  Spec => StalePollDoesNotDrop
<1> DEFINE Spared ==
        \A w \in refreshed :
            PollAt(w, "fail") /\ poll'[w] # poll[w] /\ mode' # "down" =>
                (DeviceOf(w).id \in DOMAIN registry => DeviceOf(w).id \in DOMAIN registry')
<1>1. IInv /\ PollInv /\ [Next]_vars => Spared
  <2> SUFFICES ASSUME IInv, PollInv, [Next]_vars, NEW w \in refreshed,
                      PollAt(w, "fail"), poll'[w] # poll[w], mode' # "down",
                      DeviceOf(w).id \in DOMAIN registry
               PROVE  DeviceOf(w).id \in DOMAIN registry'
    OBVIOUS
  <2>1. w \in Workers /\ registry[DeviceOf(w).id].failures = 0 /\ Entries(registry)
    BY DEF PollInv, IInv, SetInv
  <2>2. CASE PollFailure(w)
    <3>1. ~Drops(DeviceOf(w).id)
      BY <2>1, AllowedFailuresAssumption DEF Drops
    <3>2. MarkFailure(DeviceOf(w).id)
      BY <2>2 DEF PollFailure
    <3>3. QED
      BY <2>1, <3>1, <3>2, MarkFailureKeeps
  <2>3. ASSUME NEW v \in Workers, PollStep(v) PROVE v = w /\ PollFailure(w)
    <3>1. Released(v) \/ \E place : GoTo(v, place)
      BY <2>3 DEF PollStep, PollBegin, PollKnownProfile, PollDetect, PollUndetected, Compile,
         FetchAnswered, FetchEmpty, PollSuccess, PollFailure, PollForget
    <3>2. v = w
      BY <2>1, <3>1 DEF Released, GoTo, PollInv
    <3>3. QED
      BY <2>3, <3>2 DEF PollStep, PollBegin, PollKnownProfile, PollDetect, PollUndetected,
         FetchAnswered, FetchEmpty, PollSuccess, PollForget, PollAt
  <2>4. ASSUME NEW v \in Workers, NEW d, Dispatch(v, d) PROVE FALSE
    <3>1. v # w
      BY <2>4 DEF Dispatch, PollAt
    <3>2. QED
      BY <2>1, <2>4, <3>1 DEF Dispatch, PollInv
  <2>5. ~ UNCHANGED poll
    OBVIOUS
  <2>6. ~Environment /\ ~Discovery /\ ~SchedTick
    BY <2>5 DEF Environment, Start, Shutdown, Crash, Flip, Discovery, ScanProbe, ScanUpsert,
       ScanSkipStatic, ScanMatch, ScanCopy, ScanWrite, ScanAgain, ScanEnd, SchedTick
  <2>7. (\A d : ~PassOver(d)) /\ (\A written : ~ShutdownSave(written)) /\ ~UNCHANGED vars
    BY <2>5 DEF PassOver, ShutdownSave, vars
  <2>8. QED
    BY <2>2, <2>3, <2>4, <2>6, <2>7 DEF Next, Dispatching
<1>2. Spec => []PollInv
  BY InitPolls, PollInvStep, InvHolds, PTL DEF Spec
<1>3. IInv /\ PollInv /\ [Next]_vars => [Spared]_vars
  BY <1>1
<1>4. QED
  BY <1>2, <1>3, InvHolds, PTL DEF Spec, StalePollDoesNotDrop
=============================================================================
