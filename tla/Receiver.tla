------------------------------ MODULE Receiver ------------------------------
(***************************************************************************)
(* The receiver of receiver.go: Start, Shutdown, the discovery loop and    *)
(* the pollers, all working on one device registry and its stored copy,    *)
(* over restarts and crashes of the collector.                             *)
(*                                                                         *)
(* The scheduler appears as what PollScheduler shows of it (the contract   *)
(* is PollExclusion): from time to time it copies the registry, and it     *)
(* hands devices of that copy, as they were when it was taken, to pollers  *)
(* that hold no device, never one that a poller still holds.  A poll and   *)
(* a scan take one step per access to shared state.                        *)
(***************************************************************************)
EXTENDS DeviceRegistry, Sequences

CONSTANTS
    Workers,            \* the pollers
    StaticIDs,          \* IDs the devices: list may contain (DeviceID(host, ""))
    AddressOf,          \* host of each ID
    ConfigProfile,      \* profile configured for a static ID, or Unset
    ProfileOf,          \* Store.Match: sysObjectID -> profile, or Unset if none matches
    Broken,             \* the profiles that do not resolve or do not compile
    Serves,             \* <<sysObjectID, profile>>: such hardware has some OID of the profile
    Secret,             \* the credentials each host accepts
    CredentialLists,    \* what may be configured for the subnets, <<>> if there are none
    Rediscover,         \* discovery.rediscovery_interval > 0
    Lossy,              \* datagrams may be lost until every retry is spent, sockets not open
    MayReject,          \* the pipeline may reject metrics
    MaxStarts,          \* BOUND: starts of the receiver
    MaxCrashes,         \* BOUND: crashes of the collector
    MaxFlips            \* BOUND: changes of the network

(* An ID is made of host and subnet, so a host has one ID in devices:, and *)
(* one in every subnet it is in.                                           *)
ASSUME ReceiverAssumptions ==
    /\ StaticIDs \subseteq IDs
    /\ IDs \subseteq Nat \ {0} /\ IsFiniteSet(IDs)
    /\ AddressOf \in [IDs -> Addresses]
    /\ ConfigProfile \in [StaticIDs -> Profiles \cup {Unset}]
    /\ ProfileOf \in [Objects -> Profiles \cup {Unset}]
    /\ Unset \notin Objects \cup Profiles
    /\ Broken \subseteq Profiles /\ Serves \subseteq Objects \X Profiles
    /\ \A d, e \in StaticIDs : AddressOf[d] = AddressOf[e] => d = e
    /\ DOMAIN Secret = Addresses
    /\ \A list \in CredentialLists : list \in Seq({list[k] : k \in DOMAIN list})

VARIABLES
    mode,       \* down, running, stopping (Shutdown waits for the loops), stopped
    statics,    \* config: the devices: list of this run
    credentials,\* config: the list of the subnets in this run, <<>> if it has no subnets:
    net,        \* what answers at each address: a sysObjectID, or Unset
    todo,       \* the part of the scheduler's snapshot it has not reached
    poll,       \* what each poller is doing, and with which copy of which device
    state,      \* snmpReceiver.state: device ID -> deviceState
    scan,       \* where the discovery loop is
    found,      \* scan results not yet registered: device ID -> sysObjectID
    current,    \* the result being registered
    saving,     \* the copy Save took and has not yet written
    crashes, starts, flips,
    refreshed,  \* HISTORY: pollers whose device a scan registered during their poll
    atStop,     \* HISTORY: what the registry would have persisted when Shutdown began
    promised    \* HISTORY: devices of the last persisted scan round not dropped since

StoreVars   == <<registry, stored>>
configVars  == <<statics, credentials>>
scanVars    == <<scan, found, current, saving>>
countVars   == <<crashes, starts, flips>>
historyVars == <<refreshed, atStop, promised>>
vars == <<registry, stored, mode, statics, credentials, net, todo, poll, state, scan, found,
          current, saving, crashes, starts, flips, refreshed, atStop, promised>>

(* A deviceState: the profile compiled, Unset before the first, and whether*)
(* MarkMissing has left nothing of it to ask for.                          *)
NoProfile          == [profile |-> Unset, bare |-> FALSE]
Compiled(profile)  == [profile |-> profile, bare |-> FALSE]

NoID    == 0
ScanIDs == IDs \ StaticIDs
NoPoll  == [at |-> "idle"]
Idle    == [w \in Workers |-> NoPoll]
Polled  == {poll[w].dev.id : w \in {v \in Workers : poll[v] # NoPoll}}
StaticHosts == {AddressOf[d] : d \in statics}

Cancelled == mode # "running"

Init ==
    /\ registry = EmptyMap /\ stored = EmptyMap
    /\ mode = "down"
    /\ statics = {} /\ credentials = <<>>
    /\ net \in [Addresses -> Objects]
    /\ todo = EmptyMap
    /\ poll = Idle
    /\ state = EmptyMap
    /\ scan = "off" /\ found = EmptyMap /\ current = NoID /\ saving = EmptyMap
    /\ crashes = 0 /\ starts = 0 /\ flips = 0
    /\ refreshed = {} /\ atStop = {} /\ promised = {}

-----------------------------------------------------------------------------
(* Start and Shutdown.                                                     *)

StaticDevice(d) ==
    [id |-> d, addr |-> AddressOf[d], obj |-> Unset, profile |-> ConfigProfile[d],
     failures |-> 0, auth |-> 1, static |-> TRUE]

(* seedStaticDevices: the configured devices are registered, and restored  *)
(* entries of the same host are removed.                                   *)
Seeded(m, S) ==
    LET with == [d \in DOMAIN m \cup S |->
                    IF d \in S THEN Upserted(m, StaticDevice(d)) ELSE m[d]]
        hosts == {AddressOf[d] : d \in S}
    IN  Keep(with, {d \in DOMAIN with : with[d].static \/ with[d].addr \notin hosts})

(* Start: Load (which may fail: "will rescan"), then the static devices,   *)
(* then the two loops.  The operator may have edited the configuration.    *)
Start(S, list, readable) ==
    /\ mode \in {"down", "stopped"}
    /\ starts < MaxStarts
    /\ starts' = starts + 1
    /\ statics' = S
    /\ credentials' = list
    /\ registry' = Seeded(Loaded(readable), S)
    /\ mode' = "running"
    /\ scan' = IF list # <<>> THEN "begin" ELSE "off"
    /\ promised' = IF readable THEN {d \in promised : AddressOf[d] \notin {AddressOf[s] : s \in S}}
                ELSE {}
    /\ atStop' = {}
    /\ UNCHANGED <<stored, net, todo, poll, state, found, current, saving, crashes, flips, refreshed>>

(* Shutdown cancels the run context, and the scheduler dispatches no more. *)
Shutdown ==
    /\ mode = "running"
    /\ mode' = "stopping"
    /\ todo' = EmptyMap
    /\ atStop' = DOMAIN Persistable(registry)
    /\ UNCHANGED <<StoreVars, configVars, net, poll, state, scanVars, countVars, refreshed, promised>>

(* Mutant: Shutdown saves without waiting for the loops.                   *)
LoopsForgotten == TRUE
LoopsEnded     == scan = "off" /\ poll = Idle

(* The loops have returned: the device set is saved (if the storage lets   *)
(* it be) and this receiver is gone.  atStop = {} notes a failed save.     *)
ShutdownSave(written) ==
    /\ mode = "stopping"
    /\ LoopsEnded
    /\ Write(Persistable(registry), written)
    /\ atStop' = IF written THEN atStop ELSE {}
    /\ mode' = "stopped"
    /\ state' = EmptyMap
    /\ UNCHANGED <<registry, configVars, net, todo, poll, scanVars, countVars,
                   refreshed, promised>>

(* The collector is killed: only the storage survives.                     *)
Crash ==
    /\ mode \in {"running", "stopping"}
    /\ crashes < MaxCrashes
    /\ crashes' = crashes + 1
    /\ mode' = "down"
    /\ registry' = EmptyMap
    /\ todo' = EmptyMap
    /\ poll' = Idle
    /\ state' = EmptyMap
    /\ scan' = "off" /\ found' = EmptyMap /\ current' = NoID /\ saving' = EmptyMap
    /\ statics' = {} /\ credentials' = <<>>
    /\ refreshed' = {} /\ atStop' = {}
    /\ UNCHANGED <<stored, net, starts, flips, promised>>

(* A device goes away, comes back, or is replaced by other hardware.       *)
Flip(a, v) ==
    /\ flips < MaxFlips
    /\ v # net[a]
    /\ flips' = flips + 1
    /\ net' = [net EXCEPT ![a] = v]
    /\ UNCHANGED <<StoreVars, mode, configVars, todo, poll, state, scanVars, crashes, starts,
                   historyVars>>

-----------------------------------------------------------------------------
(* discoveryLoop and scanAll.                                              *)

(* The credentials a device of the subnet answers to, as indexes.          *)
Accepted(d) == {k \in DOMAIN credentials : credentials[k] = Secret[AddressOf[d]]}
InReach     == {d \in ScanIDs : net[AddressOf[d]] # Unset /\ Accepted(d) # {}}

(* The probes of a round.  Everything that answers is found, unless its    *)
(* datagrams are lost; a cancelled scan returns what it has so far.        *)
ScanProbe(F) ==
    /\ scan = "begin"
    /\ F \subseteq InReach
    /\ Lossy \/ Cancelled \/ F = InReach
    /\ found' = [d \in F |-> net[AddressOf[d]]]
    /\ scan' = "register"
    /\ UNCHANGED <<StoreVars, mode, configVars, net, todo, poll, state, current, saving, countVars, historyVars>>

(* Mutant: the loop waits for its ticker only.                             *)
EndsWithoutTicker == scan = "wait" /\ ~Rediscover
DiscoveryEnds ==
    \/ scan \in {"begin", "wait"} /\ Cancelled
    \/ scan = "wait" /\ ~Rediscover

(* The loop ends: cancelled, or no rediscovery after the first round.      *)
ScanEnd ==
    /\ DiscoveryEnds
    /\ scan' = "off"
    /\ UNCHANGED <<StoreVars, mode, configVars, net, todo, poll, state, found, current, saving, countVars,
                   historyVars>>

(* The rediscovery ticker; a round that starts cancelled returns at once.  *)
ScanAgain ==
    /\ scan = "wait"
    /\ ~Cancelled
    /\ Rediscover
    /\ scan' = "begin"
    /\ UNCHANGED <<StoreVars, mode, configVars, net, todo, poll, state, found, current, saving, countVars,
                   historyVars>>

(* The first credentials that were answered are recorded (SubnetScan).     *)
ScannedDevice(d) ==
    [id |-> d, addr |-> AddressOf[d], obj |-> found[d], profile |-> Unset,
     failures |-> 0, auth |-> CHOOSE k \in Accepted(d) : \A j \in Accepted(d) : k <= j,
     static |-> FALSE]

(* Mutant: scan results are registered without the test of staticHosts.    *)
NeverStatic(d)  == FALSE
StaticHost(d)   == AddressOf[d] \in StaticHosts

(* The next result: registered, unless its host is configured statically.  *)
ScanUpsert(d) ==
    /\ scan = "register"
    /\ d \in DOMAIN found
    /\ ~StaticHost(d)
    /\ Upsert(ScannedDevice(d))
    /\ refreshed' = refreshed \cup {w \in Workers : poll[w] # NoPoll /\ poll[w].dev.id = d}
    /\ scan' = "match"
    /\ current' = d
    /\ UNCHANGED <<stored, mode, configVars, net, todo, poll, state, found, saving, countVars,
                   atStop, promised>>

ScanSkipStatic(d) ==
    /\ scan = "register"
    /\ d \in DOMAIN found
    /\ StaticHost(d)
    /\ found' = Delete(found, d)
    /\ UNCHANGED <<StoreVars, mode, configVars, net, todo, poll, state, scan, current, saving,
                   countVars, historyVars>>

(* Its profile is matched and set by a second call; a sysObjectID nothing  *)
(* matches leaves the profile the entry had.                               *)
ScanMatch ==
    /\ scan = "match"
    /\ IF ProfileOf[found[current]] # Unset
       THEN SetProfile(current, found[current], ProfileOf[found[current]])
       ELSE UNCHANGED registry
    /\ found' = Delete(found, current)
    /\ current' = NoID
    /\ scan' = "register"
    /\ UNCHANGED <<stored, mode, configVars, net, todo, poll, state, saving, countVars, historyVars>>

(* Save copies the registry; a cancelled round of several subnets returns  *)
(* before its Save.                                                        *)
ScanCopy ==
    /\ scan = "register"
    /\ found = EmptyMap
    /\ \/ scan' = "write" /\ saving' = Persistable(registry)
       \/ Cancelled /\ scan' = "wait" /\ UNCHANGED saving
    /\ UNCHANGED <<StoreVars, mode, configVars, net, todo, poll, state, found, current, countVars,
                   historyVars>>

(* ... and writes the copy, if the storage lets it.                        *)
ScanWrite(written) ==
    /\ scan = "write"
    /\ Write(saving, written)
    /\ scan' = "wait"
    /\ saving' = EmptyMap
    /\ promised' = IF written THEN DOMAIN Persistable(registry) ELSE promised
    /\ UNCHANGED <<registry, mode, configVars, net, todo, poll, state, found, current, countVars,
                   refreshed, atStop>>

-----------------------------------------------------------------------------
(* The scheduler, as PollScheduler and PollExclusion describe it.          *)

(* The tick that takes the snapshot.                                       *)
SchedTick ==
    /\ mode = "running"
    /\ todo = EmptyMap
    /\ todo' = Snapshot
    /\ UNCHANGED <<StoreVars, mode, configVars, net, poll, state, scanVars, countVars, historyVars>>

(* The snapshot is gone through in the order of the IDs.                   *)
IsNext(d) == d \in DOMAIN todo /\ \A e \in DOMAIN todo : d <= e

(* Not due, still being polled, or no poller free.                         *)
PassOver(d) ==
    /\ IsNext(d)
    /\ todo' = Delete(todo, d)
    /\ UNCHANGED <<StoreVars, mode, configVars, net, poll, state, scanVars, countVars, historyVars>>

Dispatch(w, d) ==
    /\ mode = "running"
    /\ IsNext(d)
    /\ d \notin Polled
    /\ poll[w] = NoPoll
    /\ poll' = [poll EXCEPT ![w] = [at |-> "begin", dev |-> todo[d]]]
    /\ todo' = Delete(todo, d)
    /\ UNCHANGED <<StoreVars, mode, configVars, net, state, scanVars, countVars, historyVars>>

-----------------------------------------------------------------------------
(* pollDevice.                                                             *)

PollAt(w, place) == poll[w] # NoPoll /\ poll[w].at = place
GoTo(w, place)   == poll' = [poll EXCEPT ![w].at = place]
DeviceOf(w)      == poll[w].dev

(* pollDevice has returned and the poller took the device out of inFlight. *)
Released(w) ==
    /\ poll' = [poll EXCEPT ![w] = NoPoll]
    /\ refreshed' = refreshed \ {w}

(* credentialsFor: those of the device in the configuration of this run,   *)
(* at most one.  A static device's own are the right ones; the index of    *)
(* another is that of the scan that found it, in whatever list, and the    *)
(* first are used when the list is shorter now.                            *)
CredentialsFor(dev) ==
    IF dev.static THEN {Secret[a] : a \in {AddressOf[d] : d \in statics} \cap {dev.addr}}
    ELSE {credentials[k] : k \in DOMAIN credentials \cap
             {IF dev.auth <= Len(credentials) THEN dev.auth ELSE 1}}
HasCredentials(dev) == CredentialsFor(dev) # {}

Answers(w) ==
    net[DeviceOf(w).addr] # Unset /\ Secret[DeviceOf(w).addr] \in CredentialsFor(DeviceOf(w))

(* Mutant: a poll without credentials returns and is not counted.          *)
RefusedUncounted(dev) == Cancelled \/ ~HasCredentials(dev)
Refused(dev)          == Cancelled

(* No session: credentials no host can have, or a socket that does not     *)
(* open.                                                                   *)
NoSession(dev) == Lossy \/ CredentialsFor(dev) # {Secret[dev.addr]}

(* The test of the context, the credentials, the session; then             *)
(* ensureProfile takes or creates the device's state.                      *)
PollBegin(w) ==
    /\ PollAt(w, "begin")
    /\ \/ Refused(DeviceOf(w)) /\ Released(w) /\ UNCHANGED state
       \/ /\ ~Refused(DeviceOf(w))
          /\ ~HasCredentials(DeviceOf(w)) \/ NoSession(DeviceOf(w))
          /\ GoTo(w, "fail")
          /\ UNCHANGED <<state, refreshed>>
       \/ /\ ~Refused(DeviceOf(w)) /\ HasCredentials(DeviceOf(w))
          /\ GoTo(w, "profile")
          /\ state' = IF DeviceOf(w).id \in DOMAIN state THEN state
                      ELSE Put(state, DeviceOf(w).id, NoProfile)
          /\ UNCHANGED refreshed
    /\ UNCHANGED <<StoreVars, mode, configVars, net, todo, scanVars, countVars, atStop, promised>>

(* The rest of ensureProfile: the profile is compiled unless it already    *)
(* is; one that is broken fails the poll and leaves what was compiled.     *)
Compile(w, profile) ==
    LET d == DeviceOf(w).id
    IN  \/ state[d].profile = profile /\ GoTo(w, "fetch") /\ UNCHANGED state
        \/ /\ state[d].profile # profile /\ profile \notin Broken
           /\ state' = Put(state, d, Compiled(profile))
           /\ GoTo(w, "fetch")
        \/ /\ state[d].profile # profile /\ profile \in Broken
           /\ GoTo(w, "fail")
           /\ UNCHANGED state

(* The copy of the device names its profile.                               *)
PollKnownProfile(w) ==
    /\ PollAt(w, "profile")
    /\ DeviceOf(w).profile # Unset
    /\ Compile(w, DeviceOf(w).profile)
    /\ UNCHANGED <<StoreVars, mode, configVars, net, todo, scanVars, countVars, historyVars>>

(* sysObjectID from the copy, or else from the device itself.              *)
Identified(w) ==
    IF DeviceOf(w).obj # Unset THEN DeviceOf(w).obj
    ELSE IF Answers(w) THEN net[DeviceOf(w).addr] ELSE Unset

(* The profile that matches is recorded, unless the device was dropped     *)
(* meanwhile.                                                              *)
PollDetect(w) ==
    /\ PollAt(w, "profile")
    /\ DeviceOf(w).profile = Unset
    /\ Identified(w) # Unset /\ ProfileOf[Identified(w)] # Unset
    /\ SetProfile(DeviceOf(w).id, Identified(w), ProfileOf[Identified(w)])
    /\ Compile(w, ProfileOf[Identified(w)])
    /\ UNCHANGED <<stored, mode, configVars, net, todo, scanVars, countVars, historyVars>>

(* Nothing answered the probe, which a cancelled context makes certain, or *)
(* no profile matches.                                                     *)
PollUndetected(w) ==
    /\ PollAt(w, "profile")
    /\ DeviceOf(w).profile = Unset
    /\ \/ DeviceOf(w).obj = Unset /\ (Lossy \/ Cancelled \/ ~Answers(w))
       \/ Identified(w) # Unset /\ ProfileOf[Identified(w)] = Unset
    /\ GoTo(w, "fail")
    /\ UNCHANGED <<StoreVars, mode, configVars, net, todo, state, scanVars, countVars, historyVars>>

(* The hardware has something of the profile that is still asked for.      *)
Has(w)   == <<net[DeviceOf(w).addr], state[DeviceOf(w).id].profile>> \in Serves
Gives(w) == Answers(w) /\ Has(w) /\ ~state[DeviceOf(w).id].bare

(* The device answered something, metrics were built, and the pipeline     *)
(* took them or rejected them, which ends the poll without a verdict.      *)
FetchAnswered(w, accepted) ==
    /\ PollAt(w, "fetch")
    /\ Gives(w)
    /\ IF accepted THEN GoTo(w, "success") /\ UNCHANGED refreshed ELSE Released(w)
    /\ UNCHANGED <<StoreVars, mode, configVars, net, todo, state, scanVars, countVars, atStop,
                   promised>>

(* values.Count() == 0: no answer, a lost one, a Fetch that found its      *)
(* context cancelled before its first request, or a device that answered   *)
(* none of the OIDs, which may all be asked for no more then.              *)
FetchEmpty(w) ==
    /\ PollAt(w, "fetch")
    /\ Lossy \/ Cancelled \/ ~Gives(w)
    /\ \/ UNCHANGED state
       \/ Answers(w) /\ ~Has(w) /\ state' = [state EXCEPT ![DeviceOf(w).id].bare = TRUE]
    /\ GoTo(w, "fail")
    /\ UNCHANGED <<StoreVars, mode, configVars, net, todo, scanVars, countVars, historyVars>>

(* Mutant: the device is recorded as alive with Upsert.                    *)
Revive(dev)    == Upsert(dev)
Confirm(dev)   == MarkSuccess(dev.id)

PollSuccess(w) ==
    /\ PollAt(w, "success")
    /\ Confirm(DeviceOf(w))
    /\ Released(w)
    /\ UNCHANGED <<stored, mode, configVars, net, todo, state, scanVars, countVars, atStop, promised>>

(* failPoll: MarkFailure, and when it dropped the device ...               *)
PollFailure(w) ==
    /\ PollAt(w, "fail")
    /\ MarkFailure(DeviceOf(w).id)
    /\ IF Drops(DeviceOf(w).id)
       THEN /\ GoTo(w, "forget")
            /\ promised' = promised \ {DeviceOf(w).id}
            /\ UNCHANGED refreshed
       ELSE Released(w) /\ UNCHANGED promised
    /\ UNCHANGED <<stored, mode, configVars, net, todo, state, scanVars, countVars, atStop>>

(* ... forgetState, under another mutex.                                   *)
PollForget(w) ==
    /\ PollAt(w, "forget")
    /\ state' = Delete(state, DeviceOf(w).id)
    /\ Released(w)
    /\ UNCHANGED <<StoreVars, mode, configVars, net, todo, scanVars, countVars, atStop, promised>>

-----------------------------------------------------------------------------
Discovery ==
    \/ \E F \in SUBSET ScanIDs : ScanProbe(F)
    \/ \E d \in ScanIDs : ScanUpsert(d) \/ ScanSkipStatic(d)
    \/ ScanMatch \/ ScanCopy
    \/ \E written \in BOOLEAN : ScanWrite(written)
    \/ ScanAgain \/ ScanEnd

(* One step of a poll; the goroutine runs until pollDevice has returned.   *)
PollStep(w) ==
    \/ PollBegin(w)
    \/ PollKnownProfile(w) \/ PollDetect(w) \/ PollUndetected(w)
    \/ \E accepted \in IF MayReject THEN BOOLEAN ELSE {TRUE} : FetchAnswered(w, accepted)
    \/ FetchEmpty(w)
    \/ PollSuccess(w) \/ PollFailure(w) \/ PollForget(w)

Dispatching(d) == \E w \in Workers : Dispatch(w, d)

Environment ==
    \/ \E S \in SUBSET StaticIDs, list \in CredentialLists, readable \in BOOLEAN : Start(S, list, readable)
    \/ Shutdown
    \/ Crash
    \/ \E a \in Addresses, v \in Objects \cup {Unset} : Flip(a, v)

Next ==
    \/ Environment
    \/ \E written \in BOOLEAN : ShutdownSave(written)
    \/ Discovery
    \/ SchedTick
    \/ \E d \in IDs : Dispatching(d) \/ PassOver(d)
    \/ \E w \in Workers : PollStep(w)

Spec == Init /\ [][Next]_vars

(* Goroutines run, and every SNMP exchange ends by its timeouts.  A device *)
(* the scheduler offers for ever (PollScheduler) is polled for ever: the   *)
(* pool of pollers is not permanently saturated by other devices.          *)
Fairness ==
    /\ WF_vars(\E written \in BOOLEAN : ShutdownSave(written))
    /\ WF_vars(Discovery)
    /\ WF_vars(SchedTick)
    /\ WF_vars(\E d \in IDs : Dispatching(d) \/ PassOver(d))
    /\ \A d \in IDs : SF_vars(Dispatching(d))
    /\ \A w \in Workers : WF_vars(PollStep(w))

FairSpec == Spec /\ Fairness

-----------------------------------------------------------------------------
(* A host in the devices: list is in the registry once, under its static   *)
(* identity, whatever was restored from storage and whatever the scans     *)
(* find: a second identity would be polled too, and its metrics emitted    *)
(* under a second resource.  (A host that is only scanned has an identity  *)
(* in every subnet it was found in.)                                       *)
OneIdentityPerHost ==
    mode \in {"running", "stopping"} =>
        \A d, e \in DOMAIN registry :
            registry[d].static /\ registry[d].addr = registry[e].addr => d = e

(* The static devices of the registry are those of this run's              *)
(* configuration: never aged out, and never brought back by the storage    *)
(* after the operator removed them.                                        *)
StaticsAreConfigured ==
    mode \in {"running", "stopping"} => {d \in DOMAIN registry : registry[d].static} = statics

(* A device is not dropped by a poll that was already under way when a     *)
(* scan found the device alive and registered it anew: the result of the   *)
(* old poll comes too late.  (With AllowedFailures = 0 one failure drops   *)
(* a device, and this does not hold.)                                      *)
StalePollDoesNotDrop ==
    [][\A w \in refreshed :
            PollAt(w, "fail") /\ poll'[w] # poll[w] /\ mode' # "down" =>
                (DeviceOf(w).id \in DOMAIN registry => DeviceOf(w).id \in DOMAIN registry')]_vars

(* Only a scan or Start registers a device: a poll that outlives its       *)
(* device's entry, or works on an old copy of it, does not bring it back.  *)
PollNeverRegisters ==
    [][\A d \in DOMAIN registry' \ DOMAIN registry :
            \/ mode' # mode
            \/ scan = "register" /\ d \in DOMAIN found]_vars

(* "Persist after each round so a crash does not lose a completed scan":   *)
(* what was registered when a round was persisted stays stored until it is *)
(* dropped, over every crash and restart, and the next run works with it.  *)
ScanSurvivesCrash ==
    /\ promised \subseteq DOMAIN stored
    /\ mode \in {"running", "stopping"} => promised \subseteq DOMAIN registry

(* Shutdown saves when no loop can change the device set any more: once it *)
(* has returned, storage holds the registry as the last poll and the last  *)
(* scan left it.                                                           *)
ShutdownSavesFinalSet ==
    mode = "stopped" /\ atStop # {} => stored = Persistable(registry)

(* "Shutdown ... persists the device set so the next start does not have   *)
(* to rescan": what was registered when Shutdown began is stored when it   *)
(* returns.  Claimed of a network where every device answers.              *)
ShutdownKeepsDevices ==
    mode = "stopped" /\ atStop # {} => atStop \subseteq DOMAIN stored

(* Shutdown returns.                                                       *)
ShutdownReturns == mode = "stopping" ~> mode # "stopping"

(* A scanned device that stays gone, or whose subnet or credentials were   *)
(* taken out of the configuration, is aged out by its failure budget and   *)
(* not re-polled for ever.                                                 *)
DeadDevicesAgeOut ==
    \A d \in ScanIDs :
        (<>[](mode = "running" /\ d \notin InReach))
            => <>[](d \notin DOMAIN registry)

(* A device of a scanned subnet that answers, and whose hardware has a     *)
(* profile that compiles and that it has something of, ends up registered  *)
(* for good, with that profile compiled and the credentials it answers to, *)
(* wherever they were in the list of the run that found it.  (A device     *)
(* whose profile is broken is dropped by its failed polls and found again, *)
(* for ever: the store does not resolve what it indexes.)                  *)
LiveDevicesMonitored ==
    \A d \in ScanIDs, o \in Objects :
        (<>[](mode = "running" /\ net[AddressOf[d]] = o /\ d \in InReach
              /\ AddressOf[d] \notin StaticHosts
              /\ ProfileOf[o] \notin Broken /\ <<o, ProfileOf[o]>> \in Serves))
            => <>[](/\ d \in DOMAIN registry /\ registry[d].auth \in Accepted(d)
                    /\ d \in DOMAIN state /\ state[d].profile = ProfileOf[o])

(* "The profile is re-detected if the device's sysObjectID changes, which  *)
(* happens when hardware is replaced at the same address": for every       *)
(* device, static ones without a configured profile included.              *)
ReplacedHardwareRedetected ==
    \A d \in StaticIDs, o \in Objects :
        (<>[](mode = "running" /\ d \in statics /\ net[AddressOf[d]] = o
              /\ ConfigProfile[d] = Unset /\ ProfileOf[o] \notin Broken \cup {Unset}))
            => <>(d \in DOMAIN state /\ state[d].profile = ProfileOf[o])
=============================================================================
