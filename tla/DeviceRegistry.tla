--------------------------- MODULE DeviceRegistry ---------------------------
(***************************************************************************)
(* internal/discovery/registry.go: the device set shared by the scanner,   *)
(* the pollers and the scheduler, and its copy in the storage extension.   *)
(*                                                                         *)
(* Every exported method takes the registry's mutex for the whole of its   *)
(* body, so each is one atomic action on the variable registry.  Save is   *)
(* the exception: it copies under the read lock and writes after it.       *)
(*                                                                         *)
(* A device is a record of the fields that decide anything: its ID, its    *)
(* address, sysObjectID, profile, failure count, the index of the          *)
(* credentials that found it (from 1), and the static mark.  Port and      *)
(* subnet are functions of the ID, LastSeen is never read, and the failure *)
(* count of a static device, which grows for ever and decides nothing, is  *)
(* not kept.                                                               *)
(***************************************************************************)
EXTENDS Naturals, FiniteSets, GoMap

CONSTANTS
    IDs,                \* device IDs (numbers: the registry snapshot is sorted by ID)
    Addresses,          \* hosts
    Objects,            \* sysObjectIDs
    Profiles,           \* profile names
    AllowedFailures     \* discovery.allowed_failures, clamped by NewRegistry

ASSUME AllowedFailuresAssumption == AllowedFailures \in Nat

VARIABLES
    registry,           \* Registry.devices: ID -> [id, addr, obj, profile, failures, auth, static]
    stored              \* what the storage extension holds for "devices"

(* The Go zero value of a string field.                                    *)
Unset == ""

(* What Save writes: static devices come from the configuration on every   *)
(* start.  Mutant: they are written too.                                   *)
PersistableAll(m) == m
Persistable(m) == Keep(m, {d \in DOMAIN m : ~m[d].static})

(* The second half of Save: the copy is written, if the storage lets it be.*)
(* Mutant: it never is.                                                    *)
WriteNothing(copy, written) == UNCHANGED stored
Write(copy, written) == stored' = IF written THEN copy ELSE stored

(* Load: a missing or unreadable record is an empty device set.            *)
Loaded(readable) == IF readable THEN stored ELSE EmptyMap

(* Devices, for the scheduler: copies of the records, of which no poll     *)
(* reads the failure count.                                                *)
Snapshot == [d \in DOMAIN registry |-> [registry[d] EXCEPT !.failures = 0]]

-----------------------------------------------------------------------------
(* Upsert, of one record: a refresh clears the failures, keeps what the    *)
(* new record does not know, and never clears the static mark.             *)

Known(new, old) == IF new # Unset THEN new ELSE old

(* Mutant: a refresh keeps the failure count.                              *)
FailuresKept(old)    == old.failures
FailuresCleared(old) == 0

(* Mutant: what found the device first is kept.                            *)
FirstAuth(old, new)  == old.auth
LatestAuth(old, new) == new.auth

Upserted(m, dev) ==
    IF dev.id \in DOMAIN m
    THEN [m[dev.id] EXCEPT !.addr = dev.addr,
                           !.auth = LatestAuth(m[dev.id], dev),
                           !.failures = FailuresCleared(m[dev.id]),
                           !.obj = Known(dev.obj, @),
                           !.profile = Known(dev.profile, @),
                           !.static = @ \/ dev.static]
    ELSE [dev EXCEPT !.failures = 0]

Upsert(dev) == registry' = Put(registry, dev.id, Upserted(registry, dev))

SetProfile(d, obj, profile) ==
    registry' =
        IF d \in DOMAIN registry
        THEN [registry EXCEPT ![d].obj = obj, ![d].profile = profile]
        ELSE registry

MarkSuccess(d) ==
    registry' = IF d \in DOMAIN registry THEN [registry EXCEPT ![d].failures = 0] ELSE registry

(* MarkFailure reports whether it dropped the device.                      *)
Drops(d) ==
    /\ d \in DOMAIN registry
    /\ ~registry[d].static
    /\ registry[d].failures + 1 > AllowedFailures

MarkFailure(d) ==
    registry' =
        IF d \notin DOMAIN registry \/ registry[d].static THEN registry
        ELSE IF Drops(d) THEN Delete(registry, d)
        ELSE [registry EXCEPT ![d].failures = @ + 1]
=============================================================================
