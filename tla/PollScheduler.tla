---------------------------- MODULE PollScheduler ----------------------------
(***************************************************************************)
(* snmpReceiver.pollLoop of receiver.go: the goroutine that decides, at    *)
(* every tick, which devices are due, and hands them to a fixed pool of    *)
(* poller goroutines over an unbuffered channel.                           *)
(*                                                                         *)
(*   scheduler    select -> loop <-> send -> select ...   (a tick)         *)
(*                select/send -> close -> join -> done    (a shutdown)     *)
(*   poller       loop -> recv -> got -> poll -> release -> loop ...       *)
(*                loop/recv -> gone                       (jobs closed)    *)
(*                                                                         *)
(* A poll itself (pollDevice) is one long step here: it ends when it ends, *)
(* and all it does to the loop's state is that it may have dropped its     *)
(* device from the registry.  Device IDs are numbers because the registry  *)
(* snapshot is sorted by ID.                                               *)
(***************************************************************************)
EXTENDS Integers, FiniteSets, GoMap

CONSTANTS
    Devices,    \* device IDs, a finite set of numbers
    Workers,    \* the pollers (cfg.Pollers goroutines)
    NoDevice,   \* the job of a poller that has none
    Interval,   \* collection_interval
    Tick,       \* the ticker's period, min(schedulerTick, Interval)
    Hash,       \* the FNV-1a hash of each device ID, an unsigned word
    Word,       \* number of values of a word (2^64 in the code)
    MaxTime     \* BOUND: the clock stops here (no bound in the code)

ASSUME DevicesAssumption  == Devices \subseteq Nat /\ IsFiniteSet(Devices)
ASSUME WorkersAssumption  == NoDevice \notin Devices
ASSUME IntervalAssumption == Interval \in Nat \ {0} /\ Tick \in 1..Interval
ASSUME HashAssumption     == Word \in Nat /\ Hash \in [Devices -> 0..(Word - 1)]
ASSUME MaxTimeAssumption  == MaxTime \in Nat

VARIABLES
    clock,      \* wall clock
    ticker,     \* the ticker channel (capacity 1): {} or {the time it fired}
    members,    \* IDs registered in the device registry
    pc,         \* where the scheduler goroutine is
    now,        \* the tick value it is working on
    live,       \* the snapshot it took at this tick
    remaining,  \* the part of the snapshot the for loop has not reached
    cur,        \* the device it is offering to the pollers
    nextDue,    \* map: device ID -> when its next poll is due
    inFlight,   \* set guarded by inFlightMu: devices claimed and not released
    at,         \* where each poller goroutine is
    job,        \* the device each poller holds
    cancelled,  \* the run context is done
    closed,     \* the jobs channel is closed
    sentAt      \* HISTORY: tick at which a device was last handed to a poller

schedVars  == <<pc, now, live, remaining, cur, nextDue>>
workerVars == <<at, job>>
timeVars   == <<clock, ticker>>
vars == <<clock, ticker, members, pc, now, live, remaining, cur, nextDue,
          inFlight, at, job, cancelled, closed, sentAt>>

(* The slot a due device moves to: due advanced in whole intervals until   *)
(* it is after the tick.  Mutants: re-armed from the tick; advanced once.  *)
RearmFromTick(due, t)  == t + Interval
AdvanceOnce(due, t)    == due + Interval
NextSlot(due, t) == due + Interval * ((t - due) \div Interval + 1)

Init ==
    /\ clock = 0
    /\ ticker = {}
    /\ members \in SUBSET Devices
    /\ pc = "select"
    /\ now = 0
    /\ live = {}
    /\ remaining = {}
    /\ cur = NoDevice
    /\ nextDue = EmptyMap
    /\ inFlight = {}
    /\ at = [w \in Workers |-> "loop"]
    /\ job = [w \in Workers |-> NoDevice]
    /\ cancelled = FALSE
    /\ closed = FALSE
    /\ sentAt = EmptyMap

-----------------------------------------------------------------------------
(* The environment: time, the scanner, Shutdown.                           *)

(* The ticker fires; a tick the scheduler has not taken yet makes it drop  *)
(* this one.                                                               *)
ClockTick ==
    /\ clock + Tick <= MaxTime
    /\ clock' = clock + Tick
    /\ ticker' = IF ticker = {} THEN {clock + Tick} ELSE ticker
    /\ UNCHANGED <<members, schedVars, inFlight, workerVars, cancelled, closed, sentAt>>

(* A scan registers a device.                                              *)
Discover(d) ==
    /\ d \notin members
    /\ members' = members \cup {d}
    /\ UNCHANGED <<timeVars, schedVars, inFlight, workerVars, cancelled, closed, sentAt>>

(* Shutdown cancels the run context.                                       *)
Cancel ==
    /\ ~cancelled
    /\ cancelled' = TRUE
    /\ UNCHANGED <<timeVars, members, schedVars, inFlight, workerVars, closed, sentAt>>

-----------------------------------------------------------------------------
(* The scheduler goroutine.                                                *)

SchedTick ==
    /\ pc = "select"
    /\ \E t \in ticker : now' = t
    /\ ticker' = {}
    /\ live' = members
    /\ remaining' = members
    /\ pc' = "loop"
    /\ UNCHANGED <<clock, members, cur, nextDue, inFlight, workerVars, cancelled, closed, sentAt>>

(* d is the device the for loop is at: the snapshot is sorted by ID.       *)
IsNext(d) ==
    /\ pc = "loop"
    /\ d \in remaining
    /\ \A e \in remaining : d <= e

(* offsetFor: the remainder of the unsigned hash.  Mutant: the hash is      *)
(* converted to a Duration before the remainder is taken; it is negative   *)
(* when its top bit is set, and then so is Go's remainder.                 *)
OffsetSigned(d) ==
    IF 2 * Hash[d] < Word THEN Hash[d] % Interval ELSE -((Word - Hash[d]) % Interval)
Offset(d) == Hash[d] % Interval

(* A device seen for the first time gets its slot, and no poll.            *)
FirstSight(d) ==
    /\ IsNext(d)
    /\ d \notin DOMAIN nextDue
    /\ nextDue' = Put(nextDue, d, now + Offset(d))
    /\ remaining' = remaining \ {d}
    /\ sentAt' = Delete(sentAt, d)
    /\ UNCHANGED <<timeVars, members, pc, now, live, cur, inFlight, workerVars, cancelled, closed>>

(* Mutant: no test of inFlight.                                            *)
NeverBusy(d) == FALSE
Busy(d)      == d \in inFlight

(* Not due yet, or due while its previous poll is still running: the slot  *)
(* is left as it is.                                                       *)
PassOver(d) ==
    /\ IsNext(d)
    /\ d \in DOMAIN nextDue
    /\ nextDue[d] > now \/ Busy(d)
    /\ remaining' = remaining \ {d}
    /\ UNCHANGED <<timeVars, members, pc, now, live, cur, nextDue, inFlight, workerVars,
                   cancelled, closed, sentAt>>

(* Due and idle: claimed, and its slot advanced, before it is offered.     *)
Claim(d) ==
    /\ IsNext(d)
    /\ d \in DOMAIN nextDue
    /\ nextDue[d] <= now
    /\ ~Busy(d)
    /\ inFlight' = inFlight \cup {d}
    /\ nextDue' = Put(nextDue, d, NextSlot(nextDue[d], now))
    /\ cur' = d
    /\ pc' = "send"
    /\ UNCHANGED <<timeVars, members, now, live, remaining, workerVars, cancelled, closed, sentAt>>

(* case jobs <- device: only to a poller that is waiting at its receive.   *)
Handoff(w) ==
    /\ pc = "send"
    /\ at[w] = "recv"
    /\ at' = [at EXCEPT ![w] = "got"]
    /\ job' = [job EXCEPT ![w] = cur]
    /\ sentAt' = Put(sentAt, cur, now)
    /\ remaining' = remaining \ {cur}
    /\ cur' = NoDevice
    /\ pc' = "loop"
    /\ UNCHANGED <<timeVars, members, now, live, nextDue, inFlight, cancelled, closed>>

(* Mutant: the default case forgets to undo the claim.                     *)
ClaimKept   == inFlight
ClaimUndone == inFlight \ {cur}

(* default: every poller is busy, so the claim is undone and the slot is   *)
(* lost.  Go takes the default only when no other case is ready.           *)
SkipSlot ==
    /\ pc = "send"
    /\ ~cancelled
    /\ \A w \in Workers : at[w] # "recv"
    /\ inFlight' = ClaimUndone
    /\ remaining' = remaining \ {cur}
    /\ cur' = NoDevice
    /\ pc' = "loop"
    /\ UNCHANGED <<timeVars, members, now, live, nextDue, workerVars, cancelled, closed, sentAt>>

(* case <-ctx.Done(), in either select: return, which runs the deferred    *)
(* function.  A device being offered keeps its entry in inFlight.          *)
SchedCancelled ==
    /\ pc \in {"select", "send"}
    /\ cancelled
    /\ pc' = "close"
    /\ UNCHANGED <<timeVars, members, now, live, remaining, cur, nextDue, inFlight, workerVars,
                   cancelled, closed, sentAt>>

(* End of the tick: slots of devices no longer in the snapshot are pruned. *)
PruneSlots ==
    /\ pc = "loop"
    /\ remaining = {}
    /\ nextDue' = Keep(nextDue, live)
    /\ pc' = "select"
    /\ UNCHANGED <<timeVars, members, now, live, remaining, cur, inFlight, workerVars,
                   cancelled, closed, sentAt>>

(* Mutant: return without close(jobs).                                     *)
LeaveJobsOpen ==
    /\ pc = "close"
    /\ pc' = "join"
    /\ UNCHANGED <<timeVars, members, now, live, remaining, cur, nextDue, inFlight, workerVars,
                   cancelled, closed, sentAt>>

CloseJobs ==
    /\ pc = "close"
    /\ closed' = TRUE
    /\ pc' = "join"
    /\ UNCHANGED <<timeVars, members, now, live, remaining, cur, nextDue, inFlight, workerVars,
                   cancelled, sentAt>>

(* workers.Wait() returns.                                                 *)
Join ==
    /\ pc = "join"
    /\ \A w \in Workers : at[w] = "gone"
    /\ pc' = "done"
    /\ UNCHANGED <<timeVars, members, now, live, remaining, cur, nextDue, inFlight, workerVars,
                   cancelled, closed, sentAt>>

-----------------------------------------------------------------------------
(* A poller goroutine: for device := range jobs.                           *)

MoveTo(w, place) == at' = [at EXCEPT ![w] = place]

(* Nothing is buffered in jobs, so a closed channel ends the range at once.*)
Receive(w) ==
    /\ at[w] = "loop"
    /\ MoveTo(w, "recv")
    /\ UNCHANGED <<timeVars, members, schedVars, inFlight, job, cancelled, closed, sentAt>>

Leave(w) ==
    /\ at[w] = "recv"
    /\ closed
    /\ MoveTo(w, "gone")
    /\ UNCHANGED <<timeVars, members, schedVars, inFlight, job, cancelled, closed, sentAt>>

(* Mutant: pollDevice without its test of the context.                     *)
StartPollUnchecked(w) ==
    /\ at[w] = "got"
    /\ MoveTo(w, "poll")
    /\ UNCHANGED <<timeVars, members, schedVars, inFlight, job, cancelled, closed, sentAt>>

(* pollDevice starts with a test of the context.                           *)
StartPoll(w) ==
    /\ at[w] = "got"
    /\ ~cancelled
    /\ MoveTo(w, "poll")
    /\ UNCHANGED <<timeVars, members, schedVars, inFlight, job, cancelled, closed, sentAt>>

RefusePoll(w) ==
    /\ at[w] = "got"
    /\ cancelled
    /\ MoveTo(w, "release")
    /\ UNCHANGED <<timeVars, members, schedVars, inFlight, job, cancelled, closed, sentAt>>

(* The poll returns; a failed one may have dropped the device.             *)
EndPoll(w) ==
    /\ at[w] = "poll"
    /\ members' \in {members, members \ {job[w]}}
    /\ MoveTo(w, "release")
    /\ UNCHANGED <<timeVars, schedVars, inFlight, job, cancelled, closed, sentAt>>

Release(w) ==
    /\ at[w] = "release"
    /\ inFlight' = inFlight \ {job[w]}
    /\ job' = [job EXCEPT ![w] = NoDevice]
    /\ MoveTo(w, "loop")
    /\ UNCHANGED <<timeVars, members, schedVars, cancelled, closed, sentAt>>

-----------------------------------------------------------------------------
Scheduler ==
    \/ SchedTick \/ SchedCancelled \/ SkipSlot \/ PruneSlots \/ CloseJobs \/ Join
    \/ \E d \in Devices : FirstSight(d) \/ PassOver(d) \/ Claim(d)
    \/ \E w \in Workers : Handoff(w)

Poller(w) ==
    Receive(w) \/ Leave(w) \/ StartPoll(w) \/ RefusePoll(w) \/ EndPoll(w) \/ Release(w)

Environment == ClockTick \/ Cancel \/ \E d \in Devices : Discover(d)

Next == Scheduler \/ Environment \/ \E w \in Workers : Poller(w)

Spec == Init /\ [][Next]_vars

(* Go runs every runnable goroutine; every SNMP exchange has a timeout and *)
(* a retry limit, so a poll returns.  Nothing is assumed of the scanner or *)
(* of Shutdown.                                                            *)
Fairness ==
    /\ WF_vars(Scheduler)
    /\ \A w \in Workers : WF_vars(Poller(w))

FairSpec == Spec /\ Fairness

-----------------------------------------------------------------------------
Holding == {"got", "poll", "release"}
Holders(d) == {w \in Workers : at[w] \in Holding /\ job[w] = d}
Offered    == IF pc = "send" THEN {cur} ELSE {}

(* Types.  Times are ordered: the tick being worked on is in the past, the *)
(* one waiting in the channel after it, and a slot is never before time    *)
(* zero nor more than an interval away from the last tick, whatever the    *)
(* hash of its device (offsetFor) and however late its polls were.         *)
TypeOK ==
    /\ clock \in Nat /\ now \in 0..clock
    /\ ticker \subseteq (now + 1)..clock
    /\ members \subseteq Devices
    /\ pc \in {"select", "loop", "send", "close", "join", "done"}
    /\ live \subseteq Devices
    /\ remaining \subseteq live
    /\ cur \in Devices \cup {NoDevice}
    /\ pc = "send" => cur \in remaining
    /\ DOMAIN nextDue \subseteq Devices
    /\ \A d \in DOMAIN nextDue : nextDue[d] \in 0..(now + Interval)
    /\ inFlight \subseteq Devices
    /\ at \in [Workers -> {"loop", "recv", "gone"} \cup Holding]
    /\ job \in [Workers -> Devices \cup {NoDevice}]
    /\ \A w \in Workers : at[w] \in Holding <=> job[w] # NoDevice
    /\ cancelled \in BOOLEAN /\ closed \in BOOLEAN
    /\ DOMAIN sentAt \subseteq Devices
    /\ \A d \in DOMAIN sentAt : sentAt[d] \in 0..now

(* The comment on inFlight: a device whose poll outlasts the interval, is  *)
(* dropped and rediscovered, or is offered again at the next tick is never *)
(* in the hands of two pollers.                                            *)
OnePollerPerDevice ==
    \A d \in Devices : \A v, w \in Holders(d) : v = w

(* While the loop runs, inFlight is exactly the devices in some poller's   *)
(* hands plus the one being offered: an entry that outlives its poll would *)
(* make the device "busy" for ever, a missing one would allow a second     *)
(* poll.  Only the return inside the select may leave an entry behind.     *)
InFlightExact ==
    pc \in {"select", "loop", "send"} =>
        inFlight = {d \in Devices : Holders(d) # {}} \cup Offered

(* "Advance in whole intervals to keep the device's phase": however late a *)
(* poll was, a slot only ever moves forward, by whole intervals.           *)
PhaseKept ==
    [][\A d \in DOMAIN nextDue \cap DOMAIN nextDue' :
            /\ nextDue'[d] >= nextDue[d]
            /\ (nextDue'[d] - nextDue[d]) % Interval = 0]_vars

(* No catching up: however many slots a slow poll, a lost tick or a        *)
(* saturated pool made a device miss, two hand-offs of it never fall in    *)
(* the same collection interval (intervals counted on its own phase).      *)
OnePollPerSlot ==
    [][\A w \in Workers, d \in DOMAIN sentAt :
            (at[w] = "recv" /\ at'[w] = "got" /\ job'[w] = d) =>
                (now - nextDue[d]) \div Interval > (sentAt[d] - nextDue[d]) \div Interval]_vars

(* Shutdown: cancelling ends the loop, so the receiver's wg.Wait returns,  *)
(* wherever the scheduler and the pollers were.                            *)
Terminates == cancelled ~> (pc = "done")

(* "Skipping is better than queueing without bound; the next slot will try *)
(* again": a device that stays registered is offered to the pollers again  *)
(* and again for as long as the loop runs, whatever slots it lost to slow  *)
(* polls or to a saturated pool.  (Nothing promises that an offer succeeds.)*)
OfferedForEver ==
    \A d \in Devices :
        (<>[](d \in members) /\ []~cancelled) => []<>(pc = "send" /\ cur = d)

(* PollExclusion, seen through what the pollers hold.                      *)
Exclusion == INSTANCE PollExclusion WITH
    polling  <- [w \in Workers |-> IF at[w] = "poll" THEN job[w] ELSE NoDevice],
    stopping <- cancelled,
    finished <- (pc = "done")

(* The poll loop implements PollExclusion, its liveness included: polls    *)
(* end, none begins after the cancellation, and the loop finishes.         *)
ImplementsPollExclusion == Exclusion!FairSpec
=============================================================================
