------------------------- MODULE PollSchedulerProofs -------------------------
(***************************************************************************)
(* Proofs about PollScheduler, for every set of devices, every set of      *)
(* pollers, every interval and tick, every hash of the device IDs, and a   *)
(* clock of any length.                                                    *)
(***************************************************************************)
EXTENDS PollScheduler, TLAPS

-----------------------------------------------------------------------------
(* Slot arithmetic.                                                        *)

(* A slot advanced past a tick that it is not after: the smallest number   *)
(* of whole intervals that moves it beyond the tick.                       *)
LEMMA NextSlotBounds ==
    ASSUME NEW due \in Nat, NEW t \in Nat, due <= t
    PROVE  /\ NextSlot(due, t) \in Nat
           /\ NextSlot(due, t) > t
           /\ NextSlot(due, t) - Interval <= t
           /\ NextSlot(due, t) >= due + Interval
<1> DEFINE q == (t - due) \div Interval
<1>1. Interval \in Nat \ {0}
  BY IntervalAssumption
<1>2. q \in Nat /\ Interval * q <= t - due /\ t - due < Interval * q + Interval
  BY <1>1
<1>3. Interval * q \in Nat /\ Interval * (q + 1) = Interval * q + Interval
  BY <1>1, <1>2
<1>4. QED
  BY <1>1, <1>2, <1>3 DEF NextSlot

(* ... and it keeps its phase.                                             *)
LEMMA NextSlotPhase ==
    ASSUME NEW due \in Nat, NEW t \in Nat, due <= t
    PROVE  (NextSlot(due, t) - due) % Interval = 0
<1> DEFINE k == (t - due) \div Interval + 1
<1>1. Interval \in Nat \ {0} /\ k \in Int
  BY IntervalAssumption
<1>2. (Interval * k) % Interval = 0
  BY <1>1
<1>3. NextSlot(due, t) - due = Interval * k
  BY <1>1 DEF NextSlot
<1>4. QED
  BY <1>2, <1>3

(* offsetFor, of a hash of any size: a first slot lies within one interval.*)
LEMMA OffsetBounds ==
    ASSUME NEW d \in Devices PROVE Offset(d) \in 0..(Interval - 1)
BY IntervalAssumption, HashAssumption DEF Offset

-----------------------------------------------------------------------------
(* Types.                                                                  *)

(* Every step keeps every variable in its type; the maps hold times only   *)
(* for devices, a poller holds a device exactly between taking it and      *)
(* releasing it, and what is being offered is in the rest of the snapshot. *)
LEMMA TypeStep == TypeOK /\ [Next]_vars => TypeOK'
<1> SUFFICES ASSUME TypeOK, [Next]_vars PROVE TypeOK'
  OBVIOUS
<1>a. Interval \in Nat \ {0} /\ Tick \in Nat /\ NoDevice \notin Devices /\ Devices \subseteq Nat
  BY IntervalAssumption, WorkersAssumption, DevicesAssumption
<1> USE <1>a DEF TypeOK, Holding
<1>1. CASE ClockTick
  <2>1. clock' = clock + Tick /\ clock' \in Nat /\ clock' > clock /\ UNCHANGED now
    BY <1>1, IntervalAssumption DEF ClockTick, schedVars
  <2>2. now' \in 0..clock' /\ ticker' \subseteq (now' + 1)..clock'
    BY <1>1, <2>1 DEF ClockTick
  <2>3. QED
    BY <1>1, <2>1, <2>2 DEF ClockTick, schedVars, workerVars
<1>2. CASE Cancel
  BY <1>2 DEF Cancel, schedVars, workerVars, timeVars
<1>3. ASSUME NEW d \in Devices, Discover(d) PROVE TypeOK'
  BY <1>3 DEF Discover, schedVars, workerVars, timeVars
<1>4. CASE SchedTick
  <2>1. now' \in (now + 1)..clock /\ ticker' = {} /\ UNCHANGED <<clock, nextDue, sentAt>>
    BY <1>4 DEF SchedTick
  <2>2. \A d \in DOMAIN nextDue : nextDue[d] \in 0..(now' + Interval)
    BY <2>1
  <2>3. \A d \in DOMAIN sentAt : sentAt[d] \in 0..now'
    BY <2>1
  <2>4. QED
    BY <1>4, <2>1, <2>2, <2>3 DEF SchedTick, workerVars
<1>5. CASE SchedCancelled
  BY <1>5 DEF SchedCancelled, workerVars, timeVars
<1>6. CASE SkipSlot
  BY <1>6 DEF SkipSlot, ClaimUndone, workerVars, timeVars
<1>7. CASE PruneSlots
  BY <1>7 DEF Keep, PruneSlots, workerVars, timeVars
<1>8. CASE CloseJobs
  BY <1>8 DEF CloseJobs, workerVars, timeVars
<1>9. CASE Join
  BY <1>9 DEF Join, workerVars, timeVars
<1>10. ASSUME NEW d \in Devices, FirstSight(d) PROVE TypeOK'
  <2>1. now + Offset(d) \in 0..(now + Interval)
    BY OffsetBounds
  <2>2. /\ DOMAIN nextDue' \subseteq Devices
        /\ \A e \in DOMAIN nextDue' : nextDue'[e] \in 0..(now + Interval)
    BY <1>10, <2>1 DEF Put, FirstSight
  <2>3. DOMAIN sentAt' \subseteq Devices /\ \A e \in DOMAIN sentAt' : sentAt'[e] \in 0..now
    BY <1>10 DEF Keep, FirstSight, Delete
  <2>4. QED
    BY <1>10, <2>2, <2>3 DEF FirstSight, IsNext, workerVars, timeVars
<1>11. ASSUME NEW d \in Devices, PassOver(d) PROVE TypeOK'
  BY <1>11 DEF PassOver, IsNext, workerVars, timeVars
<1>12. ASSUME NEW d \in Devices, Claim(d) PROVE TypeOK'
  <2>1. NextSlot(nextDue[d], now) \in 0..(now + Interval)
    BY <1>12, NextSlotBounds DEF Claim
  <2>2. /\ DOMAIN nextDue' \subseteq Devices
        /\ \A e \in DOMAIN nextDue' : nextDue'[e] \in 0..(now + Interval)
    BY <1>12, <2>1 DEF Put, Claim
  <2>3. QED
    BY <1>12, <2>2 DEF Claim, IsNext, workerVars, timeVars
<1>13. ASSUME NEW w \in Workers, Handoff(w) PROVE TypeOK'
  <2>1. cur \in Devices
    BY <1>13 DEF Handoff
  <2>2. DOMAIN sentAt' \subseteq Devices /\ \A e \in DOMAIN sentAt' : sentAt'[e] \in 0..now
    BY <1>13, <2>1 DEF Put, Handoff
  <2>3. QED
    BY <1>13, <2>1, <2>2 DEF Handoff, timeVars
<1>14. ASSUME NEW w \in Workers, Poller(w) PROVE TypeOK'
  <2> USE DEF MoveTo, schedVars, timeVars
  <2>1. CASE Receive(w)     BY <2>1 DEF Receive
  <2>2. CASE Leave(w)       BY <2>2 DEF Leave
  <2>3. CASE StartPoll(w)   BY <2>3 DEF StartPoll
  <2>4. CASE RefusePoll(w)  BY <2>4 DEF RefusePoll
  <2>5. CASE EndPoll(w)     BY <2>5 DEF EndPoll
  <2>6. CASE Release(w)     BY <2>6 DEF Release
  <2>7. QED
    BY <1>14, <2>1, <2>2, <2>3, <2>4, <2>5, <2>6 DEF Poller
<1>15. CASE UNCHANGED vars
  BY <1>15 DEF vars
<1>16. QED
  BY <1>1, <1>2, <1>3, <1>4, <1>5, <1>6, <1>7, <1>8, <1>9, <1>10, <1>11, <1>12, <1>13,
     <1>14, <1>15 DEF Next, Scheduler, Environment

LEMMA InitTypes == Init => TypeOK
<1> SUFFICES ASSUME Init PROVE TypeOK
  OBVIOUS
<1>1. DOMAIN nextDue = {} /\ DOMAIN sentAt = {}
  BY DEF Init, EmptyMap
<1>2. \A w \in Workers : at[w] = "loop" /\ job[w] = NoDevice
  BY DEF Init
<1>3. at \in [Workers -> {"loop", "recv", "gone"} \cup Holding]
  BY DEF Init
<1>4. clock \in Nat /\ now \in 0..clock /\ ticker \subseteq (now + 1)..clock
  BY DEF Init
<1>5. job \in [Workers -> Devices \cup {NoDevice}]
  BY DEF Init
<1>6. QED
  BY WorkersAssumption, <1>1, <1>2, <1>3, <1>4, <1>5 DEF Init, TypeOK, Holding

(* Type correctness of the poll loop.                                      *)
THEOREM TypeCorrect == Spec => []TypeOK
BY InitTypes, TypeStep, PTL DEF Spec

-----------------------------------------------------------------------------
(* Mutual exclusion.  OnePollerPerDevice is not inductive alone: a second  *)
(* hand-off is excluded because a device is claimed in inFlight before it  *)
(* is offered, so that inFlight is exact and what is offered has no holder.*)

OfferedIsFree  == pc = "send" => Holders(cur) = {}
EndIsCancelled == pc \in {"close", "join", "done"} => cancelled

IInv ==
    /\ TypeOK
    /\ OnePollerPerDevice
    /\ InFlightExact
    /\ OfferedIsFree
    /\ EndIsCancelled

(* What a poller holds changes with its own places and jobs only.          *)
LEMMA HoldersUnchanged ==
    ASSUME UNCHANGED <<at, job>>, NEW d
    PROVE  Holders(d)' = Holders(d)
BY DEF Holders, Holding

(* A poller that stays on the same side of holding, with the same job,     *)
(* holds what it held.                                                     *)
LEMMA HoldersMoved ==
    ASSUME NEW w \in Workers, NEW place, MoveTo(w, place), UNCHANGED job,
           at \in [Workers -> {"loop", "recv", "gone"} \cup Holding],
           place \in Holding <=> at[w] \in Holding, NEW d
    PROVE  Holders(d)' = Holders(d)
BY DEF Holders, MoveTo, Holding

LEMMA SafetyStep == IInv /\ [Next]_vars => IInv'
<1> SUFFICES ASSUME IInv, [Next]_vars PROVE IInv'
  OBVIOUS
<1>a. TypeOK /\ TypeOK'
  BY TypeStep DEF IInv
<1> USE DEF IInv
(* The steps that leave the pollers, the claims and the offer alone.       *)
<1>b. ASSUME UNCHANGED <<at, job, inFlight>>, Offered' = Offered,
             pc' \in {"select", "loop", "send"} => pc \in {"select", "loop", "send"},
             pc' = "send" => pc = "send" /\ cur' = cur,
             EndIsCancelled'
      PROVE  IInv'
  <2>1. \A d : Holders(d)' = Holders(d)
    BY <1>b, HoldersUnchanged
  <2>2. OnePollerPerDevice'
    BY <2>1 DEF OnePollerPerDevice
  <2>3. InFlightExact'
    BY <1>b, <2>1 DEF InFlightExact
  <2>4. OfferedIsFree'
    BY <1>b, <2>1 DEF OfferedIsFree
  <2>5. QED
    BY <1>a, <1>b, <2>2, <2>3, <2>4
<1>1. CASE ClockTick
  BY <1>1, <1>b DEF ClockTick, schedVars, workerVars, Offered, EndIsCancelled
<1>2. CASE Cancel
  BY <1>2, <1>b DEF Cancel, schedVars, workerVars, Offered, EndIsCancelled
<1>3. ASSUME NEW d \in Devices, Discover(d) PROVE IInv'
  BY <1>3, <1>b DEF Discover, schedVars, workerVars, Offered, EndIsCancelled
<1>4. CASE SchedTick
  BY <1>4, <1>b DEF SchedTick, workerVars, Offered, EndIsCancelled
<1>5. CASE SchedCancelled
  <2>1. \A d : Holders(d)' = Holders(d)
    BY <1>5, HoldersUnchanged DEF SchedCancelled, workerVars
  <2>2. OnePollerPerDevice' /\ InFlightExact' /\ OfferedIsFree' /\ EndIsCancelled'
    BY <1>5, <2>1 DEF SchedCancelled, OnePollerPerDevice, InFlightExact, OfferedIsFree,
       EndIsCancelled
  <2>3. QED
    BY <1>a, <2>2
<1>6. CASE SkipSlot
  <2>1. \A d : Holders(d)' = Holders(d)
    BY <1>6, HoldersUnchanged DEF SkipSlot, workerVars
  <2>2. inFlight' = {d \in Devices : Holders(d) # {}}
    BY <1>6 DEF SkipSlot, ClaimUndone, InFlightExact, OfferedIsFree, Offered
  <2>3. InFlightExact'
    BY <1>6, <2>1, <2>2 DEF SkipSlot, InFlightExact, Offered
  <2>4. OnePollerPerDevice' /\ OfferedIsFree' /\ EndIsCancelled'
    BY <1>6, <2>1 DEF SkipSlot, OnePollerPerDevice, OfferedIsFree, EndIsCancelled
  <2>5. QED
    BY <1>a, <2>3, <2>4
<1>7. CASE PruneSlots
  BY <1>7, <1>b DEF PruneSlots, workerVars, Offered, EndIsCancelled
<1>8. CASE CloseJobs
  BY <1>8, <1>b DEF CloseJobs, workerVars, Offered, EndIsCancelled
<1>9. CASE Join
  BY <1>9, <1>b DEF Join, workerVars, Offered, EndIsCancelled
<1>10. ASSUME NEW d \in Devices, FirstSight(d) PROVE IInv'
  BY <1>10, <1>b DEF FirstSight, IsNext, workerVars, Offered, EndIsCancelled
<1>11. ASSUME NEW d \in Devices, PassOver(d) PROVE IInv'
  BY <1>11, <1>b DEF PassOver, IsNext, workerVars, Offered, EndIsCancelled
<1>12. ASSUME NEW d \in Devices, Claim(d) PROVE IInv'
  <2>1. \A e : Holders(e)' = Holders(e)
    BY <1>12, HoldersUnchanged DEF Claim, workerVars
  <2>2. Holders(d) = {}
    BY <1>12 DEF Claim, Busy, IsNext, InFlightExact
  <2>3. InFlightExact'
    BY <1>12, <2>1 DEF Claim, IsNext, InFlightExact, Offered
  <2>4. OnePollerPerDevice' /\ OfferedIsFree' /\ EndIsCancelled'
    BY <1>12, <2>1, <2>2 DEF Claim, OnePollerPerDevice, OfferedIsFree, EndIsCancelled
  <2>5. QED
    BY <1>a, <2>3, <2>4
<1>13. ASSUME NEW w \in Workers, Handoff(w) PROVE IInv'
  <2>1. cur \in Devices /\ job[w] = NoDevice /\ Holders(cur) = {}
    BY <1>13, <1>a DEF Handoff, TypeOK, Holding, OfferedIsFree
  <2>2. \A d \in Devices : d = cur => Holders(d)' = {w}
    BY <1>13, <1>a, <2>1 DEF Handoff, TypeOK, Holders, Holding
  <2>3. \A d \in Devices : d # cur => Holders(d)' = Holders(d)
    BY <1>13, <1>a, <2>1, WorkersAssumption DEF Handoff, TypeOK, Holders, Holding
  <2>4. OnePollerPerDevice'
    BY <2>2, <2>3 DEF OnePollerPerDevice
  <2>5. InFlightExact'
    BY <1>13, <2>1, <2>2, <2>3 DEF Handoff, InFlightExact, Offered
  <2>6. OfferedIsFree' /\ EndIsCancelled'
    BY <1>13 DEF Handoff, OfferedIsFree, EndIsCancelled
  <2>7. QED
    BY <1>a, <2>4, <2>5, <2>6
<1>14. ASSUME NEW w \in Workers, Poller(w) PROVE IInv'
  <2>1. UNCHANGED <<pc, cur, cancelled>> /\ Offered' = Offered /\ EndIsCancelled'
    BY <1>14 DEF Poller, Receive, Leave, StartPoll, RefusePoll, EndPoll, Release, schedVars,
       Offered, EndIsCancelled
  <2>2. CASE Release(w)
    <3>1. job[w] \in Devices /\ w \in Holders(job[w])
      BY <2>2, <1>a DEF Release, TypeOK, Holders, Holding
    <3>2. \A d \in Devices : Holders(d)' = Holders(d) \ {w}
      BY <2>2, <1>a, WorkersAssumption DEF Release, MoveTo, TypeOK, Holders, Holding
    <3>3. \A d \in Devices : d # job[w] => w \notin Holders(d)
      BY DEF Holders
    <3>4. OnePollerPerDevice'
      BY <3>2 DEF OnePollerPerDevice
    <3>5. \A d \in Devices : Holders(d)' = IF d = job[w] THEN {} ELSE Holders(d)
      BY <3>1, <3>2, <3>3 DEF OnePollerPerDevice
    <3>6. job[w] \notin Offered
      BY <3>1 DEF Offered, OfferedIsFree
    <3>7. InFlightExact'
      BY <2>1, <2>2, <3>5, <3>6 DEF Release, InFlightExact
    <3>8. OfferedIsFree'
      BY <2>1, <3>2, <1>a DEF OfferedIsFree, TypeOK
    <3>9. QED
      BY <1>a, <2>1, <3>4, <3>7, <3>8
  <2>3. ASSUME \A d : Holders(d)' = Holders(d), UNCHANGED inFlight
        PROVE  IInv'
    BY <1>a, <2>1, <2>3 DEF OnePollerPerDevice, InFlightExact, OfferedIsFree
  <2>4. at \in [Workers -> {"loop", "recv", "gone"} \cup Holding]
    BY <1>a DEF TypeOK
  <2>5. CASE Receive(w)
    BY <2>3, <2>4, <2>5, HoldersMoved DEF Receive, Holding
  <2>6. CASE Leave(w)
    BY <2>3, <2>4, <2>6, HoldersMoved DEF Leave, Holding
  <2>7. CASE StartPoll(w)
    BY <2>3, <2>4, <2>7, HoldersMoved DEF StartPoll, Holding
  <2>8. CASE RefusePoll(w)
    BY <2>3, <2>4, <2>8, HoldersMoved DEF RefusePoll, Holding
  <2>9. CASE EndPoll(w)
    BY <2>3, <2>4, <2>9, HoldersMoved DEF EndPoll, Holding
  <2>10. QED
    BY <1>14, <2>2, <2>5, <2>6, <2>7, <2>8, <2>9 DEF Poller
<1>15. CASE UNCHANGED vars
  BY <1>15, <1>b DEF vars, Offered, EndIsCancelled
<1>16. QED
  BY <1>1, <1>2, <1>3, <1>4, <1>5, <1>6, <1>7, <1>8, <1>9, <1>10, <1>11, <1>12, <1>13,
     <1>14, <1>15 DEF Next, Scheduler, Environment

LEMMA Safety == Spec => []IInv
<1>1. Init => IInv
  <2> SUFFICES ASSUME Init PROVE IInv
    OBVIOUS
  <2>1. TypeOK
    BY InitTypes
  <2>2. \A d : Holders(d) = {}
    BY DEF Init, Holders, Holding
  <2>3. QED
    BY <2>1, <2>2 DEF Init, IInv, OnePollerPerDevice, InFlightExact, OfferedIsFree,
       EndIsCancelled, Offered
<1>2. QED
  BY <1>1, SafetyStep, PTL DEF Spec

(* No two pollers ever hold the same device.                               *)
THEOREM MutualExclusion == Spec => []OnePollerPerDevice
BY Safety, PTL DEF IInv

(* No claim is leaked and none is missing while the loop runs.             *)
THEOREM ClaimsExact == Spec => []InFlightExact
BY Safety, PTL DEF IInv

-----------------------------------------------------------------------------
(* Slots.                                                                  *)

(* Three steps write nextDue: a first sight adds an entry, a claim         *)
(* advances one, the end of a tick removes some.                           *)
LEMMA SlotSteps ==
    ASSUME TypeOK, [Next]_vars
    PROVE  \/ \E d \in Devices : FirstSight(d)
           \/ \E d \in Devices : Claim(d)
           \/ PruneSlots
           \/ UNCHANGED nextDue
<1> USE DEF schedVars, workerVars, timeVars
<1>1. CASE Environment
  BY <1>1 DEF Environment, ClockTick, Cancel, Discover
<1>2. ASSUME NEW w \in Workers, Poller(w) PROVE UNCHANGED nextDue
  BY <1>2 DEF Poller, Receive, Leave, StartPoll, RefusePoll, EndPoll, Release
<1>3. CASE Scheduler
  BY <1>3 DEF Scheduler, SchedTick, SchedCancelled, SkipSlot, CloseJobs, Join, PassOver, Handoff
<1>4. CASE UNCHANGED vars
  BY <1>4 DEF vars
<1>5. QED
  BY <1>1, <1>2, <1>3, <1>4 DEF Next

(* A slot moves forward only, by whole intervals.                          *)
THEOREM PhaseIsKept == Spec => PhaseKept
<1> DEFINE Step == \A d \in DOMAIN nextDue \cap DOMAIN nextDue' :
                      /\ nextDue'[d] >= nextDue[d]
                      /\ (nextDue'[d] - nextDue[d]) % Interval = 0
<1>1. TypeOK /\ [Next]_vars => Step
  <2> SUFFICES ASSUME TypeOK, [Next]_vars,
                      NEW d \in DOMAIN nextDue, d \in DOMAIN nextDue'
               PROVE  /\ nextDue'[d] >= nextDue[d]
                      /\ (nextDue'[d] - nextDue[d]) % Interval = 0
    OBVIOUS
  <2>1. nextDue[d] \in Nat /\ now \in Nat /\ Interval \in Nat \ {0}
    BY IntervalAssumption DEF TypeOK
  <2>2. ASSUME nextDue'[d] = nextDue[d]
        PROVE  /\ nextDue'[d] >= nextDue[d]
               /\ (nextDue'[d] - nextDue[d]) % Interval = 0
    BY <2>1, <2>2
  <2>3. ASSUME NEW e \in Devices, FirstSight(e) PROVE nextDue'[d] = nextDue[d]
    BY <2>3 DEF FirstSight, Put
  <2>4. CASE PruneSlots
    BY <2>2, <2>4 DEF PruneSlots, Keep
  <2>5. ASSUME NEW e \in Devices, Claim(e), d # e PROVE nextDue'[d] = nextDue[d]
    BY <2>5 DEF Claim, Put
  <2>6. ASSUME Claim(d)
        PROVE  /\ nextDue'[d] >= nextDue[d]
               /\ (nextDue'[d] - nextDue[d]) % Interval = 0
    <3>1. nextDue[d] <= now /\ nextDue'[d] = NextSlot(nextDue[d], now)
      BY <2>6 DEF Claim, Put
    <3>2. QED
      BY <2>1, <3>1, NextSlotBounds, NextSlotPhase
  <2>7. QED
    BY <2>2, <2>3, <2>4, <2>5, <2>6, SlotSteps
<1>2. TypeOK /\ [Next]_vars => [Step]_vars
  BY <1>1
<1>3. QED
  BY <1>2, TypeCorrect, PTL DEF Spec, PhaseKept

(* The last hand-off of a device lies before its slot, and before the slot *)
(* it is being offered for by an interval at least.                        *)
SlotInv ==
    /\ pc = "send" => cur \in DOMAIN nextDue /\ now < nextDue[cur] /\ nextDue[cur] - Interval <= now
    /\ \A d \in DOMAIN sentAt \cap DOMAIN nextDue :
           sentAt[d] < IF pc = "send" /\ cur = d THEN nextDue[d] - Interval ELSE nextDue[d]

LEMMA SlotStep == TypeOK /\ SlotInv /\ [Next]_vars => SlotInv'
<1> SUFFICES ASSUME TypeOK, SlotInv, [Next]_vars PROVE SlotInv'
  OBVIOUS
<1>a. /\ Interval \in Nat \ {0} /\ now \in Nat
      /\ \A d \in DOMAIN nextDue : nextDue[d] \in Nat
      /\ \A d \in DOMAIN sentAt : sentAt[d] \in Nat
  BY IntervalAssumption DEF TypeOK
<1> USE DEF schedVars, workerVars, timeVars
<1>1. ASSUME UNCHANGED <<nextDue, sentAt>>,
             \/ UNCHANGED <<pc, cur, now>>
             \/ pc' # "send"
      PROVE  SlotInv'
  BY <1>1, <1>a DEF SlotInv
<1>2. CASE Environment
  BY <1>1, <1>2 DEF Environment, ClockTick, Cancel, Discover
<1>3. ASSUME NEW w \in Workers, Poller(w) PROVE SlotInv'
  BY <1>1, <1>3 DEF Poller, Receive, Leave, StartPoll, RefusePoll, EndPoll, Release
<1>4. CASE SchedTick \/ SchedCancelled \/ SkipSlot \/ CloseJobs \/ Join
  BY <1>1, <1>4 DEF SchedTick, SchedCancelled, SkipSlot, CloseJobs, Join
<1>5. ASSUME NEW d \in Devices, PassOver(d) PROVE SlotInv'
  BY <1>1, <1>5 DEF PassOver, IsNext
<1>6. ASSUME NEW d \in Devices, FirstSight(d) PROVE SlotInv'
  <2>1. pc' # "send" /\ pc # "send"
    BY <1>6 DEF FirstSight, IsNext
  <2>2. DOMAIN sentAt' = DOMAIN sentAt \ {d} /\ \A e \in DOMAIN sentAt' : sentAt'[e] = sentAt[e]
    BY <1>6 DEF FirstSight, Delete, Keep
  <2>3. \A e \in DOMAIN nextDue' : e # d => e \in DOMAIN nextDue /\ nextDue'[e] = nextDue[e]
    BY <1>6 DEF FirstSight, Put
  <2>4. QED
    BY <2>1, <2>2, <2>3 DEF SlotInv
<1>7. ASSUME NEW d \in Devices, Claim(d) PROVE SlotInv'
  <2>1. /\ pc = "loop" /\ pc' = "send" /\ cur' = d /\ now' = now /\ sentAt' = sentAt
        /\ d \in DOMAIN nextDue /\ nextDue[d] <= now
        /\ nextDue' = Put(nextDue, d, NextSlot(nextDue[d], now))
    BY <1>7 DEF Claim, IsNext
  <2>2. /\ DOMAIN nextDue' = DOMAIN nextDue
        /\ nextDue'[d] = NextSlot(nextDue[d], now)
        /\ \A e \in DOMAIN nextDue : e # d => nextDue'[e] = nextDue[e]
    BY <2>1 DEF Put
  <2>3. /\ nextDue'[d] \in Nat /\ nextDue'[d] > now /\ nextDue'[d] - Interval <= now
        /\ nextDue'[d] >= nextDue[d] + Interval
    BY <1>a, <2>1, <2>2, NextSlotBounds
  <2>4. d \in DOMAIN sentAt => sentAt[d] < nextDue'[d] - Interval
    BY <1>a, <2>1, <2>3 DEF SlotInv
  <2>5. QED
    BY <2>1, <2>2, <2>3, <2>4 DEF SlotInv
<1>8. ASSUME NEW w \in Workers, Handoff(w) PROVE SlotInv'
  <2>1. /\ pc = "send" /\ pc' = "loop" /\ nextDue' = nextDue
        /\ DOMAIN sentAt' = DOMAIN sentAt \cup {cur}
        /\ sentAt'[cur] = now
        /\ \A e \in DOMAIN sentAt : e # cur => sentAt'[e] = sentAt[e]
    BY <1>8 DEF Handoff, Put
  <2>2. QED
    BY <1>a, <2>1 DEF SlotInv
<1>9. CASE PruneSlots
  <2>1. /\ pc' = "select" /\ pc = "loop" /\ sentAt' = sentAt
        /\ DOMAIN nextDue' \subseteq DOMAIN nextDue
        /\ \A e \in DOMAIN nextDue' : nextDue'[e] = nextDue[e]
    BY <1>9 DEF PruneSlots, Keep
  <2>2. QED
    BY <2>1 DEF SlotInv
<1>10. CASE UNCHANGED vars
  BY <1>1, <1>10 DEF vars
<1>11. QED
  BY <1>2, <1>3, <1>4, <1>5, <1>6, <1>7, <1>8, <1>9, <1>10 DEF Next, Scheduler

(* Two hand-offs of a device never fall into the same interval of its own  *)
(* phase, whatever it missed in between.                                   *)
THEOREM NoCatchingUp == Spec => OnePollPerSlot
<1> DEFINE Step ==
      \A w \in Workers, d \in DOMAIN sentAt :
          (at[w] = "recv" /\ at'[w] = "got" /\ job'[w] = d) =>
              (now - nextDue[d]) \div Interval > (sentAt[d] - nextDue[d]) \div Interval
<1>1. Init => SlotInv
  BY DEF Init, SlotInv, EmptyMap
<1>2. TypeOK /\ SlotInv /\ [Next]_vars => [Step]_vars
  <2> SUFFICES ASSUME TypeOK, SlotInv, Next,
                      NEW w \in Workers, NEW d \in DOMAIN sentAt,
                      at[w] = "recv", at'[w] = "got", job'[w] = d
               PROVE  (now - nextDue[d]) \div Interval > (sentAt[d] - nextDue[d]) \div Interval
    OBVIOUS
  <2>1. PICK v \in Workers : Handoff(v)
    <3>1. at' # at /\ \A x \in Workers : Poller(x) => at'[w] # "got"
      BY DEF TypeOK, Poller, Receive, Leave, StartPoll, RefusePoll, EndPoll, Release, MoveTo
    <3>2. \E x \in Workers : Handoff(x)
      BY <3>1 DEF Next, Environment, Scheduler, ClockTick, Cancel, Discover, SchedTick,
         SchedCancelled, SkipSlot, PruneSlots, CloseJobs, Join, FirstSight, PassOver, Claim,
         workerVars
    <3>3. QED
      BY <3>2
  <2>2. v = w /\ d = cur /\ pc = "send"
    BY <2>1 DEF Handoff, TypeOK
  <2>3. /\ d \in DOMAIN nextDue /\ nextDue[d] \in Nat /\ now \in Nat /\ sentAt[d] \in Nat
        /\ Interval \in Nat \ {0}
    BY <2>2, IntervalAssumption DEF TypeOK, SlotInv
  <2>4. /\ now - nextDue[d] >= 0 - Interval
        /\ sentAt[d] - nextDue[d] < 0 - Interval
    BY <2>2, <2>3 DEF SlotInv
  <2>5. (now - nextDue[d]) \div Interval >= 0 - 1
    BY <2>3, <2>4
  <2>6. (sentAt[d] - nextDue[d]) \div Interval < 0 - 1
    BY <2>3, <2>4
  <2>7. QED
    BY <2>3, <2>5, <2>6
<1>3. QED
  BY <1>1, <1>2, SlotStep, TypeCorrect, PTL DEF Spec, OnePollPerSlot

-----------------------------------------------------------------------------
(* Refinement.                                                             *)

(* Every step of the poll loop is a step of PollExclusion or leaves what   *)
(* it speaks of alone: a poll begins only on a device no poller holds and  *)
(* only before the cancellation, and the loop finishes only after it, with *)
(* every poller gone.                                                      *)
THEOREM RefinesPollExclusion == Spec => Exclusion!Spec
<1> DEFINE polling == [w \in Workers |-> IF at[w] = "poll" THEN job[w] ELSE NoDevice]
<1>1. Init => Exclusion!Init
  BY DEF Init, Exclusion!Init
<1>2. IInv /\ [Next]_vars => [Exclusion!Next]_(Exclusion!vars)
  <2> SUFFICES ASSUME IInv, [Next]_vars PROVE [Exclusion!Next]_(Exclusion!vars)
    OBVIOUS
  <2>a. TypeOK /\ OnePollerPerDevice /\ EndIsCancelled
    BY DEF IInv
  <2>b. /\ at \in [Workers -> {"loop", "recv", "gone"} \cup Holding]
        /\ job \in [Workers -> Devices \cup {NoDevice}]
        /\ \A w \in Workers : at[w] \in Holding <=> job[w] # NoDevice
    BY <2>a DEF TypeOK
  <2>c. ASSUME polling' = polling, UNCHANGED cancelled, (pc = "done")' = (pc = "done")
        PROVE  UNCHANGED Exclusion!vars
    BY <2>c DEF Exclusion!vars
  <2>1. CASE Cancel
    <3>1. polling' = polling /\ ((pc = "done")' = (pc = "done")) /\ ~cancelled /\ cancelled'
      BY <2>1 DEF Cancel, workerVars, schedVars
    <3>2. Exclusion!Stop
      BY <2>1, <3>1 DEF Cancel, Exclusion!Stop
    <3>3. QED
      BY <3>2 DEF Exclusion!Next
  <2>2. CASE Join
    <3>1. cancelled /\ pc # "done" /\ pc' = "done" /\ UNCHANGED <<at, job, cancelled>>
      BY <2>2, <2>a DEF Join, EndIsCancelled, workerVars
    <3>2. \A w \in Workers : polling[w] = NoDevice
      BY <2>2 DEF Join
    <3>3. Exclusion!Finish
      BY <3>1, <3>2 DEF Exclusion!Finish
    <3>4. QED
      BY <3>3 DEF Exclusion!Next
  <2>3. ASSUME UNCHANGED <<at, job, cancelled>>, (pc = "done")' = (pc = "done")
        PROVE  UNCHANGED Exclusion!vars
    BY <2>3, <2>c
  <2>4. ASSUME ClockTick \/ \E d \in Devices : Discover(d)
        PROVE  UNCHANGED Exclusion!vars
    BY <2>3, <2>4 DEF ClockTick, Discover, workerVars, schedVars
  <2>5. ASSUME \/ SchedTick \/ SchedCancelled \/ SkipSlot \/ PruneSlots \/ CloseJobs
               \/ \E d \in Devices : FirstSight(d) \/ PassOver(d) \/ Claim(d)
        PROVE  UNCHANGED Exclusion!vars
    BY <2>3, <2>5 DEF SchedTick, SchedCancelled, SkipSlot, PruneSlots, CloseJobs, FirstSight,
       PassOver, Claim, IsNext, workerVars
  <2>6. ASSUME NEW w \in Workers, Handoff(w) PROVE UNCHANGED Exclusion!vars
    <3>1. polling' = polling
      BY <2>6, <2>b DEF Handoff
    <3>2. QED
      BY <2>6, <2>c, <3>1 DEF Handoff
  <2>7. ASSUME NEW w \in Workers, Poller(w) PROVE [Exclusion!Next]_(Exclusion!vars)
    <3>0. UNCHANGED <<pc, cancelled>>
      BY <2>7 DEF Poller, Receive, Leave, StartPoll, RefusePoll, EndPoll, Release, schedVars
    <3>1. CASE StartPoll(w)
      <4>1. PICK d \in Devices : d = job[w]
        BY <3>1, <2>b DEF StartPoll, Holding
      <4>2. \A v \in Workers : polling[v] # d
        BY <3>1, <4>1, <2>a, WorkersAssumption DEF StartPoll, OnePollerPerDevice, Holders, Holding
      <4>3. polling[w] = NoDevice /\ polling' = [polling EXCEPT ![w] = d]
        BY <3>1, <4>1, <2>b DEF StartPoll, MoveTo
      <4>4. Exclusion!Begin(w, d)
        BY <3>0, <3>1, <4>2, <4>3 DEF StartPoll, Exclusion!Begin
      <4>5. QED
        BY <4>4 DEF Exclusion!Next
    <3>2. CASE EndPoll(w)
      <4>1. polling[w] # NoDevice /\ polling' = [polling EXCEPT ![w] = NoDevice]
        BY <3>2, <2>b DEF EndPoll, MoveTo, Holding
      <4>2. Exclusion!End(w)
        BY <3>0, <4>1 DEF Exclusion!End
      <4>3. QED
        BY <4>2 DEF Exclusion!Next
    <3>3. CASE Receive(w) \/ Leave(w) \/ RefusePoll(w) \/ Release(w)
      <4>1. polling' = polling
        BY <3>3, <2>b DEF Receive, Leave, RefusePoll, Release, MoveTo
      <4>2. QED
        BY <3>0, <4>1, <2>c
    <3>4. QED
      BY <2>7, <3>1, <3>2, <3>3 DEF Poller
  <2>8. CASE UNCHANGED vars
    BY <2>3, <2>8 DEF vars
  <2>9. QED
    BY <2>1, <2>2, <2>4, <2>5, <2>6, <2>7, <2>8 DEF Next, Scheduler, Environment
<1>3. QED
  BY <1>1, <1>2, Safety, PTL DEF Spec, Exclusion!Spec
=============================================================================
