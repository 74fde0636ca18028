--------------------------- MODULE MCPollScheduler ---------------------------
(***************************************************************************)
(* PollScheduler for TLC.                                                  *)
(***************************************************************************)
EXTENDS PollScheduler

(* Words of four bits: the hash of device 1 has its top bit set.  Offsets  *)
(* 2 and 0 in an interval of 3, 0 and 1 in one of 2, so that the devices'  *)
(* slots differ.                                                           *)
MCHash == [d \in Devices |-> IF d = 1 THEN 14 ELSE 3]

-----------------------------------------------------------------------------
(* Time without end.  The loop only compares times with each other, and an *)
(* overdue slot only by its phase, so when the clock reaches its bound and *)
(* the scheduler waits for a tick, every time can move back by whole       *)
(* intervals.  now is dead there; the history variable is cleared.         *)
Rebase ==
    /\ pc = "select" /\ ticker = {}
    /\ clock + Tick > MaxTime /\ clock >= 2 * Interval
    /\ clock' = clock - Interval
    /\ now' = 0
    /\ nextDue' = [d \in DOMAIN nextDue |->
          IF nextDue[d] >= Interval THEN nextDue[d] - Interval ELSE nextDue[d]]
    /\ sentAt' = Keep(sentAt, {})
    /\ UNCHANGED <<ticker, members, pc, live, remaining, cur, inFlight, workerVars,
                   cancelled, closed>>

(* Time passes, and the goroutines run.                                    *)
ForeverSpec ==
    /\ Init
    /\ [][Next \/ Rebase]_vars
    /\ Fairness
    /\ WF_vars(ClockTick)
    /\ WF_vars(Rebase)
=============================================================================
