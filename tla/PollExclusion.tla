---------------------------- MODULE PollExclusion ----------------------------
(***************************************************************************)
(* What the poll loop of receiver.go promises the rest of the receiver,    *)
(* with nothing of how it keeps the promise:                               *)
(*                                                                         *)
(*   - a device is being polled by at most one poller at a time (two       *)
(*     concurrent polls would race on the device's builder and emit two    *)
(*     copies of its cumulative streams);                                  *)
(*   - a poll that has begun ends;                                         *)
(*   - once the run context is cancelled no poll begins, and the loop      *)
(*     finishes.                                                           *)
(*                                                                         *)
(* PollScheduler implements this specification; Receiver relies on it.     *)
(***************************************************************************)

CONSTANTS
    Devices,    \* device IDs
    Workers,    \* the pollers
    NoDevice    \* what an idle poller is polling, not a member of Devices

VARIABLES
    polling,    \* the device each poller is polling, or NoDevice
    stopping,   \* the run context has been cancelled
    finished    \* the poll loop has returned

vars == <<polling, stopping, finished>>

Init ==
    /\ polling = [w \in Workers |-> NoDevice]
    /\ stopping = FALSE
    /\ finished = FALSE

Begin(w, d) ==
    /\ ~stopping
    /\ polling[w] = NoDevice
    /\ \A v \in Workers : polling[v] # d
    /\ polling' = [polling EXCEPT ![w] = d]
    /\ UNCHANGED <<stopping, finished>>

End(w) ==
    /\ polling[w] # NoDevice
    /\ polling' = [polling EXCEPT ![w] = NoDevice]
    /\ UNCHANGED <<stopping, finished>>

Stop ==
    /\ ~stopping
    /\ stopping' = TRUE
    /\ UNCHANGED <<polling, finished>>

Finish ==
    /\ stopping
    /\ ~finished
    /\ \A w \in Workers : polling[w] = NoDevice
    /\ finished' = TRUE
    /\ UNCHANGED <<polling, stopping>>

Next ==
    \/ \E w \in Workers : End(w) \/ \E d \in Devices : Begin(w, d)
    \/ Stop
    \/ Finish

Spec == Init /\ [][Next]_vars

(* A poll that has begun ends, and the loop returns once it was told to.   *)
Fairness ==
    /\ \A w \in Workers : WF_vars(End(w))
    /\ WF_vars(Finish)

FairSpec == Spec /\ Fairness
=============================================================================
