----------------------------- MODULE SubnetScan -----------------------------
(***************************************************************************)
(* Scanner.Scan of internal/discovery/scan.go: a feeder, a pool of probing *)
(* workers, a closer and the collecting caller, joined by two unbuffered   *)
(* channels.                                                               *)
(*                                                                         *)
(*   feeder --jobs--> workers --results--> collector (the caller of Scan)  *)
(*                                                                         *)
(* The feeder closes jobs, the closer closes results when every worker is  *)
(* gone, and only that ends the collector: a cancelled context reaches it  *)
(* through the others.                                                     *)
(***************************************************************************)
EXTENDS Naturals, FiniteSets

CONSTANTS
    Addresses,      \* ExpandCIDR of the subnet (numbers: probed in order)
    Ignored,        \* ignored_addresses
    Credentials,    \* credential sets are tried in this order: 1..n
    Workers,        \* discovery.workers
    MayCancel,      \* the run context may be cancelled
    NoAddress

ASSUME ScanAssumptions ==
    /\ Addresses \subseteq Nat /\ IsFiniteSet(Addresses) /\ NoAddress \notin Addresses
    /\ Credentials \in Nat \ {0}
    /\ Workers # {}

VARIABLES
    accepts,    \* the network: which credential sets each address answers
    cancelled,  \* the context is done
    feed,       \* addresses the feeder has not reached
    offered,    \* the address in the feeder's select, or NoAddress
    jobsClosed, resultsClosed,
    at,         \* where each worker is
    job,        \* the address each worker is probing
    cred,       \* the credential set it tries next
    outcome,    \* the result it is about to send: {} or {credential set}
    found,      \* the collector's slice, as a set of <<address, credential set>>
    returned    \* Scan has returned

vars == <<accepts, cancelled, feed, offered, jobsClosed, resultsClosed, at, job, cred, outcome,
          found, returned>>

feedVars    == <<feed, offered, jobsClosed>>
workVars    == <<at, job, cred, outcome>>
collectVars == <<found, returned>>

Init ==
    /\ accepts \in [Addresses -> SUBSET (1..Credentials)]
    /\ cancelled = FALSE
    /\ feed = Addresses
    /\ offered = NoAddress
    /\ jobsClosed = FALSE /\ resultsClosed = FALSE
    /\ at = [w \in Workers |-> "recv"]
    /\ job = [w \in Workers |-> NoAddress]
    /\ cred = [w \in Workers |-> 1]
    /\ outcome = [w \in Workers |-> {}]
    /\ found = {}
    /\ returned = FALSE

Cancel ==
    /\ MayCancel
    /\ ~cancelled
    /\ ~returned
    /\ cancelled' = TRUE
    /\ UNCHANGED <<accepts, feedVars, resultsClosed, workVars, collectVars>>

-----------------------------------------------------------------------------
(* The feeder.                                                             *)

FeedNext(a) ==
    /\ offered = NoAddress /\ ~jobsClosed
    /\ a \in feed /\ \A b \in feed : a <= b
    /\ feed' = feed \ {a}
    /\ offered' = IF a \in Ignored THEN NoAddress ELSE a
    /\ UNCHANGED <<accepts, cancelled, jobsClosed, resultsClosed, workVars, collectVars>>

(* Mutant: the credential sets are not tried afresh for the next address.  *)
SameCredential(w)  == cred[w]
FirstCredential(w) == 1

(* case jobs <- address                                                    *)
TakeJob(w) ==
    /\ offered # NoAddress
    /\ at[w] = "recv"
    /\ at' = [at EXCEPT ![w] = "probe"]
    /\ job' = [job EXCEPT ![w] = offered]
    /\ cred' = [cred EXCEPT ![w] = FirstCredential(w)]
    /\ offered' = NoAddress
    /\ UNCHANGED <<accepts, cancelled, feed, jobsClosed, resultsClosed, outcome, collectVars>>

(* Mutant: the feeder does not look at the context.                        *)
AllFed == offered = NoAddress /\ feed = {}
Fed    == AllFed \/ (offered # NoAddress /\ cancelled)

(* Every address was offered, or case <-ctx.Done(): close(jobs).           *)
FeedEnd ==
    /\ ~jobsClosed
    /\ Fed
    /\ jobsClosed' = TRUE
    /\ offered' = NoAddress
    /\ UNCHANGED <<accepts, cancelled, feed, resultsClosed, workVars, collectVars>>

-----------------------------------------------------------------------------
(* A worker.                                                               *)

(* Mutant: the loop does not stop at the last credential set.              *)
NeverTried(w) == FALSE
AllTried(w)   == cred[w] > Credentials

(* probe: one credential set.  It answers, which ends the probe, or not.   *)
Probe(w) ==
    /\ at[w] = "probe"
    /\ ~cancelled
    /\ ~AllTried(w)
    /\ IF cred[w] \in accepts[job[w]]
       THEN /\ outcome' = [outcome EXCEPT ![w] = {cred[w]}]
            /\ at' = [at EXCEPT ![w] = "send"]
            /\ UNCHANGED cred
       ELSE /\ cred' = [cred EXCEPT ![w] = @ + 1]
            /\ UNCHANGED <<at, outcome>>
    /\ UNCHANGED <<accepts, cancelled, feedVars, resultsClosed, job, collectVars>>

(* Mutant: the outcome of the previous probe is not reset.                 *)
SameOutcome(w) == outcome[w]
NotFound(w)    == {}

(* No credential set left, the context cancelled before the next one, or   *)
(* cancelled inside ProbeSysObjectID, whose Fetch then reads nothing.      *)
ProbeFails(w) ==
    /\ at[w] = "probe"
    /\ AllTried(w) \/ cancelled
    /\ outcome' = [outcome EXCEPT ![w] = NotFound(w)]
    /\ at' = [at EXCEPT ![w] = "send"]
    /\ UNCHANGED <<accepts, cancelled, feedVars, resultsClosed, job, cred, collectVars>>

(* case results <- ...: the collector, which does nothing but receive,     *)
(* takes the result and keeps it if a device was found.                    *)
SendResult(w) ==
    /\ at[w] = "send"
    /\ ~returned
    /\ found' = found \cup {<<job[w], c>> : c \in outcome[w]}
    /\ at' = [at EXCEPT ![w] = "recv"]
    /\ job' = [job EXCEPT ![w] = NoAddress]
    /\ UNCHANGED <<accepts, cancelled, feedVars, resultsClosed, cred, outcome, returned>>

(* case <-ctx.Done(): the worker returns, and its result with it.          *)
DropResult(w) ==
    /\ at[w] = "send"
    /\ cancelled
    /\ at' = [at EXCEPT ![w] = "gone"]
    /\ UNCHANGED <<accepts, cancelled, feedVars, resultsClosed, job, cred, outcome, collectVars>>

WorkerEnd(w) ==
    /\ at[w] = "recv"
    /\ jobsClosed
    /\ at' = [at EXCEPT ![w] = "gone"]
    /\ UNCHANGED <<accepts, cancelled, feedVars, resultsClosed, job, cred, outcome, collectVars>>

-----------------------------------------------------------------------------
(* Mutant: results is closed as soon as jobs is.                           *)
NoWait      == jobsClosed
WorkersDone == \A w \in Workers : at[w] = "gone"

(* The closer: wg.Wait(), close(results).                                  *)
CloseResults ==
    /\ ~resultsClosed
    /\ WorkersDone
    /\ resultsClosed' = TRUE
    /\ UNCHANGED <<accepts, cancelled, feedVars, workVars, collectVars>>

Return ==
    /\ resultsClosed
    /\ ~returned
    /\ returned' = TRUE
    /\ UNCHANGED <<accepts, cancelled, feedVars, resultsClosed, workVars, found>>

Worker(w) == Probe(w) \/ ProbeFails(w) \/ SendResult(w) \/ DropResult(w) \/ WorkerEnd(w) \/ TakeJob(w)

Feeder == FeedEnd \/ \E a \in Addresses : FeedNext(a)

Next ==
    \/ Cancel
    \/ Feeder
    \/ \E w \in Workers : Worker(w)
    \/ CloseResults
    \/ Return

Spec == Init /\ [][Next]_vars

(* Goroutines run; a probe ends by its timeouts.                           *)
Fairness ==
    /\ WF_vars(Feeder)
    /\ \A w \in Workers : WF_vars(Worker(w))
    /\ WF_vars(CloseResults)
    /\ WF_vars(Return)

FairSpec == Spec /\ Fairness

-----------------------------------------------------------------------------
TypeOK ==
    /\ accepts \in [Addresses -> SUBSET (1..Credentials)]
    /\ feed \subseteq Addresses
    /\ offered \in Addresses \cup {NoAddress}
    /\ at \in [Workers -> {"recv", "probe", "send", "gone"}]
    /\ job \in [Workers -> Addresses \cup {NoAddress}]
    /\ \A w \in Workers : at[w] \in {"probe", "send"} => job[w] # NoAddress
    /\ cred \in [Workers -> 1..(Credentials + 1)]
    /\ outcome \in [Workers -> SUBSET (1..Credentials)]
    /\ found \subseteq Addresses \X (1..Credentials)
    /\ {cancelled, jobsClosed, resultsClosed, returned} \subseteq BOOLEAN

(* The first credential set that an address answers (AuthIndex), if any.   *)
Answering(a) ==
    {c \in 1..Credentials : c \in accepts[a] /\ \A b \in 1..(c - 1) : b \notin accepts[a]}

(* The devices of the subnet, each with that credential set.               *)
Reachable == {r \in (Addresses \ Ignored) \X (1..Credentials) : r[2] \in Answering(r[1])}

(* "Returns the devices that answered": an undisturbed scan finds every    *)
(* device, whatever the order in which workers finish and the channels are *)
(* closed ...                                                              *)
ScanIsComplete == returned /\ ~cancelled => found = Reachable

(* ... and a cancelled one never reports a device, or a credential set,    *)
(* that did not answer.                                                    *)
ScanIsSound == found \subseteq Reachable

(* results is closed when nobody can send on it any more: a send on a      *)
(* closed channel panics.                                                  *)
NoSendOnClosed == resultsClosed => \A w \in Workers : at[w] = "gone"

(* Scan returns and leaves no goroutine behind, cancelled or not, wherever *)
(* the cancellation meets feeder and workers: Shutdown waits for it.       *)
ScanReturns == <>(returned /\ jobsClosed /\ \A w \in Workers : at[w] = "gone")
=============================================================================
