--------------------------- MODULE SubnetScanProofs ---------------------------
(***************************************************************************)
(* The safety of Scanner.Scan for any network, any number of addresses,    *)
(* credential sets and workers, cancelled or not.                          *)
(***************************************************************************)
EXTENDS SubnetScan, TLAPS

-----------------------------------------------------------------------------
(* The inductive invariants.                                               *)

Probed == Addresses \ Ignored
Busy   == {"probe", "send"}

(* Only addresses that are not ignored are offered and probed.             *)
JobsAreProbed ==
    /\ offered # NoAddress => offered \in Probed
    /\ \A w \in Workers : at[w] \in Busy => job[w] \in Probed

(* What a worker knows of its address is true: the sets it has passed over *)
(* did not answer, and what it is about to send did.                       *)
OutcomesAreTrue ==
    \A w \in Workers :
        /\ at[w] = "probe" => \A b \in 1..(cred[w] - 1) : b \notin accepts[job[w]]
        /\ at[w] = "send" => outcome[w] \subseteq Answering(job[w])

SoundInv == TypeOK /\ JobsAreProbed /\ OutcomesAreTrue /\ ScanIsSound

(* The channels are closed in order.                                       *)
ClosedInv == NoSendOnClosed /\ (returned => resultsClosed)

(* Where each address is, as long as nobody has cancelled: still to be     *)
(* fed, offered, in a worker's hands, or dealt with.                       *)
Settled(a) == \A c \in Answering(a) : <<a, c>> \in found
Held(a)    == \E w \in Workers : at[w] \in Busy /\ job[w] = a

Undisturbed ==
    /\ \A w \in Workers : at[w] = "send" => outcome[w] = Answering(job[w])
    /\ \A w \in Workers : at[w] = "gone" => jobsClosed
    /\ jobsClosed => feed = {} /\ offered = NoAddress
    /\ \A a \in Probed : a \in feed \/ a = offered \/ Held(a) \/ Settled(a)

CompleteInv == ~cancelled => Undisturbed

-----------------------------------------------------------------------------
(* Types.                                                                  *)

LEMMA InitTypes == Init => TypeOK
<1> SUFFICES ASSUME Init PROVE TypeOK
  OBVIOUS
<1>1. cred \in [Workers -> 1..(Credentials + 1)]
  BY ScanAssumptions DEF Init
<1>2. found \subseteq Addresses \X (1..Credentials)
  BY DEF Init
<1>3. at \in [Workers -> {"recv", "probe", "send", "gone"}] /\ outcome \in [Workers -> SUBSET (1..Credentials)]
  BY DEF Init
<1>4. {cancelled, jobsClosed, resultsClosed, returned} \subseteq BOOLEAN
  BY DEF Init
<1>5. QED
  BY <1>1, <1>2, <1>3, <1>4 DEF Init, TypeOK

(* Every step keeps the types; the bound of cred is the loop over the      *)
(* credential sets.                                                        *)
LEMMA TypeStep == TypeOK /\ [Next]_vars => TypeOK'
<1> SUFFICES ASSUME TypeOK, [Next]_vars PROVE TypeOK'
  OBVIOUS
<1> USE ScanAssumptions DEF TypeOK, feedVars, workVars, collectVars
<1>1. CASE Cancel
  BY <1>1 DEF Cancel
<1>2. CASE FeedEnd
  BY <1>2 DEF FeedEnd
<1>3. ASSUME NEW a \in Addresses, FeedNext(a) PROVE TypeOK'
  BY <1>3 DEF FeedNext
<1>4. ASSUME NEW w \in Workers, Probe(w) PROVE TypeOK'
  <2>1. cred[w] + 1 \in 1..(Credentials + 1)
    BY <1>4 DEF Probe, AllTried
  <2>2. QED
    BY <1>4, <2>1 DEF Probe, AllTried
<1>5. ASSUME NEW w \in Workers, ProbeFails(w) PROVE TypeOK'
  BY <1>5 DEF ProbeFails, NotFound
<1>6. ASSUME NEW w \in Workers, SendResult(w) PROVE TypeOK'
  <2>1. \A c \in outcome[w] : <<job[w], c>> \in Addresses \X (1..Credentials)
    BY <1>6 DEF SendResult
  <2>2. QED
    BY <1>6, <2>1 DEF SendResult
<1>7. ASSUME NEW w \in Workers, DropResult(w) \/ WorkerEnd(w) PROVE TypeOK'
  BY <1>7 DEF DropResult, WorkerEnd
<1>8. ASSUME NEW w \in Workers, TakeJob(w) PROVE TypeOK'
  BY <1>8 DEF TakeJob, FirstCredential
<1>9. CASE CloseResults
  BY <1>9 DEF CloseResults
<1>10. CASE Return
  BY <1>10 DEF Return
<1>11. CASE UNCHANGED vars
  BY <1>11 DEF vars
<1>12. QED
  BY <1>1, <1>2, <1>3, <1>4, <1>5, <1>6, <1>7, <1>8, <1>9, <1>10, <1>11 DEF Next, Feeder, Worker

(* The types of Scanner.Scan's state.                                      *)
THEOREM TypeCorrect == Spec => []TypeOK
<1>1. Init => TypeOK
  BY InitTypes
<1>2. TypeOK /\ [Next]_vars => TypeOK'
  BY TypeStep
<1>3. QED
  BY <1>1, <1>2, PTL DEF Spec

-----------------------------------------------------------------------------
(* Soundness.                                                              *)

LEMMA InitSound == Init => SoundInv
BY InitTypes DEF SoundInv, Init, JobsAreProbed, OutcomesAreTrue, ScanIsSound, Busy

(* A probe that finds the next set answering, after the earlier ones did   *)
(* not, has found the set the device is to be found with.                  *)
LEMMA FirstAnswer ==
    ASSUME TypeOK, NEW a \in Addresses, NEW c \in 1..Credentials,
           c \in accepts[a], \A b \in 1..(c - 1) : b \notin accepts[a]
    PROVE  {c} \subseteq Answering(a)
BY DEF Answering

LEMMA SoundStep == SoundInv /\ [Next]_vars => SoundInv'
<1> SUFFICES ASSUME SoundInv, [Next]_vars PROVE (JobsAreProbed /\ OutcomesAreTrue /\ ScanIsSound)'
  BY TypeStep DEF SoundInv
<1> USE DEF feedVars, workVars, collectVars, Busy
<1>a. TypeOK /\ JobsAreProbed /\ OutcomesAreTrue /\ ScanIsSound
  BY DEF SoundInv
<1>b. accepts' = accepts
  BY DEF Next, vars, Feeder, Worker, Cancel, FeedEnd, FeedNext, Probe, ProbeFails, SendResult,
         DropResult, WorkerEnd, TakeJob, CloseResults, Return
<1>c. \A a : Answering(a)' = Answering(a) /\ Reachable' = Reachable
  BY <1>b DEF Answering, Reachable
<1>1. CASE Cancel \/ CloseResults \/ Return \/ UNCHANGED vars
  BY <1>a, <1>b, <1>c, <1>1 DEF Cancel, CloseResults, Return, vars, JobsAreProbed,
     OutcomesAreTrue, ScanIsSound
<1>2. CASE FeedEnd
  BY <1>a, <1>b, <1>c, <1>2 DEF FeedEnd, JobsAreProbed, OutcomesAreTrue, ScanIsSound
<1>3. ASSUME NEW a \in Addresses, FeedNext(a)
      PROVE (JobsAreProbed /\ OutcomesAreTrue /\ ScanIsSound)'
  BY <1>a, <1>b, <1>c, <1>3 DEF FeedNext, JobsAreProbed, OutcomesAreTrue, ScanIsSound, Probed
<1>4. ASSUME NEW w \in Workers, Probe(w)
      PROVE (JobsAreProbed /\ OutcomesAreTrue /\ ScanIsSound)'
  <2>1. (JobsAreProbed /\ ScanIsSound)'
    BY <1>a, <1>c, <1>4 DEF Probe, JobsAreProbed, ScanIsSound, TypeOK
  <2>2. /\ at[w] = "probe" /\ job[w] \in Addresses
        /\ cred[w] \in 1..Credentials
        /\ \A b \in 1..(cred[w] - 1) : b \notin accepts[job[w]]
    BY <1>a, <1>4, ScanAssumptions DEF Probe, AllTried, TypeOK, OutcomesAreTrue
  <2>3. CASE cred[w] \in accepts[job[w]]
    <3>1. at' = [at EXCEPT ![w] = "send"] /\ outcome' = [outcome EXCEPT ![w] = {cred[w]}]
          /\ cred' = cred /\ job' = job
      BY <1>4, <2>3 DEF Probe
    <3>2. {cred[w]} \subseteq Answering(job[w])
      BY <1>a, <2>2, <2>3, FirstAnswer
    <3>3. OutcomesAreTrue'
      BY <1>a, <1>b, <1>c, <3>1, <3>2 DEF OutcomesAreTrue, TypeOK
    <3>4. QED
      BY <2>1, <3>3
  <2>4. CASE cred[w] \notin accepts[job[w]]
    <3>1. cred' = [cred EXCEPT ![w] = cred[w] + 1] /\ at' = at /\ outcome' = outcome /\ job' = job
      BY <1>4, <2>4 DEF Probe
    <3>2. \A b \in 1..cred[w] : b \notin accepts[job[w]]
      BY <2>2, <2>4
    <3>3. OutcomesAreTrue'
      BY <1>a, <1>b, <1>c, <2>2, <3>1, <3>2 DEF OutcomesAreTrue, TypeOK
    <3>4. QED
      BY <2>1, <3>3
  <2>5. QED
    BY <2>3, <2>4
<1>5. ASSUME NEW w \in Workers, ProbeFails(w)
      PROVE (JobsAreProbed /\ OutcomesAreTrue /\ ScanIsSound)'
  BY <1>a, <1>b, <1>c, <1>5 DEF ProbeFails, NotFound, JobsAreProbed, OutcomesAreTrue,
     ScanIsSound, TypeOK
<1>6. ASSUME NEW w \in Workers, SendResult(w)
      PROVE (JobsAreProbed /\ OutcomesAreTrue /\ ScanIsSound)'
  <2>1. (JobsAreProbed /\ OutcomesAreTrue)'
    BY <1>a, <1>b, <1>c, <1>6 DEF SendResult, JobsAreProbed, OutcomesAreTrue, TypeOK
  <2>2. job[w] \in Probed /\ outcome[w] \subseteq Answering(job[w])
    BY <1>a, <1>6 DEF SendResult, JobsAreProbed, OutcomesAreTrue
  <2>3. \A c \in outcome[w] : <<job[w], c>> \in Reachable
    BY <2>2 DEF Reachable, Answering, Probed
  <2>4. ScanIsSound'
    BY <1>a, <1>c, <1>6, <2>3 DEF SendResult, ScanIsSound
  <2>5. QED
    BY <2>1, <2>4
<1>7. ASSUME NEW w \in Workers, DropResult(w) \/ WorkerEnd(w)
      PROVE (JobsAreProbed /\ OutcomesAreTrue /\ ScanIsSound)'
  BY <1>a, <1>b, <1>c, <1>7 DEF DropResult, WorkerEnd, JobsAreProbed, OutcomesAreTrue,
     ScanIsSound, TypeOK
<1>8. ASSUME NEW w \in Workers, TakeJob(w)
      PROVE (JobsAreProbed /\ OutcomesAreTrue /\ ScanIsSound)'
  BY <1>a, <1>b, <1>c, <1>8 DEF TakeJob, FirstCredential, JobsAreProbed, OutcomesAreTrue,
     ScanIsSound, TypeOK
<1>9. QED
  BY <1>1, <1>2, <1>3, <1>4, <1>5, <1>6, <1>7, <1>8 DEF Next, Feeder, Worker

(* A scan reports only devices that answered, each with the first          *)
(* credential set it answers, cancelled or not.                            *)
THEOREM Soundness == Spec => []ScanIsSound
<1>1. Init => SoundInv
  BY InitSound
<1>2. SoundInv /\ [Next]_vars => SoundInv'
  BY SoundStep
<1>3. SoundInv => ScanIsSound
  BY DEF SoundInv
<1>4. QED
  BY <1>1, <1>2, <1>3, PTL DEF Spec

-----------------------------------------------------------------------------
(* Channels and completeness.                                              *)

(* "gone" is final, and only when all workers are gone is results closed.  *)
LEMMA ClosedStep == ClosedInv /\ [Next]_vars => ClosedInv'
<1> SUFFICES ASSUME ClosedInv, [Next]_vars PROVE ClosedInv'
  OBVIOUS
<1> USE DEF ClosedInv, NoSendOnClosed, feedVars, workVars, collectVars
<1>1. CASE Cancel \/ CloseResults \/ Return \/ UNCHANGED vars
  BY <1>1 DEF Cancel, CloseResults, WorkersDone, Return, vars
<1>2. CASE Feeder
  BY <1>2 DEF Feeder, FeedEnd, FeedNext
<1>3. ASSUME NEW w \in Workers, Worker(w) PROVE ClosedInv'
  <2>1. at[w] # "gone" \/ TakeJob(w)
    BY <1>3 DEF Worker, Probe, ProbeFails, SendResult, DropResult, WorkerEnd
  <2>2. at[w] # "gone"
    BY <2>1 DEF TakeJob
  <2>3. resultsClosed' = resultsClosed /\ (returned' = returned)
    BY <1>3 DEF Worker, Probe, ProbeFails, SendResult, DropResult, WorkerEnd, TakeJob
  <2>4. QED
    BY <2>2, <2>3
<1>4. QED
  BY <1>1, <1>2, <1>3 DEF Next

(* results is never closed while a worker could still send on it.          *)
THEOREM NoSendAfterClose == Spec => []NoSendOnClosed
<1>1. Init => ClosedInv
  BY DEF Init, ClosedInv, NoSendOnClosed
<1>2. ClosedInv => NoSendOnClosed
  BY DEF ClosedInv
<1>3. QED
  BY <1>1, <1>2, ClosedStep, PTL DEF Spec

LEMMA CompleteStep ==
    SoundInv /\ ClosedInv /\ CompleteInv /\ [Next]_vars => CompleteInv'
<1> SUFFICES ASSUME SoundInv, ClosedInv, CompleteInv, [Next]_vars, ~cancelled' PROVE Undisturbed'
  BY DEF CompleteInv
<1> USE DEF feedVars, workVars, collectVars, Busy
<1>a. TypeOK /\ JobsAreProbed /\ OutcomesAreTrue
  BY DEF SoundInv
<1>b. ~cancelled
  BY DEF Next, vars, Feeder, Worker, Cancel, FeedEnd, FeedNext, Probe, ProbeFails, SendResult,
         DropResult, WorkerEnd, TakeJob, CloseResults, Return
<1>c. Undisturbed
  BY <1>b DEF CompleteInv
<1>d. accepts' = accepts
  BY DEF Next, vars, Feeder, Worker, Cancel, FeedEnd, FeedNext, Probe, ProbeFails, SendResult,
         DropResult, WorkerEnd, TakeJob, CloseResults, Return
<1>e. \A a : Answering(a)' = Answering(a)
  BY <1>d DEF Answering
<1>1. CASE Cancel
  BY <1>1 DEF Cancel
<1>2. CASE CloseResults \/ Return \/ UNCHANGED vars
  BY <1>c, <1>e, <1>2 DEF CloseResults, Return, vars, Undisturbed, Held, Settled
<1>3. CASE FeedEnd
  BY <1>b, <1>c, <1>e, <1>3 DEF FeedEnd, Fed, AllFed, Undisturbed, Held, Settled
<1>4. ASSUME NEW a \in Addresses, FeedNext(a) PROVE Undisturbed'
  <2>1. offered = NoAddress /\ ~jobsClosed /\ jobsClosed' = jobsClosed
        /\ at' = at /\ job' = job /\ outcome' = outcome /\ found' = found
    BY <1>4 DEF FeedNext
  <2>2. \A b \in Probed : Held(b)' = Held(b) /\ Settled(b)' = Settled(b)
    BY <1>e, <2>1 DEF Held, Settled
  <2>3. \A b \in Probed : b \in feed => b \in feed' \/ b = offered'
    BY <1>4 DEF FeedNext, Probed
  <2>4. \A b \in Probed : b # offered
    BY <2>1, ScanAssumptions DEF Probed
  <2>5. QED
    BY <1>c, <1>e, <2>1, <2>2, <2>3, <2>4 DEF Undisturbed
<1>5. ASSUME NEW w \in Workers, TakeJob(w) PROVE Undisturbed'
  <2>1. /\ offered # NoAddress /\ at[w] = "recv" /\ at' = [at EXCEPT ![w] = "probe"]
        /\ job' = [job EXCEPT ![w] = offered] /\ feed' = feed /\ jobsClosed' = jobsClosed
        /\ outcome' = outcome /\ found' = found
    BY <1>5 DEF TakeJob
  <2>2. \A b \in Probed : (b = offered \/ Held(b) => Held(b)') /\ Settled(b)' = Settled(b)
    BY <1>a, <1>e, <2>1 DEF Held, Settled, TypeOK
  <2>3. ~jobsClosed
    BY <1>c, <2>1 DEF Undisturbed
  <2>4. QED
    BY <1>a, <1>c, <1>e, <2>1, <2>2, <2>3 DEF Undisturbed, TypeOK
<1>6. ASSUME NEW w \in Workers, Probe(w) PROVE Undisturbed'
  <2>1. /\ feed' = feed /\ offered' = offered /\ jobsClosed' = jobsClosed /\ found' = found
        /\ job' = job
    BY <1>6 DEF Probe
  <2>2. \A v \in Workers : (at'[v] \in Busy <=> at[v] \in Busy) /\ (at'[v] = "gone" => at[v] = "gone")
    BY <1>a, <1>6 DEF Probe, TypeOK
  <2>3. \A b \in Probed : Held(b)' = Held(b) /\ Settled(b)' = Settled(b)
    BY <1>e, <2>1, <2>2 DEF Held, Settled
  <2>4. \A v \in Workers : at'[v] = "send" => outcome'[v] = Answering(job'[v])
    <3>1. CASE cred[w] \in accepts[job[w]]
      <4>1. at[w] = "probe" /\ job[w] \in Addresses /\ cred[w] \in 1..Credentials
        BY <1>a, <1>6, ScanAssumptions DEF Probe, AllTried, TypeOK
      <4>2. \A b \in 1..(cred[w] - 1) : b \notin accepts[job[w]]
        BY <1>a, <4>1 DEF OutcomesAreTrue
      <4>3. {cred[w]} = Answering(job[w])
        BY <3>1, <4>1, <4>2 DEF Answering
      <4>4. at' = [at EXCEPT ![w] = "send"] /\ outcome' = [outcome EXCEPT ![w] = {cred[w]}]
        BY <1>6, <3>1 DEF Probe
      <4>5. QED
        BY <1>a, <1>c, <1>e, <2>1, <4>3, <4>4 DEF Undisturbed, TypeOK
    <3>2. CASE cred[w] \notin accepts[job[w]]
      BY <1>c, <1>e, <1>6, <2>1, <3>2 DEF Probe, Undisturbed
    <3>3. QED
      BY <3>1, <3>2
  <2>5. QED
    BY <1>c, <1>e, <2>1, <2>2, <2>3, <2>4 DEF Undisturbed
<1>7. ASSUME NEW w \in Workers, ProbeFails(w) PROVE Undisturbed'
  <2>1. /\ feed' = feed /\ offered' = offered /\ jobsClosed' = jobsClosed /\ found' = found
        /\ job' = job /\ at[w] = "probe" /\ at' = [at EXCEPT ![w] = "send"]
        /\ outcome' = [outcome EXCEPT ![w] = {}]
    BY <1>7 DEF ProbeFails, NotFound
  <2>2. \A v \in Workers : (at'[v] \in Busy <=> at[v] \in Busy) /\ (at'[v] = "gone" => at[v] = "gone")
    BY <1>a, <2>1 DEF TypeOK
  <2>3. \A b \in Probed : Held(b)' = Held(b) /\ Settled(b)' = Settled(b)
    BY <1>e, <2>1, <2>2 DEF Held, Settled
  <2>4. Answering(job[w]) = {}
    <3>1. cred[w] > Credentials /\ cred[w] \in Nat
      BY <1>a, <1>b, <1>7, ScanAssumptions DEF ProbeFails, AllTried, TypeOK
    <3>2. \A b \in 1..Credentials : b \notin accepts[job[w]]
      BY <1>a, <2>1, <3>1, ScanAssumptions DEF OutcomesAreTrue
    <3>3. QED
      BY <3>2 DEF Answering
  <2>5. QED
    BY <1>a, <1>c, <1>e, <2>1, <2>2, <2>3, <2>4 DEF Undisturbed, TypeOK
<1>8. ASSUME NEW w \in Workers, SendResult(w) PROVE Undisturbed'
  <2>1. /\ feed' = feed /\ offered' = offered /\ jobsClosed' = jobsClosed /\ outcome' = outcome
        /\ at[w] = "send" /\ at' = [at EXCEPT ![w] = "recv"] /\ job' = [job EXCEPT ![w] = NoAddress]
        /\ found' = found \cup {<<job[w], c>> : c \in outcome[w]}
    BY <1>8 DEF SendResult
  <2>2. outcome[w] = Answering(job[w])
    BY <1>c, <2>1 DEF Undisturbed
  <2>3. \A b \in Probed : Held(b) => Held(b)' \/ Settled(b)'
    BY <1>a, <1>e, <2>1, <2>2 DEF Held, Settled, TypeOK
  <2>4. \A b \in Probed : Settled(b) => Settled(b)'
    BY <1>e, <2>1 DEF Settled
  <2>5. QED
    BY <1>a, <1>c, <1>e, <2>1, <2>3, <2>4 DEF Undisturbed, TypeOK
<1>9. ASSUME NEW w \in Workers, DropResult(w) \/ WorkerEnd(w) PROVE Undisturbed'
  <2>1. WorkerEnd(w)
    BY <1>b, <1>9 DEF DropResult
  <2>2. /\ feed' = feed /\ offered' = offered /\ jobsClosed' = jobsClosed /\ outcome' = outcome
        /\ at[w] = "recv" /\ at' = [at EXCEPT ![w] = "gone"] /\ job' = job /\ found' = found
        /\ jobsClosed
    BY <2>1 DEF WorkerEnd
  <2>3. \A b \in Probed : (Held(b) => Held(b)') /\ Settled(b)' = Settled(b)
    BY <1>a, <1>e, <2>2 DEF Held, Settled, TypeOK
  <2>4. QED
    BY <1>a, <1>c, <1>e, <2>2, <2>3 DEF Undisturbed, TypeOK
<1>10. QED
  BY <1>1, <1>2, <1>3, <1>4, <1>5, <1>6, <1>7, <1>8, <1>9 DEF Next, Feeder, Worker

(* A scan nobody cancelled finds every device of the subnet.               *)
THEOREM Completeness == Spec => []ScanIsComplete
<1> DEFINE CInv == SoundInv /\ ClosedInv /\ CompleteInv
<1>1. Init => CInv
  <2>1. Init => ClosedInv
    BY DEF Init, ClosedInv, NoSendOnClosed
  <2>2. Init => CompleteInv
    BY DEF Init, CompleteInv, Undisturbed, Probed
  <2>3. QED
    BY <2>1, <2>2, InitSound
<1>2. CInv /\ [Next]_vars => CInv'
  BY SoundStep, ClosedStep, CompleteStep
<1>3. CInv => ScanIsComplete
  <2> SUFFICES ASSUME CInv, returned, ~cancelled PROVE found = Reachable
    BY DEF ScanIsComplete
  <2>1. Undisturbed /\ \A w \in Workers : at[w] = "gone"
    BY DEF CompleteInv, ClosedInv, NoSendOnClosed
  <2>2. feed = {} /\ offered = NoAddress
    BY <2>1, ScanAssumptions DEF Undisturbed
  <2>3. \A a \in Probed : Settled(a)
    BY <2>1, <2>2, ScanAssumptions DEF Undisturbed, Held, Busy, Probed
  <2>4. Reachable \subseteq found
    BY <2>3 DEF Reachable, Settled, Probed
  <2>5. QED
    BY <2>4 DEF SoundInv, ScanIsSound
<1>4. QED
  BY <1>1, <1>2, <1>3, PTL DEF Spec
=============================================================================
