------------------------------ MODULE SnmpFetch ------------------------------
(***************************************************************************)
(* snmp.Fetch of internal/snmp/fetch.go: one poll of one device, first its *)
(* scalars in batched GETs, then its table columns in batched GETBULK or   *)
(* GETNEXT walks, against an agent that may lose, reject, cut or garble    *)
(* anything.                                                               *)
(*                                                                         *)
(*   scalars ... -> columns <-> consume -> done                            *)
(*                                                                         *)
(* One step is one request with its response; a walk response is consumed  *)
(* one varbind per step.  An OID is a number, so that CompareOIDs is < and *)
(* the subtree of a column is the interval from its root (exclusive) to    *)
(* LastOID[root].  A value is only present or absent.                      *)
(***************************************************************************)
EXTENDS Integers, FiniteSets, SequencesExt, GoMap

CONSTANTS
    Scalars,        \* the profile's scalar OIDs, a sequence
    ColumnOrder,    \* the profile's column roots, in the order slices.Sorted gives
    LastOID,        \* last OID of each column's subtree
    Instances,      \* OIDs of table instances an agent may have
    Undecodable,    \* the instances whose value decodePDU rejects
    Polled,         \* the devices a poll may meet: an agent and what it has
    BatchSize,      \* fetch.oid_batch_size, at least 1 (withDefaults)
    Repetitions,    \* fetch.bulk_max_repetitions, at least 1 (withDefaults)
    MaxRows,        \* fetch.max_rows_per_column, at least 1 (withDefaults)
    GrowAfter,      \* growAfter (BOUND: 10 in the code)
    MaxLosses,      \* BOUND: requests that get no answer
    RogueOIDs,      \* BOUND: the OIDs a garbled response may name
    GarbledLength   \* BOUND: varbinds of a garbled response

Columns == ToSet(ColumnOrder)

(* v1: no GETBULK, errors instead of sentinels; noBulk: rejects GETBULK;   *)
(* limit: OIDs it takes in a request before it answers tooBig; reps:       *)
(* repetitions it returns; cuts: ends a response after any varbind, as     *)
(* RFC 3416 lets it; rogue: which requests, GETs or walks, it answers with *)
(* any error or any varbinds.                                              *)
Agent == [v1 : BOOLEAN, noBulk : BOOLEAN, limit : 0..BatchSize, reps : 1..Repetitions,
          cuts : BOOLEAN, rogue : SUBSET {"get", "walk"}]

ASSUME SizesAssumption == {BatchSize, Repetitions, MaxRows, GrowAfter} \subseteq Nat \ {0}
ASSUME BoundsAssumption == {MaxLosses, GarbledLength} \subseteq Nat
ASSUME OidsAssumption ==
    /\ Scalars \in Seq(Nat) /\ ColumnOrder \in Seq(Nat)
    /\ Instances \subseteq Nat /\ IsFiniteSet(Instances) /\ RogueOIDs \subseteq Nat
    /\ LastOID \in [Columns -> Nat] /\ \A c \in Columns : c <= LastOID[c]
    /\ Undecodable \subseteq Instances
ASSUME PolledAssumption ==
    Polled \subseteq
        [agent  : Agent,
         mib    : SUBSET Instances,
         scalar : [ToSet(Scalars) -> {"value", "noSuchObject", "noSuchInstance"}]]

VARIABLES
    agent, mib,     \* the agent, and the table instances it has
    scalarOf,       \* what it has at each scalar: value, noSuchObject, noSuchInstance
    losses,         \* BOUND: requests it may still leave unanswered
    cancelled,      \* the context is done
    phase,
    batch,          \* batchSizer: current size and streak
    remaining,      \* scalars not yet dealt with, a sequence
    scalars,        \* ValueStore.Scalars
    missing,        \* FetchReport.MissingOIDs
    next,           \* map: walk position of each column still being walked
    useBulk,
    chunk,          \* columns of the request whose response is being consumed
    packet,         \* map: the varbinds of it not yet consumed, by slot
    answered, progressed,   \* consume's
    rows,           \* ValueStore.Columns: the instances stored per column
    truncated,      \* FetchReport.TruncatedColumns
    failed          \* Fetch will return an error

agentVars  == <<agent, mib, scalarOf>>
scalarVars == <<remaining, scalars, missing>>
walkVars   == <<next, useBulk, chunk, packet, answered, progressed, rows, truncated>>
vars == <<agent, mib, scalarOf, losses, cancelled, phase, batch, remaining, scalars, missing,
          next, useBulk, chunk, packet, answered, progressed, rows, truncated, failed>>

-----------------------------------------------------------------------------
(* batchSizer.                                                             *)

FullBatch  == [current |-> BatchSize, streak |-> 0]
CanShrink  == batch.current > 1
Shrunk     == [current |-> batch.current \div 2, streak |-> 0]

(* Mutant: growth is not capped.                                           *)
Doubled == batch.current * 2
Grown   == IF batch.current * 2 < BatchSize THEN batch.current * 2 ELSE BatchSize

Rewarded ==
    IF batch.current >= BatchSize THEN batch
    ELSE IF batch.streak + 1 < GrowAfter THEN [batch EXCEPT !.streak = @ + 1]
    ELSE [current |-> Grown, streak |-> 0]

-----------------------------------------------------------------------------
(* OIDs.                                                                   *)

Within(c, o) == c < o /\ o <= LastOID[c]       \* rowIndex

(* longestMatch: of the columns above an OID the longest is the deepest.   *)
Matching(S, o) == {c \in S : Within(c, o)}
Deepest(S)     == Max(S)

-----------------------------------------------------------------------------
(* The agent, as the fake of internal/snmptest and the RFCs have it.       *)

HasValue(o) == o \in mib \ Undecodable
After(o)    == {x \in mib : x > o}
Nth(S, r)   == CHOOSE x \in S : Cardinality({y \in S : y <= x}) = r

Varbind(o)      == [oid |-> o, valued |-> HasValue(o)]
EndOfMibView(o) == [oid |-> o, valued |-> FALSE]

(* Repetition r of a walk from o: the r-th instance after o or, after the  *)
(* last one, endOfMibView at the cursor.                                   *)
Repetition(o, r) ==
    LET S == After(o)
        n == Cardinality(S)
    IN  IF r <= n THEN Varbind(Nth(S, r))
        ELSE EndOfMibView(IF n = 0 THEN o ELSE Nth(S, n))

(* A transport error, or tooBig.                                           *)
Unanswered(n) ==
    \/ losses > 0 /\ losses' = losses - 1
    \/ n > agent.limit /\ UNCHANGED losses

Answers(n) == n <= agent.limit /\ UNCHANGED losses

(* It keeps to the protocol in requests of this kind, or else answers with *)
(* whatever varbinds it likes.                                             *)
Follows(kind) == kind \notin agent.rogue
Garbled == UNION {[1..n -> [oid : RogueOIDs, valued : BOOLEAN]] : n \in 0..GarbledLength}

-----------------------------------------------------------------------------
Init ==
    /\ \E d \in Polled : agent = d.agent /\ mib = d.mib /\ scalarOf = d.scalar
    /\ losses \in {0, MaxLosses}
    /\ cancelled = FALSE
    /\ phase = "scalars"
    /\ batch = FullBatch
    /\ remaining = Scalars
    /\ scalars = {} /\ missing = {}
    /\ next = EmptyMap /\ useBulk = FALSE
    /\ chunk = {} /\ packet = EmptyMap /\ answered = {} /\ progressed = FALSE
    /\ rows = [c \in Columns |-> {}]
    /\ truncated = <<>>
    /\ failed = FALSE

(* The run context is cancelled; it is looked at between requests only.    *)
Cancel ==
    /\ ~cancelled /\ phase # "done"
    /\ cancelled' = TRUE
    /\ UNCHANGED <<agentVars, losses, phase, batch, scalarVars, walkVars, failed>>

-----------------------------------------------------------------------------
(* fetchScalars.                                                           *)

First(s, n) == SubSeq(s, 1, IF n < Len(s) THEN n ELSE Len(s))
Rest(s, n)  == SubSeq(s, n + 1, Len(s))

Asked == First(remaining, batch.current)

Getting == phase = "scalars" /\ remaining # <<>> /\ ~cancelled

DropAsked == remaining' = Rest(remaining, Len(Asked))

(* Smaller requests as long as there are any, then the OID is given up.    *)
GetFailed ==
    /\ Getting
    /\ Unanswered(Len(Asked))
    /\ \/ CanShrink /\ batch' = Shrunk /\ UNCHANGED <<remaining, failed>>
       \/ ~CanShrink /\ DropAsked /\ failed' = TRUE /\ UNCHANGED batch
    /\ UNCHANGED <<agentVars, cancelled, phase, scalars, missing, walkVars>>

(* SNMPv1: the first OID without a value fails the request; it is taken    *)
(* out and the others are asked for again.                                 *)
GetNoSuchName(i) ==
    /\ Getting
    /\ Answers(Len(Asked))
    /\ agent.v1
    /\ i \in DOMAIN Asked
    /\ \/ scalarOf[Asked[i]] # "value" /\ \A j \in 1..(i - 1) : scalarOf[Asked[j]] = "value"
       \/ ~Follows("get")
    /\ missing' = missing \cup {Asked[i]}
    /\ remaining' = First(remaining, i - 1) \o Rest(remaining, i)
    /\ UNCHANGED <<agentVars, cancelled, phase, batch, scalars, walkVars, failed>>

(* Any other error, or noSuchName with an unusable index.                  *)
GetError ==
    /\ Getting
    /\ Answers(Len(Asked))
    /\ ~Follows("get")
    /\ DropAsked
    /\ failed' = TRUE
    /\ UNCHANGED <<agentVars, cancelled, phase, batch, scalars, missing, walkVars>>

(* Only noSuchObject proves that the device does not implement an OID.     *)
(* Mutant: so does any other answer without a value.                       *)
Valueless(o)     == scalarOf[o] # "value"
Unimplemented(o) == scalarOf[o] = "noSuchObject"

GetAnswered ==
    /\ Getting
    /\ Answers(Len(Asked))
    /\ Follows("get")
    /\ agent.v1 => \A o \in ToSet(Asked) : scalarOf[o] = "value"
    /\ scalars' = scalars \cup {o \in ToSet(Asked) : scalarOf[o] = "value"}
    /\ missing' = missing \cup {o \in ToSet(Asked) : Unimplemented(o)}
    /\ DropAsked
    /\ batch' = Rewarded
    /\ UNCHANGED <<agentVars, cancelled, phase, walkVars, failed>>

(* What comes is stored, or reported missing, whatever was asked for; what *)
(* was asked for is not asked for again.                                   *)
GetGarbled(response, absent) ==
    /\ Getting
    /\ Answers(Len(Asked))
    /\ ~Follows("get")
    /\ absent \subseteq {v.oid : v \in {u \in ToSet(response) : ~u.valued}}
    /\ scalars' = scalars \cup {v.oid : v \in {u \in ToSet(response) : u.valued}}
    /\ missing' = missing \cup absent
    /\ DropAsked
    /\ batch' = Rewarded
    /\ UNCHANGED <<agentVars, cancelled, phase, walkVars, failed>>

(* fetchScalars returns; fetchColumns starts every column at its root.     *)
ScalarsEnd ==
    /\ phase = "scalars"
    /\ remaining = <<>> \/ cancelled
    /\ failed' = (failed \/ remaining # <<>>)
    /\ phase' = "columns"
    /\ batch' = FullBatch
    /\ next' = [c \in Columns |-> c]
    /\ useBulk' = ~agent.v1
    /\ UNCHANGED <<agentVars, losses, cancelled, scalarVars, chunk, packet, answered, progressed,
                   rows, truncated>>

-----------------------------------------------------------------------------
(* fetchColumns.                                                           *)

(* The places in ColumnOrder of the columns still being walked, of those   *)
(* the request asks for, and the walk position the request has for each.   *)
Active      == {k \in DOMAIN ColumnOrder : ColumnOrder[k] \in DOMAIN next}
Requested   == {k \in Active : Cardinality({j \in Active : j <= k}) <= batch.current}
Position(k) == next[ColumnOrder[k]]

Chunk == {ColumnOrder[k] : k \in Requested}

(* A response has all repetitions of all cursors, repetition by            *)
(* repetition: slot s is for place Place(s) at repetition Row(s), and is   *)
(* there unless that cursor is exhausted by then.                          *)
Place(s) == ((s - 1) % Len(ColumnOrder)) + 1
Row(s)   == ((s - 1) \div Len(ColumnOrder)) + 1

Slots(reps) ==
    {s \in 1..(Len(ColumnOrder) * reps) :
        Place(s) \in Requested /\ Row(s) <= Cardinality(After(Position(Place(s)))) + 1}

Walk(reps) == [s \in Slots(reps) |-> Repetition(Position(Place(s)), Row(s))]

(* The responses without an error.                                         *)
Responses ==
    IF ~Follows("walk") THEN Garbled
    ELSE LET full == Walk(IF useBulk THEN agent.reps ELSE 1)
         IN  IF agent.cuts /\ useBulk THEN {Keep(full, 1..s) : s \in DOMAIN full} ELSE {full}

Walking == phase = "columns" /\ DOMAIN next # {} /\ ~cancelled

consumeVars == <<chunk, packet, answered, progressed, rows, truncated>>

WalkUnanswered == Unanswered(Cardinality(Requested)) \/ (useBulk /\ agent.noBulk /\ UNCHANGED losses)
WalkAnswers    == Answers(Cardinality(Requested)) /\ ~(useBulk /\ agent.noBulk)

(* Mutant: no fallback to GETNEXT.                                         *)
NoFallback  == FALSE
CanFallBack == useBulk

(* Smaller requests, then GETNEXT in full batches, then the walk is given  *)
(* up.                                                                     *)
WalkFailed ==
    /\ Walking
    /\ WalkUnanswered
    /\ \/ CanShrink /\ batch' = Shrunk /\ UNCHANGED <<useBulk, phase, failed>>
       \/ ~CanShrink /\ CanFallBack /\ useBulk' = FALSE /\ batch' = FullBatch
          /\ UNCHANGED <<phase, failed>>
       \/ ~CanShrink /\ ~CanFallBack /\ failed' = TRUE /\ phase' = "done"
          /\ UNCHANGED <<batch, useBulk>>
    /\ UNCHANGED <<agentVars, cancelled, scalarVars, next, consumeVars>>

(* Mutant: the error ends every column of the request.                     *)
WholeChunk(k) == Chunk
Culprit(k)    == {ColumnOrder[k]}

(* SNMPv1: the first column that ran off the end of the MIB fails the      *)
(* request; it alone ends.                                                 *)
WalkNoSuchName(k) ==
    /\ Walking
    /\ WalkAnswers
    /\ k \in Requested
    /\ \/ /\ agent.v1
          /\ After(Position(k)) = {}
          /\ \A j \in Requested : j < k => After(Position(j)) # {}
       \/ ~Follows("walk")
    /\ next' = Keep(next, DOMAIN next \ Culprit(k))
    /\ UNCHANGED <<agentVars, cancelled, phase, batch, scalarVars, useBulk, consumeVars, failed>>

(* Any other error, or noSuchName with an unusable index.                  *)
WalkError ==
    /\ Walking
    /\ WalkAnswers
    /\ ~Follows("walk")
    /\ failed' = TRUE
    /\ phase' = "done"
    /\ UNCHANGED <<agentVars, cancelled, batch, scalarVars, walkVars>>

WalkAnswered(response) ==
    /\ Walking
    /\ WalkAnswers
    /\ agent.v1 /\ Follows("walk") => \A k \in Requested : After(Position(k)) # {}
    /\ response \in Responses
    /\ chunk' = Chunk
    /\ packet' = response
    /\ answered' = {}
    /\ progressed' = FALSE
    /\ phase' = "consume"
    /\ UNCHANGED <<agentVars, cancelled, batch, scalarVars, next, useBulk, rows, truncated, failed>>

-----------------------------------------------------------------------------
(* consume, one varbind at a time, in the order of their slots.            *)

Varbinding == phase = "consume" /\ DOMAIN packet # {}

slot == Min(DOMAIN packet)
pdu  == packet[slot]

Owners == Matching(chunk, pdu.oid)
Owner  == Deepest(Owners)

(* Mutant: an ended column is not passed over.                             *)
Mentioned == Owners # {}
Claimed   == Owners # {} /\ Owner \in DOMAIN next

(* Not below any column of the request, or below one that ended earlier in *)
(* this packet.                                                            *)
VarbindIgnored ==
    /\ Varbinding
    /\ ~Claimed
    /\ packet' = Delete(packet, slot)
    /\ UNCHANGED <<agentVars, losses, cancelled, phase, batch, scalarVars, next, useBulk, chunk,
                   answered, progressed, rows, truncated, failed>>

Owned == Varbinding /\ Claimed

(* What the agent returned is not after the position.  (A key that is not  *)
(* in a Go map reads as the zero value, which every OID is after.)         *)
Cursor   == IF Owner \in DOMAIN next THEN next[Owner] ELSE 0
NotAfter == Cursor # Owner /\ pdu.oid <= Cursor

(* It does not advance the walk: it only shows that the column is there.   *)
VarbindEchoed ==
    /\ Owned
    /\ NotAfter
    /\ answered' = answered \cup {Owner}
    /\ packet' = Delete(packet, slot)
    /\ UNCHANGED <<agentVars, losses, cancelled, phase, batch, scalarVars, next, useBulk, chunk,
                   progressed, rows, truncated, failed>>

Full(c) == Cardinality(rows[c]) >= MaxRows

(* One row too many: the column is reported truncated and ends.            *)
VarbindCapped ==
    /\ Owned
    /\ ~NotAfter
    /\ pdu.valued /\ Full(Owner)
    /\ answered' = answered \cup {Owner}
    /\ truncated' = Append(truncated, Owner)
    /\ next' = Delete(next, Owner)
    /\ packet' = Delete(packet, slot)
    /\ UNCHANGED <<agentVars, losses, cancelled, phase, batch, scalarVars, useBulk, chunk,
                   progressed, rows, failed>>

(* The walk advances, whether or not the instance has a value.             *)
VarbindTaken ==
    /\ Owned
    /\ ~NotAfter
    /\ ~(pdu.valued /\ Full(Owner))
    /\ answered' = answered \cup {Owner}
    /\ rows' = [rows EXCEPT ![Owner] =
                   IF pdu.valued THEN @ \cup {pdu.oid} ELSE @]
    /\ next' = Put(next, Owner, pdu.oid)
    /\ progressed' = TRUE
    /\ packet' = Delete(packet, slot)
    /\ UNCHANGED <<agentVars, losses, cancelled, phase, batch, scalarVars, useBulk, chunk,
                   truncated, failed>>

(* Mutant: a packet in which nothing advanced does not end the walk.       *)
Unmentioned == chunk \ answered
Over        == IF progressed THEN Unmentioned ELSE chunk

(* Columns the response did not mention have ended; if none advanced, all  *)
(* of the request have.                                                    *)
PacketEnd ==
    /\ phase = "consume" /\ DOMAIN packet = {}
    /\ next' = Keep(next, DOMAIN next \ Over)
    /\ batch' = Rewarded
    /\ phase' = "columns"
    /\ chunk' = {} /\ answered' = {} /\ progressed' = FALSE
    /\ UNCHANGED <<agentVars, losses, cancelled, scalarVars, useBulk, packet, rows, truncated, failed>>

ColumnsEnd ==
    /\ phase = "columns"
    /\ DOMAIN next = {} \/ cancelled
    /\ failed' = (failed \/ DOMAIN next # {})
    /\ phase' = "done"
    /\ UNCHANGED <<agentVars, losses, cancelled, batch, scalarVars, walkVars>>

-----------------------------------------------------------------------------
FetchScalars ==
    \/ GetFailed \/ GetError \/ GetAnswered \/ ScalarsEnd
    \/ \E i \in 1..BatchSize : GetNoSuchName(i)
    \/ \E response \in IF Follows("get") THEN {} ELSE Garbled :
           \E absent \in SUBSET {v.oid : v \in ToSet(response)} : GetGarbled(response, absent)

FetchColumns ==
    \/ WalkFailed \/ WalkError \/ ColumnsEnd
    \/ \E k \in DOMAIN ColumnOrder : WalkNoSuchName(k)
    \/ \E response \in IF Walking THEN Responses ELSE {} : WalkAnswered(response)

Consume ==
    VarbindIgnored \/ VarbindEchoed \/ VarbindCapped \/ VarbindTaken \/ PacketEnd

Fetch == FetchScalars \/ FetchColumns \/ Consume

Next == Fetch \/ Cancel

Spec == Init /\ [][Next]_vars

(* The poller's goroutine runs, and every request ends by its timeout.     *)
FairSpec == Spec /\ WF_vars(Fetch)

-----------------------------------------------------------------------------
TypeOK ==
    /\ batch.current \in 1..BatchSize /\ batch.streak \in 0..(GrowAfter - 1)
    /\ losses \in 0..MaxLosses
    /\ phase \in {"scalars", "columns", "consume", "done"}
    /\ ToSet(remaining) \subseteq ToSet(Scalars)
    /\ Follows("get") => scalars \cup missing \subseteq ToSet(Scalars)
    /\ DOMAIN next \subseteq Columns
    /\ \A c \in DOMAIN next : next[c] = c \/ Within(c, next[c])
    /\ rows \in [Columns -> SUBSET Nat]
    /\ \A c \in Columns : rows[c] \subseteq c..LastOID[c] /\ Cardinality(rows[c]) <= MaxRows
    /\ ToSet(truncated) \subseteq Columns
    /\ chunk \subseteq Columns /\ answered \subseteq chunk

(* The agent walks by the protocol and returns whole repetitions.          *)
Sound == Follows("walk") /\ ~agent.cuts

(* The rows a column should have: its decodable instances, those below a   *)
(* deeper column of the profile excepted.                                  *)
Own(c) == {o \in mib \ Undecodable : Matching(Columns, o) # {} /\ Deepest(Matching(Columns, o)) = c}

(* Columns are normally siblings: none is beneath another.                 *)
DisjointColumns ==
    \A c, d \in Columns : c # d => LastOID[c] < d \/ LastOID[d] < c

LowestRows(S) == {o \in S : Cardinality({x \in S : x <= o}) <= MaxRows}

CompleteColumn(c) ==
    /\ rows[c] = LowestRows(Own(c))
    /\ c \in ToSet(truncated) <=> Cardinality(Own(c)) > MaxRows

(* A Fetch that reports no error has walked every column to its end: the   *)
(* rows are those the agent has, or the first MaxRowsPerColumn of them     *)
(* with the column reported truncated; however the columns were batched,   *)
(* and whatever was lost, shrunk or retried on the way.                    *)
WalkComplete ==
    phase = "done" /\ ~failed /\ Sound => \A c \in Columns : CompleteColumn(c)

(* "Only noSuchObject proves the device does not implement the OID": what  *)
(* is reported missing, and so never asked for again, was missing, and on  *)
(* v2c not just for now; a Fetch without an error has dealt with every     *)
(* scalar.                                                                 *)
ScalarsAccounted ==
    Follows("get") =>
        /\ \A o \in missing : scalarOf[o] = "noSuchObject" \/ (agent.v1 /\ scalarOf[o] # "value")
        /\ phase = "done" /\ ~failed =>
               /\ scalars = {o \in ToSet(Scalars) : scalarOf[o] = "value"}
               /\ {o \in ToSet(Scalars) : scalarOf[o] = "noSuchObject"} \subseteq missing

(* The row cap is final: a column is reported truncated once, and only     *)
(* with all the rows it may have, whatever the agent sends.                *)
TruncationIsFinal ==
    /\ \A i, j \in DOMAIN truncated : truncated[i] = truncated[j] => i = j
    /\ \A c \in ToSet(truncated) : Full(c) /\ c \notin DOMAIN next

(* An agent with small buffers or without GETBULK costs requests, never    *)
(* data: without lost requests, smaller batches and GETNEXT get every      *)
(* answer there is.                                                        *)
RecoversFromRejection ==
    phase = "done" /\ agent.rogue = {} /\ agent.limit >= 1 /\ losses = MaxLosses /\ ~cancelled => ~failed

(* Fetch returns, against an agent that echoes, goes backwards, names      *)
(* foreign OIDs or answers with errors too, as long as the OIDs it names   *)
(* are finitely many.  Nothing else ends the walk of an agent that returns *)
(* ever greater instances whose values do not decode: "MaxRowsPerColumn    *)
(* bounds a single column walk" (FetchConfig) is true of stored rows only. *)
FetchReturns == <>(phase = "done")

(* "A column that is a prefix of another cannot swallow the other's rows   *)
(* [...] a profile may legitimately request both a subtree and something   *)
(* beneath it" (longestMatch): each of the two gets its own rows.          *)
SubtreeAndBeneath ==
    phase = "done" /\ ~failed /\ Sound => \A c \in Columns : LowestRows(Own(c)) \subseteq rows[c]

(* "Columns not mentioned in this response have no more rows" (consume):   *)
(* for an agent that cuts its responses to size, too.                      *)
UnmentionedHaveEnded ==
    phase = "done" /\ ~failed /\ Follows("walk") => \A c \in Columns : LowestRows(Own(c)) \subseteq rows[c]
=============================================================================
