---------------------------- MODULE SnmpFetchProofs ----------------------------
(***************************************************************************)
(* Theorems about SnmpFetch.                                               *)
(***************************************************************************)
EXTENDS SnmpFetch, OrderLemmas, SequenceTheorems

Varbinds == [oid : Nat, valued : BOOLEAN]

(* What every state has, whatever the agent answers: the types of the      *)
(* variables, and positions and rows within their column's subtree.        *)
Types ==
    /\ agent \in Agent /\ mib \subseteq Instances
    /\ scalarOf \in [ToSet(Scalars) -> {"value", "noSuchObject", "noSuchInstance"}]
    /\ losses \in 0..MaxLosses
    /\ {cancelled, failed, useBulk, progressed} \subseteq BOOLEAN
    /\ phase \in {"scalars", "columns", "consume", "done"}
    /\ batch \in [current : 1..BatchSize, streak : 0..(GrowAfter - 1)]
    /\ remaining \in Seq(ToSet(Scalars))
    /\ Follows("get") => scalars \cup missing \subseteq ToSet(Scalars)

WalkTypes ==
    /\ DOMAIN next \subseteq Columns /\ next \in [DOMAIN next -> Nat]
    /\ DOMAIN packet \subseteq Nat /\ packet \in [DOMAIN packet -> Varbinds]
    /\ chunk \subseteq Columns /\ answered \subseteq chunk
    /\ rows \in [Columns -> SUBSET Nat]
    /\ truncated \in Seq(Columns)
    /\ \A c \in DOMAIN next : next[c] = c \/ Within(c, next[c])
    /\ \A c \in Columns : rows[c] \subseteq c..LastOID[c] /\ Cardinality(rows[c]) <= MaxRows

(* Every scalar is still to be asked for or accounted for.                 *)
Accounted(o) ==
    CASE scalarOf[o] = "value"        -> o \in scalars
      [] scalarOf[o] = "noSuchObject" -> o \in missing
      [] OTHER                        -> TRUE

ScalarsInv ==
    Follows("get") =>
        /\ \A o \in missing : scalarOf[o] = "noSuchObject" \/ (agent.v1 /\ scalarOf[o] # "value")
        /\ \A o \in scalars : scalarOf[o] = "value"
        /\ ~failed => \A o \in ToSet(Scalars) : o \in ToSet(remaining) \/ Accounted(o)
        /\ phase # "scalars" /\ ~failed => remaining = <<>>

(* No column is walked before the columns are, and a truncated one not any *)
(* more.                                                                   *)
CapInv ==
    /\ phase = "scalars" => DOMAIN next = {} /\ truncated = <<>>
    /\ TruncationIsFinal

(* Only a lost request or the end of the context makes Fetch fail.         *)
RecoveryInv ==
    agent.rogue = {} /\ agent.limit >= 1 /\ losses = MaxLosses /\ ~cancelled => ~failed

-----------------------------------------------------------------------------
(* A column being walked has the rows up to its position, one that is not  *)
(* has them all.                                                           *)
RowsSoFar(c) ==
    /\ rows[c] = {o \in Own(c) : o <= next[c]}
    /\ c \notin ToSet(truncated)

RowsInv ==
    /\ phase = "scalars" => \A c \in Columns : rows[c] = {}
    /\ phase # "scalars" => \A c \in Columns \ DOMAIN next : CompleteColumn(c)
    /\ \A c \in DOMAIN next : RowsSoFar(c)
    /\ phase = "done" /\ ~failed => DOMAIN next = {}

(* What is left of a response skips no instance of a column that is still  *)
(* walked, and tells the truth where it is ahead of the walk.              *)
Earlier(s, x) == \E t \in DOMAIN packet : t < s /\ packet[t].oid = x

SkipsNothing(c, s) ==
    \A x \in mib : next[c] < x /\ x < packet[s].oid => Earlier(s, x)

TellsTheTruth(c, s) ==
    \/ packet[s].oid <= next[c]
    \/ packet[s].valued = HasValue(packet[s].oid)
    \/ Earlier(s, packet[s].oid)

(* A column that has more instances is ahead of the walk somewhere in it,  *)
(* until it was answered in a response that made progress.                 *)
Ahead(c) == \E s \in DOMAIN packet : Within(c, packet[s].oid) /\ next[c] < packet[s].oid

HasMore(c) == \E x \in mib : Within(c, x) /\ next[c] < x

SoundAt(c) ==
    /\ \A s \in DOMAIN packet :
           Within(c, packet[s].oid) => SkipsNothing(c, s) /\ TellsTheTruth(c, s)
    /\ HasMore(c) /\ (c \notin answered \/ ~progressed) => Ahead(c)

PacketInv == phase = "consume" => \A c \in chunk \cap DOMAIN next : SoundAt(c)

-----------------------------------------------------------------------------
(* Columns are numbers.                                                    *)
LEMMA OidsAreNumbers == Columns \subseteq Nat
<1>1. ASSUME NEW c \in Columns PROVE c \in Nat
  <2>1. PICK i \in DOMAIN ColumnOrder : c = ColumnOrder[i]
    BY DEF Columns, ToSet
  <2> QED
    BY <2>1, OidsAssumption
<1> QED
  BY <1>1, OidsAssumption

(* Nth finds the element of each position, and each element at its rank.   *)
LEMMA NthHasRank ==
    ASSUME NEW S, S \subseteq Nat, IsFiniteSet(S), NEW r \in 1..Cardinality(S)
    PROVE  Nth(S, r) \in S /\ Cardinality(UpTo(S, Nth(S, r))) = r
<1>1. \E x \in S : Cardinality({y \in S : y <= x}) = r
  BY RankExists DEF UpTo
<1> QED
  BY <1>1 DEF Nth, UpTo

LEMMA NthOfRank ==
    ASSUME NEW S, S \subseteq Nat, IsFiniteSet(S), NEW x \in S
    PROVE  Nth(S, Cardinality(UpTo(S, x))) = x
<1> DEFINE r == Cardinality(UpTo(S, x))
           n == Nth(S, r)
<1>1. r \in 1..Cardinality(S)
  BY RankType
<1>2. n \in S /\ Cardinality(UpTo(S, n)) = r
  BY <1>1, NthHasRank
<1>3. ~ (n < x) /\ ~ (x < n)
  <2>1. r \in Nat
    BY <1>1, FS_CardinalityType
  <2>2. n < x => Cardinality(UpTo(S, n)) < r
    BY <1>2, RankGrows
  <2>3. x < n => r < Cardinality(UpTo(S, n))
    BY <1>2, RankGrows
  <2> QED
    BY <1>2, <2>1, <2>2, <2>3
<1>4. n \in Nat /\ x \in Nat
  BY <1>2
<1> QED
  BY <1>3, <1>4

(* What is after an OID is finite.                                         *)
LEMMA AfterIsFinite ==
    ASSUME mib \subseteq Instances, NEW o
    PROVE  After(o) \subseteq Instances /\ After(o) \subseteq Nat /\ IsFiniteSet(After(o))
<1>1. After(o) \in SUBSET Instances
  BY DEF After
<1> QED
  BY <1>1, OidsAssumption, FS_Subset

(* An agent's repetition is a varbind.                                     *)
LEMMA RepetitionIsVarbind ==
    ASSUME mib \subseteq Instances, NEW o \in Nat, NEW r \in Nat \ {0}
    PROVE  Repetition(o, r) \in Varbinds
<1> DEFINE S == After(o)
           n == Cardinality(S)
<1>1. S \subseteq Instances /\ S \subseteq Nat /\ IsFiniteSet(S)
  BY AfterIsFinite
<1>2. n \in Nat
  BY <1>1, FS_CardinalityType
<1>3. CASE r <= n
  <2>1. r \in 1..n
    BY <1>2, <1>3
  <2>2. Nth(S, r) \in S
    BY <1>1, <2>1, NthHasRank
  <2> QED
    BY <1>1, <1>3, <2>2 DEF Repetition, Varbind, Varbinds, HasValue
<1>4. CASE ~ (r <= n)
  <2>1. n # 0 => Nth(S, n) \in S
    BY <1>1, <1>2, NthHasRank
  <2> QED
    BY <1>1, <1>4, <2>1 DEF Repetition, EndOfMibView, Varbinds
<1> QED
  BY <1>3, <1>4

(* The two halves of a sequence.                                           *)
LEMMA Halves ==
    ASSUME NEW S, NEW s \in Seq(S), NEW n \in Nat
    PROVE  /\ First(s, n) \in Seq(S) /\ Rest(s, n) \in Seq(S)
           /\ Len(First(s, n)) = (IF n < Len(s) THEN n ELSE Len(s))
           /\ \A i \in 1..Len(First(s, n)) : First(s, n)[i] = s[i]
           /\ n <= Len(s) => /\ Len(Rest(s, n)) = Len(s) - n
                             /\ \A i \in 1..(Len(s) - n) : Rest(s, n)[i] = s[n + i]
<1>1. Len(s) \in Nat
  OBVIOUS
<1>2. First(s, n) \in Seq(S) /\ Len(First(s, n)) = (IF n < Len(s) THEN n ELSE Len(s))
      /\ \A i \in 1..Len(First(s, n)) : First(s, n)[i] = s[i]
  BY <1>1 DEF First
<1>3. n <= Len(s) => /\ Rest(s, n) \in Seq(S) /\ Len(Rest(s, n)) = Len(s) - n
                     /\ \A i \in 1..(Len(s) - n) : Rest(s, n)[i] = s[n + i]
  BY <1>1 DEF Rest
<1>4. ~ (n <= Len(s)) => Rest(s, n) \in Seq(S)
  BY <1>1 DEF Rest
<1> QED
  BY <1>2, <1>3, <1>4

(* The request asks for one column at least and for as many as the batch   *)
(* size allows.                                                            *)
LEMMA RequestSize ==
    ASSUME Types, WalkTypes, Walking
    PROVE  /\ Requested # {} /\ IsFiniteSet(Requested)
           /\ Cardinality(Requested) \in 1..batch.current
           /\ \A k \in Requested : k \in DOMAIN ColumnOrder /\ ColumnOrder[k] \in DOMAIN next
<1>1. Active \subseteq Nat /\ IsFiniteSet(Active)
  <2>1. DOMAIN ColumnOrder = 1..Len(ColumnOrder) /\ Len(ColumnOrder) \in Nat
    BY OidsAssumption
  <2>2. IsFiniteSet(1..Len(ColumnOrder)) /\ Active \in SUBSET (1..Len(ColumnOrder))
    BY <2>1, FS_Interval DEF Active
  <2>3. IsFiniteSet(Active)
    BY <2>2, FS_Subset
  <2>4. \A k \in Active : k \in Nat
    BY <2>1, <2>2
  <2> QED
    BY <2>3, <2>4
<1>2. batch.current \in Nat \ {0}
  BY SizesAssumption DEF Types
<1>3. Active # {}
  <2>1. PICK c \in DOMAIN next : c \in Columns
    BY DEF Walking, WalkTypes
  <2>2. PICK k \in DOMAIN ColumnOrder : ColumnOrder[k] = c
    BY <2>1 DEF Columns, ToSet
  <2> QED
    BY <2>1, <2>2 DEF Active
<1>4. Requested \in SUBSET Active
  BY DEF Requested
<1>5. IsFiniteSet(Requested) /\ Requested \subseteq Nat
  BY <1>1, <1>4, FS_Subset
<1>6. Requested # {}
  <2>1. PICK m \in Active : \A k \in Active : m <= k
    BY <1>1, <1>3, LeastNatural
  <2>2. {j \in Active : j <= m} = {m}
    <3>1. ASSUME NEW j \in Active, j <= m PROVE j = m
      <4>1. j \in Nat /\ m \in Nat /\ m <= j
        BY <1>1, <2>1
      <4> QED
        BY <3>1, <4>1
    <3>2. m <= m
      BY <1>1
    <3> QED
      BY <3>1, <3>2
  <2>3. Cardinality({m}) = 1
    BY FS_Singleton
  <2>4. m \in Requested
    BY <1>2, <2>2, <2>3 DEF Requested
  <2> QED
    BY <2>4
<1>7. Cardinality(Requested) <= batch.current
  <2>1. PICK m \in Requested : \A k \in Requested : k <= m
    BY <1>5, <1>6, GreatestNatural
  <2> DEFINE U == {j \in Active : j <= m}
  <2>2. Requested \in SUBSET U /\ U \in SUBSET Active
    BY <1>4, <2>1
  <2>3. IsFiniteSet(U) /\ Cardinality(U) <= batch.current
    BY <1>1, <2>1, <2>2, FS_Subset DEF Requested
  <2>4. Cardinality(Requested) <= Cardinality(U)
    BY <2>2, <2>3, FS_Subset
  <2>5. Cardinality(Requested) \in Nat /\ Cardinality(U) \in Nat
    BY <1>5, <2>3, FS_CardinalityType
  <2> QED
    BY <1>2, <2>3, <2>4, <2>5
<1>8. Cardinality(Requested) \in Nat /\ Cardinality(Requested) # 0
  BY <1>5, <1>6, FS_CardinalityType, FS_EmptySet
<1>9. \A k \in Requested : k \in DOMAIN ColumnOrder /\ ColumnOrder[k] \in DOMAIN next
  BY DEF Requested, Active
<1> QED
  BY <1>2, <1>5, <1>6, <1>7, <1>8, <1>9

(* The varbind at hand is the first one left, and its owner a column of    *)
(* the request that it is below.                                           *)
LEMMA VarbindAtHand ==
    ASSUME WalkTypes, Varbinding
    PROVE  /\ slot \in DOMAIN packet /\ \A t \in DOMAIN packet : slot <= t
           /\ pdu \in Varbinds
           /\ Owners # {} => Owner \in chunk /\ Within(Owner, pdu.oid)
<1>1. DOMAIN packet \subseteq Nat /\ DOMAIN packet # {}
  BY DEF WalkTypes, Varbinding
<1>2. slot \in DOMAIN packet /\ \A t \in DOMAIN packet : slot <= t
  <2>1. \E x \in DOMAIN packet : \A y \in DOMAIN packet : x <= y
    BY <1>1, LeastNatural
  <2> QED
    BY <2>1 DEF slot, Min
<1>3. pdu \in Varbinds
  BY <1>2 DEF pdu, WalkTypes
<1>4. ASSUME Owners # {} PROVE Owner \in Owners
  <2>1. Owners \in SUBSET Nat /\ pdu.oid \in Nat /\ \A c \in Owners : c <= pdu.oid
    <3>1. pdu.oid \in Nat
      BY <1>3, OidsAreNumbers DEF Varbinds
    <3>2. ASSUME NEW c \in Owners PROVE c \in Nat /\ c <= pdu.oid
      <4>1. c \in Columns /\ c < pdu.oid
        BY DEF Owners, Matching, Within, WalkTypes
      <4> QED
        BY <3>1, <4>1, OidsAreNumbers
    <3> QED
      BY <3>1, <3>2
  <2>2. IsFiniteSet(Owners)
    BY <2>1, FS_BoundedSetOfNaturals
  <2>3. \E x \in Owners : \A y \in Owners : y <= x
    BY <1>4, <2>1, <2>2, GreatestNatural
  <2>4. \E x \in Owners : \A y \in Owners : x >= y
    BY <2>1, <2>3
  <2> QED
    BY <2>4 DEF Owner, Deepest, Max
<1> QED
  BY <1>2, <1>3, <1>4 DEF Owners, Matching

(* A claimed varbind's owner has a walk position, which is its cursor.     *)
LEMMA ClaimedOwner ==
    ASSUME Owned
    PROVE  /\ Owner \in DOMAIN next
           /\ NotAfter <=> (next[Owner] # Owner /\ pdu.oid <= next[Owner])
           /\ Put(next, Owner, pdu.oid) = [next EXCEPT ![Owner] = pdu.oid]
<1>1. Owner \in DOMAIN next
  BY DEF Owned, Claimed
<1>2. Cursor = next[Owner]
  BY <1>1 DEF Cursor
<1>3. Put(next, Owner, pdu.oid) = [next EXCEPT ![Owner] = pdu.oid]
  <2>1. DOMAIN next \cup {Owner} = DOMAIN next
    BY <1>1
  <2> QED
    BY <2>1 DEF Put
<1> QED
  BY <1>1, <1>2, <1>3 DEF NotAfter

(* The rows of a response are numbered from 1.                             *)
LEMMA RowsOfSlots ==
    ASSUME ColumnOrder # <<>>, NEW reps \in Nat, NEW s \in Slots(reps)
    PROVE  s \in Nat \ {0} /\ Row(s) \in Nat \ {0} /\ Place(s) \in Requested
<1>1. Len(ColumnOrder) \in Nat \ {0}
  BY OidsAssumption
<1>2. s \in 1..(Len(ColumnOrder) * reps) /\ Place(s) \in Requested
  BY DEF Slots
<1>3. s \in Nat \ {0}
  BY <1>1, <1>2
<1>4. (s - 1) \div Len(ColumnOrder) \in Nat
  BY <1>1, <1>3
<1> QED
  BY <1>2, <1>3, <1>4 DEF Row

(* Every response without an error is a map of varbinds.                   *)
LEMMA ResponseTypes ==
    ASSUME Types, WalkTypes, Walking, NEW response \in Responses
    PROVE  DOMAIN response \subseteq Nat /\ response \in [DOMAIN response -> Varbinds]
<1>1. CASE ~Follows("walk")
  <2>1. PICK n \in 0..GarbledLength : response \in [1..n -> Varbinds]
    <3>1. PICK n \in 0..GarbledLength : response \in [1..n -> [oid : RogueOIDs, valued : BOOLEAN]]
      BY <1>1 DEF Responses, Garbled
    <3>2. [oid : RogueOIDs, valued : BOOLEAN] \subseteq Varbinds
      BY OidsAssumption DEF Varbinds
    <3> QED
      BY <3>1, <3>2
  <2> QED
    BY <2>1, BoundsAssumption
<1>2. CASE Follows("walk")
  <2> DEFINE reps == IF useBulk THEN agent.reps ELSE 1
  <2>1. reps \in Nat
    BY SizesAssumption DEF Types, Agent
  <2>2. ColumnOrder # <<>>
    BY RequestSize
  <2>3. ASSUME NEW s \in Slots(reps)
        PROVE  s \in Nat /\ Walk(reps)[s] \in Varbinds
    <3>1. s \in Nat /\ Row(s) \in Nat \ {0} /\ Place(s) \in Requested
      BY <2>1, <2>2, RowsOfSlots
    <3>2. Position(Place(s)) \in Nat
      BY <3>1, RequestSize DEF Position, WalkTypes
    <3>3. Repetition(Position(Place(s)), Row(s)) \in Varbinds
      BY <3>1, <3>2, RepetitionIsVarbind DEF Types
    <3> QED
      BY <3>1, <3>3 DEF Walk
  <2>4. DOMAIN Walk(reps) = Slots(reps)
    BY DEF Walk
  <2>5. PICK S : response = Walk(reps) \/ response = Keep(Walk(reps), S)
    BY <1>2 DEF Responses
  <2>6. CASE response = Walk(reps)
    <3>1. Walk(reps) \in [Slots(reps) -> Varbinds]
      BY <2>3 DEF Walk
    <3> QED
      BY <3>1, <2>3, <2>4, <2>6
  <2>7. CASE response = Keep(Walk(reps), S)
    <3>1. DOMAIN response = Slots(reps) \cap S
      BY <2>4, <2>7 DEF Keep
    <3>2. \A s \in DOMAIN response : response[s] = Walk(reps)[s]
      BY <2>4, <2>7 DEF Keep
    <3>3. response = [s \in DOMAIN response |-> response[s]]
      BY <2>7 DEF Keep
    <3> HIDE DEF reps
    <3> QED
      BY <2>3, <3>1, <3>2, <3>3
  <2> QED
    BY <2>5, <2>6, <2>7
<1> QED
  BY <1>1, <1>2

-----------------------------------------------------------------------------
(* The batch sizes stay in range.                                          *)
LEMMA BatchTypes ==
    ASSUME Types
    PROVE  /\ FullBatch \in [current : 1..BatchSize, streak : 0..(GrowAfter - 1)]
           /\ Rewarded \in [current : 1..BatchSize, streak : 0..(GrowAfter - 1)]
           /\ CanShrink => Shrunk \in [current : 1..BatchSize, streak : 0..(GrowAfter - 1)]
<1>1. BatchSize \in Nat \ {0} /\ GrowAfter \in Nat \ {0}
  BY SizesAssumption
<1>2. batch.current \in 1..BatchSize /\ batch.streak \in 0..(GrowAfter - 1)
      /\ batch = [current |-> batch.current, streak |-> batch.streak]
  BY DEF Types
<1>3. FullBatch \in [current : 1..BatchSize, streak : 0..(GrowAfter - 1)]
  BY <1>1 DEF FullBatch
<1>4. CanShrink => Shrunk \in [current : 1..BatchSize, streak : 0..(GrowAfter - 1)]
  BY <1>1, <1>2 DEF CanShrink, Shrunk
<1>5. Rewarded \in [current : 1..BatchSize, streak : 0..(GrowAfter - 1)]
  BY <1>1, <1>2 DEF Rewarded, Grown, Types
<1> QED
  BY <1>3, <1>4, <1>5

(* Losses are counted down.                                                *)
LEMMA LossesFall ==
    ASSUME Types, [Next]_vars
    PROVE  losses' \in 0..MaxLosses /\ losses' <= losses
<1>1. losses \in 0..MaxLosses /\ MaxLosses \in Nat
  BY BoundsAssumption DEF Types
<1>2. losses' = losses \/ (losses > 0 /\ losses' = losses - 1)
  BY DEF Next, vars, Fetch, FetchScalars, FetchColumns, Consume, Cancel, GetFailed, GetError,
         GetAnswered, GetGarbled, ScalarsEnd, GetNoSuchName, WalkFailed,
         WalkError, ColumnsEnd,
         WalkNoSuchName, WalkAnswered, VarbindIgnored, VarbindEchoed, VarbindCapped,
         VarbindTaken, PacketEnd, Unanswered, Answers, WalkUnanswered, WalkAnswers
<1> QED
  BY <1>1, <1>2

(* The scalars asked for, and what is left without them.                   *)
LEMMA AskedScalars ==
    ASSUME Types, Getting
    PROVE  /\ Asked \in Seq(ToSet(Scalars)) /\ Asked # <<>>
           /\ Len(Asked) <= batch.current /\ Len(Asked) <= Len(remaining)
           /\ \A i \in 1..Len(Asked) : Asked[i] = remaining[i]
<1>1. remaining \in Seq(ToSet(Scalars)) /\ remaining # <<>>
  BY DEF Types, Getting
<1>2. batch.current \in Nat \ {0}
  BY SizesAssumption DEF Types
<1>3. Len(remaining) \in Nat /\ Len(remaining) # 0
  BY <1>1
<1> QED
  BY <1>1, <1>2, <1>3, Halves DEF Asked

(* Types is inductive.                                                     *)
LEMMA TypesKept ==
    ASSUME Types, [Next]_vars
    PROVE  Types'
<1>1. losses' \in 0..MaxLosses
  BY LossesFall
<1>2. CASE UNCHANGED vars
  BY <1>2 DEF Types, Follows, vars
<1>3. CASE Cancel
  BY <1>1, <1>3 DEF Types, Follows, Cancel, agentVars, scalarVars, walkVars
<1>4. CASE GetFailed
  <2>1. Rest(remaining, Len(Asked)) \in Seq(ToSet(Scalars))
    BY <1>4, AskedScalars, Halves DEF GetFailed, Types
  <2>2. batch' \in [current : 1..BatchSize, streak : 0..(GrowAfter - 1)]
    BY <1>4, BatchTypes DEF GetFailed, Types
  <2>3. remaining' \in Seq(ToSet(Scalars)) /\ failed' \in BOOLEAN
    BY <1>4, <2>1 DEF GetFailed, Types, DropAsked
  <2> QED
    BY <1>1, <1>4, <2>2, <2>3 DEF Types, Follows, GetFailed, agentVars, walkVars
<1>5. CASE GetError
  <2>1. Rest(remaining, Len(Asked)) \in Seq(ToSet(Scalars))
    BY <1>5, AskedScalars, Halves DEF GetError, Types
  <2> QED
    BY <1>1, <1>5, <2>1 DEF Types, Follows, GetError, DropAsked, agentVars, walkVars
<1>6. CASE GetAnswered
  <2>1. Rest(remaining, Len(Asked)) \in Seq(ToSet(Scalars))
    BY <1>6, AskedScalars, Halves DEF GetAnswered, Types
  <2>2. batch' \in [current : 1..BatchSize, streak : 0..(GrowAfter - 1)]
    BY <1>6, BatchTypes DEF GetAnswered
  <2>3. ToSet(Asked) \subseteq ToSet(Scalars)
    BY <1>6, AskedScalars DEF GetAnswered, ToSet
  <2>4. scalars' \cup missing' \subseteq ToSet(Scalars)
    BY <1>6, <2>3 DEF GetAnswered, Types
  <2>5. remaining' \in Seq(ToSet(Scalars))
    BY <1>6, <2>1 DEF GetAnswered, DropAsked
  <2>6. UNCHANGED <<agentVars, cancelled, phase, failed, useBulk, progressed>>
    BY <1>6 DEF GetAnswered, walkVars
  <2>7. agent' \in Agent /\ {cancelled, failed, useBulk, progressed}' \subseteq BOOLEAN
    BY <1>1, <2>6 DEF Types, agentVars
  <2> QED
    BY <1>1, <2>2, <2>4, <2>5, <2>6, <2>7 DEF Types, agentVars
<1>7. ASSUME NEW i \in 1..BatchSize, GetNoSuchName(i) PROVE Types'
  <2>1. i \in 1..Len(Asked) /\ i - 1 \in Nat /\ i \in Nat
    BY <1>7, AskedScalars, SizesAssumption DEF GetNoSuchName
  <2>2. First(remaining, i - 1) \o Rest(remaining, i) \in Seq(ToSet(Scalars))
    <3>1. remaining \in Seq(ToSet(Scalars))
      BY DEF Types
    <3>2. First(remaining, i - 1) \in Seq(ToSet(Scalars))
      BY <2>1, <3>1, Halves
    <3>3. Rest(remaining, i) \in Seq(ToSet(Scalars))
      BY <2>1, <3>1, Halves
    <3> QED
      BY <3>2, <3>3
  <2>3. Asked[i] \in ToSet(Scalars)
    BY <1>7, <2>1, AskedScalars DEF GetNoSuchName
  <2> QED
    BY <1>1, <1>7, <2>2, <2>3 DEF Types, Follows, GetNoSuchName, agentVars, walkVars
<1>8. CASE ScalarsEnd
  BY <1>1, <1>8, BatchTypes DEF Types, Follows, ScalarsEnd, agentVars, scalarVars
<1>9. CASE WalkFailed
  <2>1. batch' \in [current : 1..BatchSize, streak : 0..(GrowAfter - 1)]
    BY <1>9, BatchTypes DEF WalkFailed, Types
  <2> QED
    BY <1>1, <1>9, <2>1 DEF Types, Follows, WalkFailed, agentVars, scalarVars, consumeVars
<1>10. ASSUME NEW k, WalkNoSuchName(k) PROVE Types'
  BY <1>1, <1>10 DEF Types, Follows, WalkNoSuchName, agentVars, scalarVars, consumeVars
<1>11. CASE WalkError
  BY <1>1, <1>11 DEF Types, Follows, WalkError, agentVars, scalarVars, walkVars
<1>12. ASSUME NEW response, WalkAnswered(response) PROVE Types'
  BY <1>1, <1>12 DEF Types, Follows, WalkAnswered, agentVars, scalarVars
<1>13. CASE VarbindIgnored \/ VarbindEchoed \/ VarbindCapped
  BY <1>1, <1>13 DEF Types, Follows, VarbindIgnored, VarbindEchoed, VarbindCapped, agentVars, scalarVars
<1>14. CASE VarbindTaken
  BY <1>1, <1>14 DEF Types, Follows, VarbindTaken, agentVars, scalarVars
<1>15. CASE PacketEnd
  BY <1>1, <1>15, BatchTypes DEF Types, Follows, PacketEnd, agentVars, scalarVars
<1>16. CASE ColumnsEnd
  BY <1>1, <1>16 DEF Types, Follows, ColumnsEnd, agentVars, scalarVars, walkVars
<1>17. ASSUME NEW response, NEW absent, GetGarbled(response, absent) PROVE Types'
  <2>1. Rest(remaining, Len(Asked)) \in Seq(ToSet(Scalars))
    BY <1>17, AskedScalars, Halves DEF GetGarbled, Types
  <2>2. batch' \in [current : 1..BatchSize, streak : 0..(GrowAfter - 1)]
    BY <1>17, BatchTypes DEF GetGarbled
  <2>3. remaining' \in Seq(ToSet(Scalars))
    BY <1>17, <2>1 DEF GetGarbled, DropAsked
  <2>4. UNCHANGED <<agentVars, cancelled, phase, failed, useBulk, progressed>> /\ ~Follows("get")
    BY <1>17 DEF GetGarbled, walkVars
  <2>5. agent' \in Agent /\ {cancelled, failed, useBulk, progressed}' \subseteq BOOLEAN /\ ~Follows("get")'
    BY <2>4 DEF Types, agentVars, Follows
  <2> QED
    BY <1>1, <2>2, <2>3, <2>4, <2>5 DEF Types, agentVars
<1> QED
  BY <1>2, <1>3, <1>4, <1>5, <1>6, <1>7, <1>8, <1>9, <1>10, <1>11, <1>12, <1>13, <1>14, <1>15,
     <1>16, <1>17 DEF Next, Fetch, FetchScalars, FetchColumns, Consume

-----------------------------------------------------------------------------
(* The map of positions without some columns.                              *)
LEMMA KeptPositions ==
    ASSUME WalkTypes, NEW S, next' = Keep(next, S)
    PROVE  /\ DOMAIN next' = DOMAIN next \cap S
           /\ \A c \in DOMAIN next' : next'[c] = next[c]
           /\ DOMAIN next' \subseteq Columns /\ next' \in [DOMAIN next' -> Nat]
           /\ \A c \in DOMAIN next' : next'[c] = c \/ Within(c, next'[c])
<1>1. DOMAIN next' = DOMAIN next \cap S /\ next' = [c \in DOMAIN next' |-> next[c]]
  BY DEF Keep
<1>2. \A c \in DOMAIN next' : next'[c] = next[c]
  BY <1>1
<1> QED
  BY <1>1, <1>2 DEF WalkTypes

(* What is left of a packet without the varbind at hand.                   *)
LEMMA KeptVarbinds ==
    ASSUME WalkTypes, packet' = Delete(packet, slot)
    PROVE  /\ DOMAIN packet' = DOMAIN packet \ {slot}
           /\ \A s \in DOMAIN packet' : packet'[s] = packet[s]
           /\ DOMAIN packet' \subseteq Nat /\ packet' \in [DOMAIN packet' -> Varbinds]
<1>1. DOMAIN packet' = DOMAIN packet \ {slot} /\ packet' = [s \in DOMAIN packet' |-> packet[s]]
  BY DEF Delete, Keep
<1>2. \A s \in DOMAIN packet' : packet'[s] = packet[s]
  BY <1>1
<1> QED
  BY <1>1, <1>2 DEF WalkTypes

(* A row is stored in a column that is not full, and below it.             *)
LEMMA StoredRows ==
    ASSUME WalkTypes, VarbindTaken
    PROVE  /\ rows' \in [Columns -> SUBSET Nat]
           /\ \A c \in Columns : rows'[c] \subseteq c..LastOID[c] /\ Cardinality(rows'[c]) <= MaxRows
<1>1. Varbinding /\ Owner \in Columns /\ pdu \in Varbinds /\ Within(Owner, pdu.oid)
  BY VarbindAtHand DEF VarbindTaken, Owned, Claimed, Varbinding, WalkTypes
<1>2. pdu.oid \in Nat /\ pdu.valued \in BOOLEAN /\ pdu.oid \in Nat
  BY <1>1, OidsAreNumbers DEF Varbinds
<1>3. CASE ~pdu.valued
  BY <1>3 DEF VarbindTaken, WalkTypes
<1>4. CASE pdu.valued
  <2> DEFINE R == rows[Owner]
             S == R \cup {pdu.oid}
  <2>1. rows' = [rows EXCEPT ![Owner] = S]
    BY <1>4 DEF VarbindTaken
  <2>2. R \subseteq Owner..LastOID[Owner] /\ R \subseteq Nat
    BY <1>1 DEF WalkTypes
  <2>3. Owner \in Nat /\ LastOID[Owner] \in Nat
    BY <1>1, OidsAreNumbers, OidsAssumption
  <2>4. IsFiniteSet(R)
    <3>1. IsFiniteSet(Owner..LastOID[Owner])
      BY <2>3, FS_Interval
    <3> QED
      BY <2>2, <3>1, FS_Subset
  <2>5. ~ (Cardinality(R) >= MaxRows)
    BY <1>4 DEF VarbindTaken, Full
  <2>6. Cardinality(S) <= MaxRows
    <3>1. Cardinality(R) \in Nat /\ MaxRows \in Nat
      BY <2>4, FS_CardinalityType, SizesAssumption
    <3>2. Cardinality(S) = Cardinality(R) \/ Cardinality(S) = Cardinality(R) + 1
      BY <2>4, FS_AddElement
    <3> QED
      BY <2>5, <3>1, <3>2
  <2>7. S \subseteq Owner..LastOID[Owner] /\ S \subseteq Nat
    BY <1>1, <1>2, <2>2, <2>3 DEF Within
  <2>8. rows \in [Columns -> SUBSET Nat]
    BY DEF WalkTypes
  <2> HIDE DEF S, R
  <2>9. rows' \in [Columns -> SUBSET Nat]
    BY <1>1, <2>1, <2>7, <2>8
  <2>10. ASSUME NEW c \in Columns
         PROVE  rows'[c] \subseteq c..LastOID[c] /\ Cardinality(rows'[c]) <= MaxRows
    <3>1. CASE c = Owner
      BY <2>1, <2>6, <2>7, <2>8, <3>1
    <3>2. CASE c # Owner
      BY <2>1, <2>8, <3>2 DEF WalkTypes
    <3> QED
      BY <3>1, <3>2
  <2> QED
    BY <2>9, <2>10
<1> QED
  BY <1>2, <1>3, <1>4

(* WalkTypes is inductive.                                                 *)
LEMMA WalkTypesKept ==
    ASSUME Types, WalkTypes, [Next]_vars
    PROVE  WalkTypes'
<1>1. CASE UNCHANGED walkVars
  BY <1>1 DEF WalkTypes, walkVars, Within
<1>2. CASE ScalarsEnd
  <2>1. next' = [c \in Columns |-> c]
    BY <1>2 DEF ScalarsEnd
  <2> QED
    BY <1>2, <2>1, OidsAreNumbers DEF WalkTypes, ScalarsEnd, Within
<1>3. CASE WalkFailed
  BY <1>3 DEF WalkTypes, WalkFailed, consumeVars, Within
<1>4. ASSUME NEW k, WalkNoSuchName(k) PROVE WalkTypes'
  <2>1. next' = Keep(next, DOMAIN next \ Culprit(k)) /\ UNCHANGED consumeVars
    BY <1>4 DEF WalkNoSuchName
  <2> QED
    BY <2>1, KeptPositions DEF WalkTypes, consumeVars, Within
<1>5. ASSUME NEW response, WalkAnswered(response) PROVE WalkTypes'
  <2>1. Walking /\ response \in Responses
    BY <1>5 DEF WalkAnswered
  <2>2. DOMAIN response \subseteq Nat /\ response \in [DOMAIN response -> Varbinds]
    BY <2>1, ResponseTypes
  <2>3. Chunk \subseteq Columns
    BY <2>1, RequestSize DEF Chunk, WalkTypes
  <2> QED
    BY <1>5, <2>2, <2>3 DEF WalkTypes, WalkAnswered, Within
<1>6. CASE VarbindIgnored
  <2>1. packet' = Delete(packet, slot)
    BY <1>6 DEF VarbindIgnored
  <2> QED
    BY <1>6, <2>1, KeptVarbinds DEF WalkTypes, VarbindIgnored, Within
<1>7. CASE VarbindEchoed
  <2>1. packet' = Delete(packet, slot)
    BY <1>7 DEF VarbindEchoed
  <2>2. Owner \in chunk
    BY <1>7, VarbindAtHand DEF VarbindEchoed, Owned, Claimed
  <2> QED
    BY <1>7, <2>1, <2>2, KeptVarbinds DEF WalkTypes, VarbindEchoed, Within
<1>8. CASE VarbindCapped
  <2>1. packet' = Delete(packet, slot)
    BY <1>8 DEF VarbindCapped
  <2>2. Owner \in chunk /\ Owner \in Columns
    BY <1>8, VarbindAtHand DEF VarbindCapped, Owned, Claimed, WalkTypes
  <2>3. next' = Keep(next, DOMAIN next \ {Owner})
    BY <1>8 DEF VarbindCapped, Delete
  <2>4. truncated' \in Seq(Columns)
    BY <1>8, <2>2 DEF VarbindCapped, WalkTypes
  <2> QED
    BY <1>8, <2>1, <2>2, <2>3, <2>4, KeptVarbinds, KeptPositions
       DEF WalkTypes, VarbindCapped, Within
<1>9. CASE VarbindTaken
  <2>1. packet' = Delete(packet, slot)
    BY <1>9 DEF VarbindTaken
  <2>2. Owner \in chunk /\ Owner \in Columns /\ pdu \in Varbinds /\ Within(Owner, pdu.oid)
        /\ Owner \in DOMAIN next
    BY <1>9, VarbindAtHand DEF VarbindTaken, Owned, Claimed, WalkTypes
  <2>3. next' = [next EXCEPT ![Owner] = pdu.oid]
    BY <1>9, ClaimedOwner DEF VarbindTaken
  <2>4. DOMAIN next' = DOMAIN next /\ next' \in [DOMAIN next' -> Nat]
    BY <2>2, <2>3 DEF WalkTypes, Varbinds
  <2>5. \A c \in DOMAIN next' : next'[c] = c \/ Within(c, next'[c])
    BY <2>2, <2>3 DEF WalkTypes
  <2> QED
    BY <1>9, <2>1, <2>2, <2>4, <2>5, KeptVarbinds, StoredRows
       DEF WalkTypes, VarbindTaken, Within
<1>10. CASE PacketEnd
  <2>1. next' = Keep(next, DOMAIN next \ Over)
    BY <1>10 DEF PacketEnd
  <2> QED
    BY <1>10, <2>1, KeptPositions DEF WalkTypes, PacketEnd, Within
<1> QED
  BY <1>1, <1>2, <1>3, <1>4, <1>5, <1>6, <1>7, <1>8, <1>9, <1>10
     DEF Next, vars, walkVars, Fetch, FetchScalars, FetchColumns, Consume, Cancel, GetFailed,
         GetError, GetAnswered, GetGarbled, GetNoSuchName, WalkError, ColumnsEnd

LEMMA TypesInit == Init => Types /\ WalkTypes
<1> SUFFICES ASSUME Init PROVE Types /\ WalkTypes
  OBVIOUS
<1>1. PICK d \in Polled : agent = d.agent /\ mib = d.mib /\ scalarOf = d.scalar
  BY DEF Init
<1>2. /\ agent \in Agent /\ mib \subseteq Instances
      /\ scalarOf \in [ToSet(Scalars) -> {"value", "noSuchObject", "noSuchInstance"}]
  BY <1>1, PolledAssumption
<1>3. FullBatch \in [current : 1..BatchSize, streak : 0..(GrowAfter - 1)]
  BY SizesAssumption DEF FullBatch
<1>4. Scalars \in Seq(ToSet(Scalars))
  BY OidsAssumption DEF ToSet
<1>5. Types
  <2>1. losses \in 0..MaxLosses
    BY BoundsAssumption DEF Init
  <2>2. batch \in [current : 1..BatchSize, streak : 0..(GrowAfter - 1)]
        /\ remaining \in Seq(ToSet(Scalars))
    BY <1>3, <1>4 DEF Init
  <2>3. {cancelled, failed, useBulk, progressed} \subseteq BOOLEAN
        /\ phase \in {"scalars", "columns", "consume", "done"}
        /\ scalars \cup missing \subseteq ToSet(Scalars)
    BY DEF Init
  <2> QED
    BY <1>2, <2>1, <2>2, <2>3 DEF Types
<1>6. Cardinality({}) <= MaxRows
  BY FS_EmptySet, SizesAssumption
<1>7. WalkTypes
  BY <1>6 DEF WalkTypes, Init, EmptyMap, Within
<1> QED
  BY <1>5, <1>7

(* Whatever the agent sends, positions and rows stay within the subtree of *)
(* their column, no column gets more rows than it may, and the batch size  *)
(* stays in range.                                                         *)
THEOREM RowsStayInColumn == Spec => []TypeOK
<1>1. ASSUME Types, WalkTypes PROVE TypeOK
  <2>1. batch.current \in 1..BatchSize /\ batch.streak \in 0..(GrowAfter - 1)
    BY <1>1 DEF Types
  <2>2. ToSet(remaining) \subseteq ToSet(Scalars)
        /\ (Follows("get") => scalars \cup missing \subseteq ToSet(Scalars))
    <3>1. ASSUME NEW o \in ToSet(remaining) PROVE o \in ToSet(Scalars)
      <4>1. PICK i \in DOMAIN remaining : o = remaining[i]
        BY DEF ToSet
      <4> QED
        BY <1>1, <4>1 DEF Types
    <3> QED
      BY <1>1, <3>1 DEF Types
  <2>3. ToSet(truncated) \subseteq Columns
    <3>1. ASSUME NEW c \in ToSet(truncated) PROVE c \in Columns
      <4>1. PICK i \in DOMAIN truncated : c = truncated[i]
        BY DEF ToSet
      <4> QED
        BY <1>1, <4>1 DEF WalkTypes
    <3> QED
      BY <3>1
  <2> QED
    BY <1>1, <2>1, <2>2, <2>3 DEF Types, WalkTypes, TypeOK
<1>2. Types /\ WalkTypes /\ [Next]_vars => (Types /\ WalkTypes)'
  BY TypesKept, WalkTypesKept
<1> QED
  BY <1>1, <1>2, TypesInit, PTL DEF Spec

-----------------------------------------------------------------------------
(* A column is reported truncated when it is full, and its walk ends.      *)
LEMMA CapKept ==
    ASSUME Types, WalkTypes, CapInv, [Next]_vars
    PROVE  CapInv'
<1> DEFINE Once      == \A i, j \in DOMAIN truncated : truncated[i] = truncated[j] => i = j
           Final     == \A c \in ToSet(truncated) : Full(c) /\ c \notin DOMAIN next
           NotYet    == phase = "scalars" => DOMAIN next = {} /\ truncated = <<>>
<1>1. Once /\ Final /\ NotYet
  BY DEF CapInv, TruncationIsFinal
<1>2. SUFFICES Once' /\ Final' /\ NotYet'
  BY <1>2 DEF CapInv, TruncationIsFinal
<1>3. CASE UNCHANGED <<next, rows, truncated, phase>>
  BY <1>1, <1>3 DEF Full
<1>4. CASE UNCHANGED <<next, rows, truncated>> /\ phase' # "scalars"
  BY <1>1, <1>4 DEF Full
<1>5. CASE ScalarsEnd
  <2>1. truncated' = <<>> /\ phase' = "columns"
    BY <1>1, <1>5 DEF ScalarsEnd
  <2> QED
    BY <2>1 DEF ToSet
<1>6. ASSUME NEW S, next' = Keep(next, S), UNCHANGED <<rows, truncated>>, phase' # "scalars"
      PROVE  Once' /\ Final' /\ NotYet'
  BY <1>1, <1>6, KeptPositions DEF Full
<1>7. CASE VarbindCapped
  <2>1. Owner \in DOMAIN next /\ Full(Owner) /\ truncated' = Append(truncated, Owner)
        /\ next' = Keep(next, DOMAIN next \ {Owner}) /\ UNCHANGED <<rows, phase>>
    BY <1>7 DEF VarbindCapped, Owned, Claimed, Delete
  <2>2. Owner \notin ToSet(truncated) /\ truncated \in Seq(Columns) /\ Owner \in Columns
    BY <1>1, <2>1 DEF WalkTypes
  <2>3. ToSet(truncated') = ToSet(truncated) \cup {Owner}
    BY <2>1, <2>2 DEF ToSet
  <2>4. Once'
    BY <1>1, <2>1, <2>2 DEF ToSet
  <2>5. DOMAIN next' = DOMAIN next \ {Owner}
    BY <2>1, KeptPositions
  <2>6. Final'
    BY <1>1, <2>1, <2>3, <2>5 DEF Full
  <2>7. phase' = "consume"
    BY <1>7 DEF VarbindCapped, Owned, Varbinding
  <2> QED
    BY <2>4, <2>6, <2>7
<1>8. CASE VarbindTaken
  <2>1. Owner \in DOMAIN next /\ UNCHANGED <<truncated, phase>> /\ phase = "consume"
        /\ DOMAIN next' = DOMAIN next
    BY <1>8, ClaimedOwner DEF VarbindTaken, Owned, Claimed, Varbinding
  <2>2. ASSUME NEW c \in ToSet(truncated) PROVE rows'[c] = rows[c]
    <3>1. c # Owner /\ c \in Columns
      <4>1. PICK i \in DOMAIN truncated : c = truncated[i]
        BY DEF ToSet
      <4> QED
        BY <1>1, <2>1, <4>1 DEF WalkTypes
    <3> QED
      BY <1>8, <3>1 DEF VarbindTaken, WalkTypes
  <2> QED
    BY <1>1, <2>1, <2>2 DEF Full
<1>9. CASE PacketEnd
  BY <1>6, <1>9 DEF PacketEnd
<1>10. ASSUME NEW k, WalkNoSuchName(k) PROVE Once' /\ Final' /\ NotYet'
  BY <1>6, <1>10 DEF WalkNoSuchName, consumeVars, Walking
<1>11. CASE WalkFailed
  BY <1>3, <1>4, <1>11 DEF WalkFailed, consumeVars
<1>12. CASE WalkError \/ ColumnsEnd
  BY <1>4, <1>12 DEF WalkError, ColumnsEnd, walkVars
<1>13. ASSUME NEW response, WalkAnswered(response) PROVE Once' /\ Final' /\ NotYet'
  BY <1>4, <1>13 DEF WalkAnswered
<1> QED
  BY <1>3, <1>5, <1>7, <1>8, <1>9, <1>10, <1>11, <1>12, <1>13
     DEF Next, vars, walkVars, Fetch, FetchScalars, FetchColumns, Consume, Cancel, GetFailed,
         GetError, GetAnswered, GetGarbled, GetNoSuchName, VarbindIgnored, VarbindEchoed

(* The row cap is final, whatever the agent sends: a column is reported    *)
(* truncated once, with all the rows it may have, and not walked again.    *)
THEOREM CapIsFinal == Spec => []TruncationIsFinal
<1>1. Init => CapInv
  BY DEF Init, CapInv, TruncationIsFinal, ToSet, EmptyMap
<1>2. Types /\ WalkTypes /\ [Next]_vars => (Types /\ WalkTypes)'
  BY TypesKept, WalkTypesKept
<1>3. Types /\ WalkTypes /\ CapInv /\ [Next]_vars => CapInv'
  BY CapKept
<1>4. CapInv => TruncationIsFinal
  BY DEF CapInv
<1> QED
  BY <1>1, <1>2, <1>3, <1>4, TypesInit, PTL DEF Spec

-----------------------------------------------------------------------------
(* An agent without faults of its own fails a request for one OID only by  *)
(* losing it.                                                              *)
LEMMA RecoveryKept ==
    ASSUME Types, WalkTypes, RecoveryInv, [Next]_vars
    PROVE  RecoveryInv'
<1> SUFFICES ASSUME agent'.rogue = {}, agent'.limit >= 1, losses' = MaxLosses, ~cancelled'
             PROVE  ~failed'
  BY DEF RecoveryInv
<1>1. UNCHANGED agent
  BY DEF Next, vars, agentVars, Fetch, FetchScalars, FetchColumns, Consume, Cancel, GetFailed,
         GetError, GetAnswered, GetGarbled, ScalarsEnd, GetNoSuchName, WalkFailed,
         WalkError, ColumnsEnd,
         WalkNoSuchName, WalkAnswered, VarbindIgnored, VarbindEchoed, VarbindCapped,
         VarbindTaken, PacketEnd
<1>2. losses = MaxLosses /\ losses' = losses
  BY LossesFall, BoundsAssumption DEF Types
<1>3. ~cancelled
  BY DEF Next, vars, Fetch, FetchScalars, FetchColumns, Consume, Cancel, GetFailed,
         GetError, GetAnswered, GetGarbled, ScalarsEnd, GetNoSuchName, WalkFailed,
         WalkError, ColumnsEnd,
         WalkNoSuchName, WalkAnswered, VarbindIgnored, VarbindEchoed, VarbindCapped,
         VarbindTaken, PacketEnd
<1>4. ~failed /\ agent.rogue = {} /\ agent.limit >= 1 /\ agent.limit \in Nat
  BY <1>1, <1>2, <1>3, SizesAssumption DEF RecoveryInv, Types, Agent
<1>5. ASSUME NEW n \in Nat, Unanswered(n) PROVE n > agent.limit
  BY <1>2, <1>5, BoundsAssumption DEF Unanswered, Types
<1>6. CASE GetFailed
  <2>1. Len(Asked) \in Nat /\ Len(Asked) <= batch.current /\ batch.current \in Nat
    BY <1>6, AskedScalars, SizesAssumption DEF GetFailed, Types
  <2>2. Len(Asked) > agent.limit
    BY <1>5, <1>6, <2>1 DEF GetFailed
  <2>3. CanShrink
    BY <1>4, <2>1, <2>2 DEF CanShrink
  <2> QED
    BY <1>4, <1>6, <2>3 DEF GetFailed
<1>7. CASE WalkFailed
  <2>1. Cardinality(Requested) \in 1..batch.current /\ batch.current \in Nat
    BY <1>7, RequestSize, SizesAssumption DEF WalkFailed, Types
  <2>2. CanShrink \/ useBulk
    <3>1. CASE Unanswered(Cardinality(Requested))
      <4>1. Cardinality(Requested) \in Nat
        BY <2>1
      <4>2. Cardinality(Requested) > agent.limit
        BY <1>5, <3>1, <4>1
      <4> QED
        BY <1>4, <2>1, <4>2 DEF CanShrink
    <3> QED
      BY <1>7, <3>1 DEF WalkFailed, WalkUnanswered
  <2> QED
    BY <1>4, <1>7, <2>2 DEF WalkFailed, CanFallBack
<1>8. CASE ScalarsEnd \/ ColumnsEnd
  BY <1>3, <1>4, <1>8 DEF ScalarsEnd, ColumnsEnd
<1>9. CASE GetError \/ WalkError
  BY <1>4, <1>9 DEF GetError, WalkError, Follows
<1> QED
  BY <1>4, <1>6, <1>7, <1>8, <1>9
     DEF Next, vars, Fetch, FetchScalars, FetchColumns, Consume, Cancel, GetAnswered,
         GetGarbled, GetNoSuchName, WalkNoSuchName, WalkAnswered, VarbindIgnored, VarbindEchoed,
         VarbindCapped, VarbindTaken, PacketEnd

(* An agent with small buffers or without GETBULK costs requests, never    *)
(* data: as long as no request is lost, smaller batches and the fallback   *)
(* to GETNEXT leave nothing that could fail.                               *)
THEOREM RejectionIsNoFailure == Spec => []RecoversFromRejection
<1>1. Init => RecoveryInv
  BY DEF Init, RecoveryInv
<1>2. Types /\ WalkTypes /\ [Next]_vars => (Types /\ WalkTypes)'
  BY TypesKept, WalkTypesKept
<1>3. Types /\ WalkTypes /\ RecoveryInv /\ [Next]_vars => RecoveryInv'
  BY RecoveryKept
<1>4. RecoveryInv => RecoversFromRejection
  BY DEF RecoveryInv, RecoversFromRejection
<1> QED
  BY <1>1, <1>2, <1>3, <1>4, TypesInit, PTL DEF Spec

-----------------------------------------------------------------------------
(* What is not among the first n is among the rest.                        *)
LEMMA RestHas ==
    ASSUME NEW S, NEW s \in Seq(S), NEW n \in 0..Len(s), NEW i \in (n + 1)..Len(s)
    PROVE  s[i] \in ToSet(Rest(s, n))
<1>1. Len(s) \in Nat /\ n \in Nat /\ n <= Len(s) /\ i - n \in 1..(Len(s) - n)
  OBVIOUS
<1>2. Len(Rest(s, n)) = Len(s) - n /\ Rest(s, n)[i - n] = s[n + (i - n)]
      /\ Rest(s, n) \in Seq(S)
  BY <1>1, Halves
<1>3. i - n \in DOMAIN Rest(s, n) /\ n + (i - n) = i
  BY <1>1, <1>2
<1> QED
  BY <1>2, <1>3 DEF ToSet

(* Scalars asked for and answered leave the sequence, the others stay.     *)
LEMMA StillRemaining ==
    ASSUME Types, Getting, NEW o \in ToSet(remaining)
    PROVE  o \in ToSet(Asked) \/ o \in ToSet(Rest(remaining, Len(Asked)))
<1>1. PICK j \in 1..Len(remaining) : o = remaining[j]
  BY DEF Types, ToSet
<1>2. Len(Asked) \in 0..Len(remaining) /\ remaining \in Seq(ToSet(Scalars))
  BY AskedScalars DEF Types
<1>3. CASE j <= Len(Asked)
  <2>1. j \in 1..Len(Asked) /\ j \in DOMAIN Asked /\ Asked[j] = o
    BY <1>1, <1>2, <1>3, AskedScalars
  <2> QED
    BY <2>1 DEF ToSet
<1>4. CASE ~ (j <= Len(Asked))
  <2>1. j \in (Len(Asked) + 1)..Len(remaining)
    BY <1>1, <1>2, <1>4
  <2> QED
    BY <1>1, <1>2, <2>1, RestHas
<1> QED
  BY <1>3, <1>4

(* The same when one scalar is taken out.                                  *)
LEMMA AllButOne ==
    ASSUME Types, Getting, NEW i \in 1..Len(Asked), NEW o \in ToSet(remaining), o # Asked[i]
    PROVE  o \in ToSet(First(remaining, i - 1) \o Rest(remaining, i))
<1> DEFINE S == ToSet(Scalars)
           f == First(remaining, i - 1)
           r == Rest(remaining, i)
<1>1. PICK j \in 1..Len(remaining) : o = remaining[j]
  BY DEF Types, ToSet
<1>2. remaining \in Seq(S) /\ Len(remaining) \in Nat /\ Len(Asked) \in Nat
      /\ i \in 1..Len(remaining) /\ Asked[i] = remaining[i]
  BY AskedScalars DEF Types
<1>3. i - 1 \in Nat /\ i \in Nat /\ i - 1 < Len(remaining) /\ i <= Len(remaining) /\ j # i
  BY <1>1, <1>2
<1>4. f \in Seq(S) /\ Len(f) = i - 1 /\ \A k \in 1..Len(f) : f[k] = remaining[k]
  BY <1>2, <1>3, Halves
<1>5. r \in Seq(S) /\ Len(r) = Len(remaining) - i
      /\ \A k \in 1..(Len(remaining) - i) : r[k] = remaining[i + k]
  BY <1>2, <1>3, Halves
<1> HIDE DEF f, r
<1>6. CASE j < i
  <2>1. j \in 1..Len(f) /\ f[j] = o
    BY <1>1, <1>2, <1>3, <1>4, <1>6
  <2>2. /\ f \o r \in Seq(S) /\ Len(f \o r) = Len(f) + Len(r)
        /\ \A k \in 1..Len(f) + Len(r) : (f \o r)[k] = IF k <= Len(f) THEN f[k] ELSE r[k - Len(f)]
    BY <1>4, <1>5, ConcatProperties
  <2>3. Len(f) \in Nat /\ Len(r) \in Nat /\ j \in 1..Len(f \o r)
    BY <1>4, <1>5, <2>1, <2>2
  <2>4. j \in DOMAIN (f \o r) /\ (f \o r)[j] = o
    <3>1. j <= Len(f)
      BY <1>4, <2>1
    <3> QED
      BY <2>1, <2>2, <2>3, <3>1
  <2> QED
    BY <2>4 DEF ToSet, f, r
<1>7. CASE i < j
  <2>1. j - i \in 1..Len(r) /\ r[j - i] = remaining[i + (j - i)] /\ i + (j - i) = j
    BY <1>1, <1>2, <1>3, <1>5, <1>7
  <2>2. j - 1 \in DOMAIN (f \o r) /\ (f \o r)[j - 1] = r[j - i]
    BY <1>1, <1>2, <1>3, <1>4, <1>5, <1>7, <2>1
  <2>3. (f \o r)[j - 1] = o
    BY <1>1, <2>1, <2>2
  <2> QED
    BY <2>2, <2>3 DEF ToSet, f, r
<1> QED
  BY <1>1, <1>2, <1>3, <1>6, <1>7

(* ScalarsInv is inductive.                                                *)
LEMMA ScalarsKept ==
    ASSUME Types, ScalarsInv, [Next]_vars
    PROVE  ScalarsInv'
<1>1. UNCHANGED <<agent, scalarOf>>
  BY DEF Next, vars, agentVars, Fetch, FetchScalars, FetchColumns, Consume, Cancel, GetFailed,
         GetError, GetAnswered, GetGarbled, ScalarsEnd, GetNoSuchName, WalkFailed,
         WalkError, ColumnsEnd,
         WalkNoSuchName, WalkAnswered, VarbindIgnored, VarbindEchoed, VarbindCapped,
         VarbindTaken, PacketEnd
<1> SUFFICES ASSUME Follows("get") PROVE ScalarsInv'
  BY <1>1 DEF ScalarsInv, Follows
<1>2. /\ \A o \in missing : scalarOf[o] = "noSuchObject" \/ (agent.v1 /\ scalarOf[o] # "value")
      /\ \A o \in scalars : scalarOf[o] = "value"
      /\ ~failed => \A o \in ToSet(Scalars) : o \in ToSet(remaining) \/ Accounted(o)
      /\ phase # "scalars" /\ ~failed => remaining = <<>>
  BY DEF ScalarsInv
<1>3. CASE UNCHANGED scalarVars /\ (failed => failed') /\ (phase # "scalars" \/ phase' = "scalars")
  BY <1>1, <1>2, <1>3 DEF ScalarsInv, scalarVars, Accounted
<1>4. CASE ScalarsEnd
  <2>1. UNCHANGED scalarVars /\ (~failed' => ~failed /\ remaining = <<>>)
    BY <1>4, <1>2 DEF ScalarsEnd
  <2> QED
    BY <1>1, <1>2, <2>1 DEF ScalarsInv, scalarVars, Accounted
<1>5. CASE UNCHANGED <<scalars, missing>> /\ failed' = TRUE
  BY <1>1, <1>2, <1>5 DEF ScalarsInv
<1>6. CASE GetFailed
  <2>1. CASE CanShrink /\ UNCHANGED <<remaining, failed>>
    BY <1>3, <1>6, <2>1 DEF GetFailed, scalarVars
  <2> QED
    BY <1>5, <1>6, <2>1 DEF GetFailed
<1>7. CASE GetAnswered
  <2>1. Getting /\ phase = "scalars" /\ UNCHANGED <<failed, phase>>
    BY <1>7 DEF GetAnswered, Getting
  <2>2. \A o \in scalars' : scalarOf[o] = "value"
    BY <1>2, <1>7 DEF GetAnswered
  <2>3. \A o \in missing' : scalarOf[o] = "noSuchObject" \/ (agent.v1 /\ scalarOf[o] # "value")
    BY <1>2, <1>7 DEF GetAnswered, Unimplemented
  <2>4. ASSUME ~failed', NEW o \in ToSet(Scalars)
        PROVE  o \in ToSet(remaining') \/ Accounted(o)'
    <3>1. CASE o \in ToSet(Asked)
      BY <1>1, <1>7, <3>1 DEF GetAnswered, Unimplemented, Accounted
    <3>2. CASE o \in ToSet(remaining) /\ o \notin ToSet(Asked)
      BY <1>7, <2>1, <3>2, StillRemaining DEF GetAnswered, DropAsked
    <3>3. CASE Accounted(o)
      BY <1>1, <1>7, <3>3 DEF GetAnswered, Accounted
    <3> QED
      BY <1>2, <2>1, <2>4, <3>1, <3>2, <3>3
  <2> QED
    BY <1>1, <2>1, <2>2, <2>3, <2>4 DEF ScalarsInv
<1>8. ASSUME NEW i, GetNoSuchName(i) PROVE ScalarsInv'
  <2>1. Getting /\ phase = "scalars" /\ UNCHANGED <<failed, phase, scalars>>
    BY <1>8 DEF GetNoSuchName, Getting
  <2>2. i \in 1..Len(Asked) /\ agent.v1 /\ scalarOf[Asked[i]] # "value"
        /\ missing' = missing \cup {Asked[i]}
    BY <1>8, <2>1, AskedScalars DEF GetNoSuchName
  <2>3. \A o \in missing' : scalarOf[o] = "noSuchObject" \/ (agent.v1 /\ scalarOf[o] # "value")
    BY <1>2, <2>2
  <2>4. ASSUME ~failed', NEW o \in ToSet(Scalars)
        PROVE  o \in ToSet(remaining') \/ Accounted(o)'
    <3>1. CASE o = Asked[i]
      BY <1>1, <2>2, <3>1 DEF Accounted
    <3>2. CASE o \in ToSet(remaining) /\ o # Asked[i]
      BY <1>8, <2>1, <2>2, <3>2, AllButOne DEF GetNoSuchName
    <3>3. CASE Accounted(o)
      BY <1>1, <2>1, <2>2, <3>3 DEF Accounted
    <3> QED
      BY <1>2, <2>1, <2>4, <3>1, <3>2, <3>3
  <2> QED
    BY <1>1, <1>2, <2>1, <2>3, <2>4 DEF ScalarsInv
<1>9. CASE GetError
  BY <1>5, <1>9 DEF GetError
<1>10. CASE UNCHANGED vars \/ Cancel
  BY <1>3, <1>10 DEF vars, scalarVars, Cancel
<1>11. CASE WalkFailed
  <2>1. UNCHANGED scalarVars /\ (failed => failed') /\ phase # "scalars"
    BY <1>11 DEF WalkFailed, Walking
  <2> QED
    BY <1>3, <2>1
<1>12. CASE WalkError \/ ColumnsEnd
  <2>1. UNCHANGED scalarVars /\ (failed => failed') /\ phase # "scalars"
    BY <1>12 DEF WalkError, ColumnsEnd, Walking
  <2> QED
    BY <1>3, <2>1
<1>13. ASSUME (\E k : WalkNoSuchName(k)) \/ \E response : WalkAnswered(response)
       PROVE  ScalarsInv'
  BY <1>3, <1>13 DEF WalkNoSuchName, WalkAnswered, Walking
<1>14. CASE Consume
  BY <1>3, <1>14 DEF Consume, VarbindIgnored, VarbindEchoed, VarbindCapped, VarbindTaken,
                     PacketEnd, Varbinding, Owned
<1>15. ASSUME NEW response, NEW absent, GetGarbled(response, absent) PROVE ScalarsInv'
  BY <1>15 DEF GetGarbled
<1> QED
  BY <1>4, <1>6, <1>7, <1>8, <1>9, <1>10, <1>11, <1>12, <1>13, <1>14, <1>15
     DEF Next, Fetch, FetchScalars, FetchColumns

(* Only what the device does not implement is reported missing, and a      *)
(* Fetch without an error has asked for every scalar and has those that    *)
(* have a value, whatever was lost, shrunk, rejected or taken out.         *)
THEOREM EveryScalarAccounted == Spec => []ScalarsAccounted
<1>1. Init => ScalarsInv
  <2> SUFFICES ASSUME Init PROVE ScalarsInv
    OBVIOUS
  <2> QED
    BY DEF Init, ScalarsInv
<1>2. Types /\ [Next]_vars => Types'
  BY TypesKept
<1>3. Types /\ ScalarsInv /\ [Next]_vars => ScalarsInv'
  BY ScalarsKept
<1>4. ASSUME Types, ScalarsInv PROVE ScalarsAccounted
  <2> SUFFICES ASSUME Follows("get"), phase = "done", ~failed
               PROVE  /\ scalars = {o \in ToSet(Scalars) : scalarOf[o] = "value"}
                      /\ {o \in ToSet(Scalars) : scalarOf[o] = "noSuchObject"} \subseteq missing
    BY <1>4 DEF ScalarsAccounted, ScalarsInv
  <2>1. ToSet(remaining) = {}
    BY <1>4 DEF ScalarsInv, ToSet
  <2>2. \A o \in ToSet(Scalars) : Accounted(o)
    BY <1>4, <2>1 DEF ScalarsInv
  <2>3. \A o \in scalars : scalarOf[o] = "value" /\ o \in ToSet(Scalars)
    BY <1>4 DEF ScalarsInv, Types
  <2> QED
    BY <2>2, <2>3 DEF Accounted
<1> QED
  BY <1>1, <1>2, <1>3, <1>4, TypesInit, PTL DEF Spec

-----------------------------------------------------------------------------
(* The repetitions of a walk from o are the instances after it in order:   *)
(* repetition r is of an instance, all between o and it came in earlier    *)
(* ones, and if it has no value though the instance does it repeats an     *)
(* earlier one.                                                            *)
LEMMA RepetitionsInOrder ==
    ASSUME mib \subseteq Instances, NEW o \in Nat,
           NEW r \in 1..(Cardinality(After(o)) + 1)
    PROVE  LET v == Repetition(o, r) IN
           /\ v.oid = o \/ v.oid \in After(o)
           /\ \A x \in After(o) : x < v.oid => \E q \in 1..(r - 1) : Repetition(o, q).oid = x
           /\ \/ v.oid = o
              \/ v.valued = HasValue(v.oid)
              \/ \E q \in 1..(r - 1) : Repetition(o, q).oid = v.oid
<1> DEFINE S == After(o)
           n == Cardinality(S)
           v == Repetition(o, r)
<1>1. S \subseteq Nat /\ IsFiniteSet(S) /\ n \in Nat
  BY AfterIsFinite, FS_CardinalityType
<1>2. \A q \in 1..n : Repetition(o, q) = Varbind(Nth(S, q))
  BY <1>1 DEF Repetition
<1>3. \A q \in 1..n : Nth(S, q) \in S /\ Cardinality(UpTo(S, Nth(S, q))) = q
  BY <1>1, NthHasRank
<1>4. \A x \in S : Cardinality(UpTo(S, x)) \in 1..n /\ Nth(S, Cardinality(UpTo(S, x))) = x
  BY <1>1, RankType, NthOfRank
<1>5. ASSUME NEW p \in 1..n, p <= r, v.oid = Nth(S, p)
      PROVE  /\ v.oid \in S
             /\ \A x \in S : x < v.oid => \E q \in 1..(r - 1) : Repetition(o, q).oid = x
  <2>1. v.oid \in S /\ Cardinality(UpTo(S, v.oid)) = p
    BY <1>3, <1>5
  <2>2. ASSUME NEW x \in S, x < v.oid
        PROVE  \E q \in 1..(r - 1) : Repetition(o, q).oid = x
    <3> DEFINE q == Cardinality(UpTo(S, x))
    <3>1. q < p
      BY <1>1, <2>1, <2>2, RankGrows
    <3>2. q \in 1..n /\ Nth(S, q) = x
      BY <1>4
    <3>3. q \in 1..(r - 1)
      BY <1>1, <1>5, <3>1, <3>2
    <3>4. Repetition(o, q).oid = x
      BY <1>2, <3>2 DEF Varbind
    <3> QED
      BY <3>3, <3>4
  <2> QED
    BY <2>1, <2>2
<1>6. CASE r <= n
  <2>1. r \in 1..n /\ v = Varbind(Nth(S, r))
    BY <1>1, <1>2, <1>6
  <2>2. v.oid = Nth(S, r) /\ v.valued = HasValue(v.oid)
    BY <2>1 DEF Varbind
  <2> QED
    BY <1>1, <1>5, <2>1, <2>2
<1>7. CASE r = n + 1 /\ n = 0
  <2>1. v.oid = o
    BY <1>7 DEF Repetition, EndOfMibView
  <2>2. S = {}
    BY <1>1, <1>7, FS_EmptySet
  <2> QED
    BY <2>1, <2>2
<1>8. CASE r = n + 1 /\ n # 0
  <2>1. n \in 1..n /\ n <= r /\ n \in 1..(r - 1)
    BY <1>1, <1>8
  <2>2. ~ (r <= n)
    BY <1>1, <1>8
  <2>3. v.oid = Nth(S, n)
    BY <1>8, <2>2 DEF Repetition, EndOfMibView
  <2>4. Repetition(o, n).oid = v.oid
    BY <1>2, <2>1, <2>3 DEF Varbind
  <2> QED
    BY <1>5, <2>1, <2>3, <2>4
<1> QED
  BY <1>1, <1>6, <1>7, <1>8

(* A cursor's earlier repetitions are in earlier slots.                    *)
LEMMA EarlierRows ==
    ASSUME mib \subseteq Instances, ColumnOrder # <<>>, NEW reps \in Nat,
           NEW s \in Slots(reps), NEW q \in 1..(Row(s) - 1)
    PROVE  \E t \in Slots(reps) : t < s /\ Place(t) = Place(s) /\ Row(t) = q
<1> DEFINE N == Len(ColumnOrder)
           i == ((s - 1) % N) + 1
           p == (s - 1) \div N
           t == (q - 1) * N + i
<1>1. N \in Nat \ {0} /\ N * reps \in Nat
  BY OidsAssumption
<1>2. s \in 1..(N * reps) /\ Row(s) <= Cardinality(After(Position(Place(s)))) + 1
      /\ Place(s) \in Requested
  BY DEF Slots
<1>3. s \in Nat \ {0}
  BY <1>1, <1>2
<1>4. p \in Nat /\ i \in 1..N /\ s = p * N + i
  BY <1>1, <1>3
<1>5. Row(s) = p + 1 /\ Place(s) = i
  BY DEF Row, Place
<1> HIDE DEF p, i, N
<1>6. q \in Nat /\ q - 1 \in Nat /\ q <= p /\ q \in Int
  BY <1>4, <1>5
<1>7. (t - 1) \div N = q - 1 /\ (t - 1) % N = i - 1
  <2>1. ((q - 1) * N + i - 1) \div N = q - 1 /\ ((q - 1) * N + i - 1) % N = i - 1
    BY <1>1, <1>4, <1>6, RowAndColumn
  <2>2. (q - 1) * N \in Int /\ i \in Int
    BY <1>1, <1>4, <1>6
  <2>3. t - 1 = (q - 1) * N + i - 1
    BY <2>2
  <2> QED
    BY <2>1, <2>3
<1>8. t \in Nat \ {0} /\ t < s
  <2>1. \E e \in Nat : p = (q - 1) + 1 + e
    <3>1. p - q \in Nat /\ p = (q - 1) + 1 + (p - q)
      BY <1>4, <1>6
    <3> QED
      BY <3>1
  <2>2. PICK e \in Nat : p = (q - 1) + 1 + e
    BY <2>1
  <2>3. p * N = (q - 1) * N + N + e * N
    BY <1>1, <1>6, <2>2
  <2>4. (q - 1) * N \in Nat /\ e * N \in Nat /\ p * N \in Nat
    BY <1>1, <1>4, <1>6, <2>2
  <2> QED
    BY <1>1, <1>4, <2>3, <2>4
<1> HIDE DEF t
<1>9. t \in 1..(N * reps)
  BY <1>1, <1>2, <1>3, <1>8
<1>10. Place(t) = i /\ Row(t) = q
  BY <1>4, <1>6, <1>7 DEF Place, Row, N
<1>11. Row(t) <= Cardinality(After(Position(Place(t)))) + 1
  <2>1. Cardinality(After(Position(Place(s)))) \in Nat
    BY AfterIsFinite, FS_CardinalityType
  <2>2. p + 1 <= Cardinality(After(Position(Place(s)))) + 1
    BY <1>2, <1>5
  <2>3. Place(t) = Place(s)
    BY <1>5, <1>10
  <2> QED
    BY <1>4, <1>6, <1>10, <2>1, <2>2, <2>3
<1>12. t \in Slots(reps)
  BY <1>2, <1>5, <1>9, <1>10, <1>11 DEF Slots, N
<1> QED
  BY <1>5, <1>8, <1>10, <1>12

(* Every cursor has a first repetition.                                    *)
LEMMA FirstRow ==
    ASSUME mib \subseteq Instances, NEW reps \in Nat \ {0}, NEW k \in Requested,
           k \in DOMAIN ColumnOrder
    PROVE  k \in Slots(reps) /\ Place(k) = k /\ Row(k) = 1
<1> DEFINE N == Len(ColumnOrder)
<1>1. N \in Nat \ {0} /\ k \in 1..N
  BY OidsAssumption
<1>2. (0 * N + k - 1) \div N = 0 /\ (0 * N + k - 1) % N = k - 1
  BY <1>1, RowAndColumn
<1>3. (k - 1) \div N = 0 /\ (k - 1) % N = k - 1
  <2>1. 0 * N + k - 1 = k - 1
    BY <1>1
  <2> QED
    BY <1>2, <2>1
<1>4. Place(k) = k /\ Row(k) = 1
  <2>1. Place(k) = k - 1 + 1 /\ Row(k) = 0 + 1
    BY <1>3 DEF Place, Row
  <2> QED
    BY <1>1, <2>1
<1>5. N <= N * reps
  <2>1. PICK e \in Nat : reps = 1 + e
    <3>1. reps - 1 \in Nat /\ reps = 1 + (reps - 1)
      OBVIOUS
    <3> QED
      BY <3>1
  <2>2. N * reps = N + N * e /\ N * e \in Nat
    BY <1>1, <2>1
  <2> QED
    BY <1>1, <2>2
<1>6. k \in 1..(N * reps)
  BY <1>1, <1>5
<1>7. Cardinality(After(Position(k))) \in Nat
  BY AfterIsFinite, FS_CardinalityType
<1> QED
  BY <1>4, <1>6, <1>7 DEF Slots

-----------------------------------------------------------------------------
(* With disjoint columns an OID is below one column at most, and a         *)
(* column's own rows are the decodable instances below it.                 *)
LEMMA OneOwner ==
    ASSUME DisjointColumns, NEW c \in Columns, NEW d \in Columns,
           NEW o \in Nat, c <= o, o <= LastOID[c], d <= o, o <= LastOID[d]
    PROVE  c = d
BY OidsAreNumbers, OidsAssumption DEF DisjointColumns

LEMMA OwnRows ==
    ASSUME DisjointColumns, mib \subseteq Instances, NEW c \in Columns
    PROVE  /\ Own(c) = {o \in mib \ Undecodable : Within(c, o)}
           /\ Own(c) \subseteq Nat /\ IsFiniteSet(Own(c))
<1>1. ASSUME NEW o \in mib \ Undecodable, Within(c, o)
      PROVE  Matching(Columns, o) = {c}
  <2>1. o \in Nat /\ c \in Nat /\ LastOID[c] \in Nat
    BY OidsAreNumbers, OidsAssumption
  <2>2. ASSUME NEW d \in Columns, Within(d, o) PROVE d = c
    <3>1. d \in Nat /\ LastOID[d] \in Nat
      BY OidsAreNumbers, OidsAssumption
    <3> QED
      BY <1>1, <2>1, <2>2, <3>1, OneOwner DEF Within
  <2> QED
    BY <1>1, <2>2 DEF Matching
<1>2. \A x \in {c} : Deepest({c}) = c
  <2>1. c >= c
    BY OidsAreNumbers
  <2> QED
    BY <2>1 DEF Deepest, Max
<1>3. ASSUME NEW o \in mib \ Undecodable, Within(c, o) PROVE o \in Own(c)
  BY <1>1, <1>2, <1>3 DEF Own
<1>4. ASSUME NEW o \in Own(c) PROVE Within(c, o)
  <2>1. Matching(Columns, o) # {} /\ Deepest(Matching(Columns, o)) = c /\ o \in Nat
    BY OidsAssumption DEF Own
  <2>2. PICK d \in Columns : Within(d, o)
    BY <2>1 DEF Matching
  <2>3. Matching(Columns, o) \subseteq Nat /\ \A b \in Matching(Columns, o) : b <= o
    <3>1. ASSUME NEW b \in Matching(Columns, o) PROVE b \in Nat /\ b <= o
      <4>1. b \in Columns /\ b < o
        BY DEF Matching, Within
      <4> QED
        BY <2>1, <4>1, OidsAreNumbers
    <3> QED
      BY <3>1
  <2>4. IsFiniteSet(Matching(Columns, o))
    BY <2>1, <2>3, FS_BoundedSetOfNaturals
  <2>5. \E x \in Matching(Columns, o) : \A y \in Matching(Columns, o) : y <= x
    BY <2>1, <2>3, <2>4, GreatestNatural
  <2>6. \E x \in Matching(Columns, o) : \A y \in Matching(Columns, o) : x >= y
    BY <2>3, <2>5
  <2>7. c \in Matching(Columns, o)
    BY <2>1, <2>6 DEF Deepest, Max
  <2> QED
    BY <2>7 DEF Matching
<1>5. Own(c) = {o \in mib \ Undecodable : Within(c, o)}
  BY <1>3, <1>4 DEF Own
<1>6. Own(c) \in SUBSET Instances
  BY DEF Own
<1>7. IsFiniteSet(Own(c)) /\ Own(c) \subseteq Nat
  BY <1>6, OidsAssumption, FS_Subset
<1> QED
  BY <1>5, <1>7

(* A walk that has no more instances ahead has all the rows.               *)
LEMMA EndOfColumn ==
    ASSUME DisjointColumns, Types, WalkTypes, NEW c \in DOMAIN next, RowsSoFar(c), ~HasMore(c)
    PROVE  CompleteColumn(c)
<1>1. c \in Columns /\ mib \subseteq Instances /\ next[c] \in Nat
  BY OidsAreNumbers DEF Types, WalkTypes
<1>2. Own(c) \subseteq Nat /\ IsFiniteSet(Own(c)) /\ \A o \in Own(c) : o \in mib /\ Within(c, o)
  BY <1>1, OwnRows
<1>3. rows[c] = Own(c)
  BY <1>1, <1>2 DEF RowsSoFar, HasMore
<1>4. Cardinality(Own(c)) <= MaxRows /\ Cardinality(Own(c)) \in Nat /\ MaxRows \in Nat
  BY <1>1, <1>2, <1>3, FS_CardinalityType, SizesAssumption DEF WalkTypes
<1>5. ASSUME NEW o \in Own(c) PROVE Cardinality({x \in Own(c) : x <= o}) <= MaxRows
  <2>1. {x \in Own(c) : x <= o} \in SUBSET Own(c)
    OBVIOUS
  <2>2. Cardinality({x \in Own(c) : x <= o}) <= Cardinality(Own(c))
        /\ IsFiniteSet({x \in Own(c) : x <= o})
    BY <1>2, <2>1, FS_Subset
  <2>3. Cardinality({x \in Own(c) : x <= o}) \in Nat
    BY <2>2, FS_CardinalityType
  <2> QED
    BY <1>4, <2>2, <2>3
<1>6. LowestRows(Own(c)) = Own(c)
  BY <1>5 DEF LowestRows
<1> QED
  BY <1>3, <1>4, <1>6 DEF CompleteColumn, RowsSoFar

(* A full column with a row ahead has the lowest rows, and they are not    *)
(* all.                                                                    *)
LEMMA FullColumn ==
    ASSUME DisjointColumns, Types, WalkTypes, NEW c \in DOMAIN next, RowsSoFar(c), Full(c),
           NEW o \in Own(c), next[c] < o
    PROVE  rows[c] = LowestRows(Own(c)) /\ Cardinality(Own(c)) > MaxRows
<1> DEFINE W == Own(c)
           R == rows[c]
           Upto(x) == {y \in W : y <= x}
<1>1. c \in Columns /\ mib \subseteq Instances /\ next[c] \in Nat
  BY OidsAreNumbers DEF Types, WalkTypes
<1>2. W \subseteq Nat /\ IsFiniteSet(W)
  BY <1>1, OwnRows
<1>3. R = {y \in W : y <= next[c]}
  BY DEF RowsSoFar
<1>4. R \in SUBSET W /\ IsFiniteSet(R)
  BY <1>2, <1>3, FS_Subset
<1>5. Cardinality(R) = MaxRows /\ MaxRows \in Nat
  <2>1. Cardinality(R) >= MaxRows /\ Cardinality(R) <= MaxRows
    BY <1>1 DEF Full, WalkTypes
  <2>2. Cardinality(R) \in Nat /\ MaxRows \in Nat
    BY <1>4, FS_CardinalityType, SizesAssumption
  <2> QED
    BY <2>1, <2>2
<1>6. \A x : IsFiniteSet(Upto(x)) /\ Cardinality(Upto(x)) \in Nat
             /\ Cardinality(Upto(x)) <= Cardinality(W)
  <2>1. ASSUME NEW x PROVE IsFiniteSet(Upto(x)) /\ Cardinality(Upto(x)) <= Cardinality(W)
    <3>1. Upto(x) \in SUBSET W
      OBVIOUS
    <3> QED
      BY <1>2, <3>1, FS_Subset
  <2> QED
    BY <2>1, FS_CardinalityType
<1>7. ASSUME NEW x \in W, x <= next[c] PROVE Cardinality(Upto(x)) <= MaxRows
  <2>1. Upto(x) \in SUBSET R
    <3>1. ASSUME NEW y \in Upto(x) PROVE y <= next[c]
      BY <1>1, <1>2, <1>7, <3>1
    <3> QED
      BY <1>3, <3>1
  <2> QED
    BY <1>4, <1>5, <1>6, <2>1, FS_Subset
<1>8. ASSUME NEW x \in W, ~ (x <= next[c]) PROVE Cardinality(Upto(x)) > MaxRows
  <2>1. x \in Nat /\ x \notin R /\ next[c] < x
    BY <1>1, <1>2, <1>3, <1>8
  <2>2. R \cup {x} \in SUBSET Upto(x)
    <3>1. ASSUME NEW y \in R PROVE y \in W /\ y <= x
      BY <1>1, <1>2, <1>3, <2>1, <3>1
    <3> QED
      BY <2>1, <3>1
  <2>3. Cardinality(R \cup {x}) = MaxRows + 1
    BY <1>4, <1>5, <2>1, FS_AddElement
  <2>4. Cardinality(R \cup {x}) <= Cardinality(Upto(x))
    BY <1>6, <2>2, FS_Subset
  <2> QED
    BY <1>5, <1>6, <2>3, <2>4
<1>9. R = LowestRows(W)
  <2>1. ASSUME NEW x \in W PROVE x \in R <=> Cardinality(Upto(x)) <= MaxRows
    <3>1. x \in R <=> x <= next[c]
      BY <1>3
    <3>2. CASE x <= next[c]
      BY <1>7, <3>1, <3>2
    <3>3. CASE ~ (x <= next[c])
      <4>1. Cardinality(Upto(x)) > MaxRows /\ Cardinality(Upto(x)) \in Nat
        BY <1>6, <1>8, <3>3
      <4>2. ~ (Cardinality(Upto(x)) <= MaxRows)
        BY <1>5, <4>1
      <4> QED
        BY <3>1, <3>3, <4>2
    <3> QED
      BY <3>2, <3>3
  <2> QED
    BY <1>4, <2>1 DEF LowestRows
<1>10. Cardinality(W) > MaxRows
  <2>1. ~ (o <= next[c])
    BY <1>1, <1>2
  <2>2. Cardinality(Upto(o)) > MaxRows /\ Cardinality(Upto(o)) <= Cardinality(W)
    BY <1>6, <1>8, <2>1
  <2>3. Cardinality(W) \in Nat
    BY <1>2, FS_CardinalityType
  <2> QED
    BY <1>5, <1>6, <2>2, <2>3
<1> QED
  BY <1>9, <1>10

-----------------------------------------------------------------------------
(* The response of an agent that keeps to the protocol skips nothing,      *)
(* tells the truth, and is ahead for every column that has more.           *)
LEMMA ResponseIsSound ==
    ASSUME DisjointColumns, Types, WalkTypes, Sound,
           NEW response, WalkAnswered(response), NEW c \in chunk' \cap DOMAIN next'
    PROVE  SoundAt(c)'
<1> DEFINE reps == IF useBulk THEN agent.reps ELSE 1
           Start(s) == Position(Place(s))
<1>1. Walking /\ response \in Responses /\ packet' = response /\ chunk' = Chunk
      /\ UNCHANGED <<mib, next>>
  BY DEF WalkAnswered, agentVars
<1>2. mib \subseteq Instances /\ c \in Columns /\ c \in Nat /\ LastOID[c] \in Nat
      /\ c \in DOMAIN next /\ next[c] \in Nat /\ c <= next[c]
  <2>1. c \in DOMAIN next /\ c \in Columns /\ mib \subseteq Instances
    BY <1>1 DEF Types, WalkTypes
  <2>2. c \in Nat /\ LastOID[c] \in Nat /\ next[c] \in Nat
    BY <2>1, OidsAreNumbers, OidsAssumption DEF WalkTypes
  <2> QED
    BY <2>1, <2>2 DEF WalkTypes, Within
<1>3. reps \in Nat \ {0}
  BY SizesAssumption DEF Types, Agent
<1>4. ColumnOrder # <<>>
  BY <1>1, RequestSize
<1>5. response = [s \in Slots(reps) |-> Repetition(Start(s), Row(s))]
  BY <1>1 DEF Responses, Sound, Walk
<1> HIDE DEF reps
<1>6. ASSUME NEW s \in Slots(reps)
      PROVE  /\ s \in Nat /\ Start(s) \in Nat /\ Row(s) \in 1..(Cardinality(After(Start(s))) + 1)
             /\ \E d \in Columns : d <= Start(s) /\ Start(s) <= LastOID[d] /\ Start(s) = next[d]
  <2>1. s \in Nat /\ Row(s) \in Nat \ {0} /\ Place(s) \in Requested
    BY <1>3, <1>4, RowsOfSlots
  <2>2. Row(s) <= Cardinality(After(Start(s))) + 1
    BY DEF Slots
  <2>3. Cardinality(After(Start(s))) \in Nat
    BY <1>2, AfterIsFinite, FS_CardinalityType
  <2> DEFINE d == ColumnOrder[Place(s)]
  <2>4. d \in DOMAIN next /\ d \in Columns /\ Start(s) = next[d]
    BY <1>1, <2>1, RequestSize DEF Position, WalkTypes
  <2>5. d \in Nat /\ LastOID[d] \in Nat /\ next[d] \in Nat /\ d <= LastOID[d]
    BY <2>4, OidsAreNumbers, OidsAssumption DEF WalkTypes
  <2>6. d <= next[d] /\ next[d] <= LastOID[d]
    BY <2>4, <2>5 DEF WalkTypes, Within
  <2> QED
    BY <2>1, <2>2, <2>3, <2>4, <2>5, <2>6
<1>7. ASSUME NEW s \in Slots(reps), Within(c, response[s].oid)
      PROVE  SkipsNothing(c, s)' /\ TellsTheTruth(c, s)'
  <2> DEFINE v == response[s]
             o == Start(s)
             r == Row(s)
  <2>1. v = Repetition(o, r) /\ o \in Nat /\ r \in 1..(Cardinality(After(o)) + 1)
    BY <1>5, <1>6
  <2>2. /\ v.oid = o \/ v.oid \in After(o)
        /\ \A x \in After(o) : x < v.oid => \E q \in 1..(r - 1) : Repetition(o, q).oid = x
        /\ \/ v.oid = o
           \/ v.valued = HasValue(v.oid)
           \/ \E q \in 1..(r - 1) : Repetition(o, q).oid = v.oid
    BY <1>2, <2>1, RepetitionsInOrder
  <2>3. v.oid \in Nat /\ (v.oid \in mib \/ v.oid = o) /\ o <= v.oid
    <3>1. CASE v.oid = o
      BY <2>1, <3>1
    <3>2. CASE v.oid \in After(o)
      <4>1. v.oid \in Nat /\ v.oid \in mib /\ o < v.oid
        BY <1>2, <3>2, AfterIsFinite DEF After
      <4> QED
        BY <2>1, <4>1
    <3> QED
      BY <2>2, <3>1, <3>2
  <2>4. PICK d \in Columns : d <= o /\ o <= LastOID[d] /\ o = next[d]
    BY <1>6
  <2>5. d = c => o = next[c]
    BY <2>4
  <2>6. o <= next[c]
    <3>1. CASE c <= o
      <4>1. o <= LastOID[c]
        BY <1>2, <1>7, <2>1, <2>3 DEF Within
      <4> QED
        BY <1>2, <2>1, <2>4, <2>5, <3>1, <4>1, OneOwner
    <3> QED
      BY <1>2, <2>1, <3>1
  <2>7. ASSUME NEW q \in 1..(r - 1), NEW x, Repetition(o, q).oid = x
        PROVE  \E t \in DOMAIN response : t < s /\ response[t].oid = x
    <3>1. PICK t \in Slots(reps) : t < s /\ Place(t) = Place(s) /\ Row(t) = q
      BY <1>2, <1>3, <1>4, EarlierRows
    <3>2. response[t] = Repetition(o, q)
      BY <1>5, <3>1
    <3> QED
      BY <1>5, <2>7, <3>1, <3>2
  <2> HIDE DEF v, o, r
  <2>8. ASSUME NEW x \in mib, next[c] < x, x < v.oid
        PROVE  \E t \in DOMAIN response : t < s /\ response[t].oid = x
    <3>1. x \in Nat /\ o < x
      BY <1>2, <2>1, <2>6, <2>8, OidsAssumption
    <3>2. x \in After(o)
      BY <3>1 DEF After
    <3> QED
      BY <2>2, <2>7, <2>8, <3>2
  <2>9. v.oid <= next[c] \/ v.valued = HasValue(v.oid)
        \/ \E t \in DOMAIN response : t < s /\ response[t].oid = v.oid
    BY <2>2, <2>6, <2>7
  <2>10. SkipsNothing(c, s)'
    BY <1>1, <2>8 DEF SkipsNothing, Earlier, v
  <2>11. TellsTheTruth(c, s)'
    BY <1>1, <2>9 DEF TellsTheTruth, Earlier, HasValue, v
  <2> QED
    BY <2>10, <2>11
<1>8. ASSUME HasMore(c) PROVE \E s \in DOMAIN response : Within(c, response[s].oid) /\ next[c] < response[s].oid
  <2>1. PICK x \in mib : Within(c, x) /\ next[c] < x
    BY <1>8 DEF HasMore
  <2>2. PICK k \in Requested : c = ColumnOrder[k]
    BY <1>1 DEF Chunk
  <2>3. k \in Slots(reps) /\ Place(k) = k /\ Row(k) = 1
    BY <1>1, <1>2, <1>3, <2>2, FirstRow, RequestSize
  <2> DEFINE o == next[c]
             v == response[k]
  <2>4. v = Repetition(o, 1) /\ 1 \in 1..(Cardinality(After(o)) + 1)
    <3>1. Start(k) = o
      BY <2>2, <2>3 DEF Position
    <3> QED
      BY <1>5, <1>6, <2>3, <3>1
  <2>5. /\ v.oid = o \/ v.oid \in After(o)
        /\ \A y \in After(o) : y < v.oid => \E q \in 1..(1 - 1) : Repetition(o, q).oid = y
    BY <1>2, <2>4, RepetitionsInOrder
  <2>6. x \in After(o) /\ x \in Nat
    BY <1>2, <2>1, OidsAssumption DEF After
  <2>7. v.oid # o
    <3>1. Cardinality(After(o)) \in Nat \ {0}
      BY <1>2, <2>6, AfterIsFinite, FS_CardinalityType, FS_EmptySet
    <3>2. 1 \in 1..Cardinality(After(o))
      BY <3>1
    <3>3. Nth(After(o), 1) \in After(o)
      BY <1>2, <3>2, AfterIsFinite, NthHasRank
    <3>4. v.oid = Nth(After(o), 1)
      BY <2>4, <3>1 DEF Repetition, Varbind
    <3> QED
      BY <1>2, <3>3, <3>4 DEF After
  <2>8. v.oid \in Nat /\ o < v.oid
    BY <1>2, <2>5, <2>7, AfterIsFinite DEF After
  <2>9. v.oid <= x
    BY <2>5, <2>6, <2>8
  <2>10. Within(c, v.oid)
    BY <1>2, <2>1, <2>6, <2>8, <2>9 DEF Within
  <2> QED
    BY <1>5, <2>3, <2>8, <2>10
<1>9. HasMore(c)' => Ahead(c)'
  BY <1>1, <1>8 DEF HasMore, Ahead, Within
<1>10. DOMAIN packet' = Slots(reps)
  BY <1>1, <1>5
<1>11. ASSUME NEW s \in DOMAIN packet', Within(c, packet'[s].oid)
       PROVE  SkipsNothing(c, s)' /\ TellsTheTruth(c, s)'
  BY <1>1, <1>7, <1>10, <1>11
<1> QED
  BY <1>9, <1>11 DEF SoundAt, Within

(* Consuming the varbind at hand keeps that: it is not needed any more by  *)
(* a column that it is not below or whose walk it does not get past.       *)
LEMMA RestIsSound ==
    ASSUME Types, WalkTypes, Varbinding, packet' = Delete(packet, slot),
           UNCHANGED <<mib, chunk>>,
           NEW c \in chunk \cap DOMAIN next, SoundAt(c),
           next'[c] \in Nat, next[c] <= next'[c],
           Within(c, pdu.oid) => pdu.oid <= next'[c],
           next'[c] = next[c] \/ (c \in answered' /\ progressed'),
           c \in answered => c \in answered',
           progressed => progressed'
    PROVE  SoundAt(c)'
<1>1. /\ DOMAIN packet' = DOMAIN packet \ {slot} /\ DOMAIN packet \subseteq Nat
      /\ \A s \in DOMAIN packet' : packet'[s] = packet[s]
  BY KeptVarbinds DEF WalkTypes
<1>2. pdu = packet[slot] /\ pdu.oid \in Nat
  BY VarbindAtHand, OidsAreNumbers DEF pdu, Varbinds
<1>3. c \in Nat /\ LastOID[c] \in Nat /\ next[c] \in Nat /\ c <= next[c]
  <2>1. c \in Nat /\ LastOID[c] \in Nat /\ next[c] \in Nat
    BY OidsAreNumbers, OidsAssumption DEF WalkTypes
  <2> QED
    BY <2>1 DEF WalkTypes, Within
<1>4. \A s \in DOMAIN packet : packet[s].oid \in Nat
  BY OidsAreNumbers DEF WalkTypes, Varbinds
<1>5. ASSUME NEW s \in DOMAIN packet', Within(c, packet[s].oid), NEW x \in Nat,
             next'[c] < x, x <= packet[s].oid, Earlier(s, x)
      PROVE  \E t \in DOMAIN packet' : t < s /\ packet'[t].oid = x
  <2>1. PICK t \in DOMAIN packet : t < s /\ packet[t].oid = x
    BY <1>5 DEF Earlier
  <2>2. t # slot
    <3>1. SUFFICES ASSUME t = slot PROVE FALSE
      OBVIOUS
    <3>2. pdu.oid = x
      BY <1>2, <2>1, <3>1
    <3>3. Within(c, pdu.oid)
      BY <1>1, <1>3, <1>4, <1>5, <3>2 DEF Within
    <3> QED
      BY <1>5, <3>2, <3>3
  <2> QED
    BY <1>1, <2>1, <2>2
<1>6. ASSUME NEW s \in DOMAIN packet', Within(c, packet'[s].oid)
      PROVE  SkipsNothing(c, s)' /\ TellsTheTruth(c, s)'
  <2>1. s \in DOMAIN packet /\ packet'[s] = packet[s] /\ Within(c, packet[s].oid)
        /\ packet[s].oid \in Nat
    BY <1>1, <1>4, <1>6
  <2>2. SkipsNothing(c, s) /\ TellsTheTruth(c, s)
    BY <2>1 DEF SoundAt
  <2>3. ASSUME NEW x \in mib, next'[c] < x, x < packet[s].oid
        PROVE  \E t \in DOMAIN packet' : t < s /\ packet'[t].oid = x
    <3>1. x \in Nat /\ next[c] < x /\ x <= packet[s].oid
      <4>1. x \in Nat
        BY OidsAssumption DEF Types
      <4> QED
        BY <1>3, <2>1, <2>3, <4>1
    <3>2. Earlier(s, x)
      BY <2>2, <2>3, <3>1 DEF SkipsNothing
    <3> QED
      BY <1>5, <2>1, <2>3, <3>1, <3>2
  <2>4. SkipsNothing(c, s)'
    BY <2>1, <2>3 DEF SkipsNothing, Earlier
  <2>5. CASE packet[s].oid <= next'[c]
    BY <2>1, <2>4, <2>5 DEF TellsTheTruth
  <2>6. CASE packet[s].valued = HasValue(packet[s].oid)
    BY <2>1, <2>4, <2>6 DEF TellsTheTruth, HasValue
  <2>7. CASE next'[c] < packet[s].oid /\ Earlier(s, packet[s].oid)
    <3>1. \E t \in DOMAIN packet' : t < s /\ packet'[t].oid = packet[s].oid
      BY <1>5, <2>1, <2>7
    <3> QED
      BY <2>1, <2>4, <3>1 DEF TellsTheTruth, Earlier
  <2>8. packet[s].oid <= next[c] => packet[s].oid <= next'[c]
    BY <1>3, <2>1
  <2> QED
    BY <2>1, <2>2, <2>5, <2>6, <2>7, <2>8 DEF TellsTheTruth
<1>7. ASSUME HasMore(c)', c \notin answered' \/ ~progressed' PROVE Ahead(c)'
  <2>1. next'[c] = next[c] /\ (c \notin answered \/ ~progressed) /\ HasMore(c)
    BY <1>7 DEF HasMore, Within
  <2>2. PICK s \in DOMAIN packet : Within(c, packet[s].oid) /\ next[c] < packet[s].oid
    BY <2>1 DEF SoundAt, Ahead
  <2>3. s # slot
    BY <1>2, <1>3, <2>1, <2>2
  <2> QED
    BY <1>1, <2>1, <2>2, <2>3 DEF Ahead, Within
<1> QED
  BY <1>6, <1>7 DEF SoundAt, Within

-----------------------------------------------------------------------------
(* What a column has is judged by its rows, the report and the MIB alone.  *)
LEMMA SameColumn ==
    ASSUME UNCHANGED mib, NEW c, rows'[c] = rows[c],
           c \in ToSet(truncated) <=> c \in ToSet(truncated')
    PROVE  /\ Own(c)' = Own(c)
           /\ CompleteColumn(c) => CompleteColumn(c)'
           /\ next'[c] = next[c] => (RowsSoFar(c) => RowsSoFar(c)')
<1>1. Own(c)' = Own(c)
  BY DEF Own, Matching, Within
<1>2. LowestRows(Own(c))' = LowestRows(Own(c))
  BY <1>1 DEF LowestRows
<1> QED
  BY <1>1, <1>2 DEF CompleteColumn, RowsSoFar

(* A step that ends only the walk of columns without more instances.       *)
LEMMA WalksEnd ==
    ASSUME DisjointColumns, Types, WalkTypes, RowsInv, phase # "scalars",
           NEW S, next' = Keep(next, DOMAIN next \ S), \A c \in S \cap DOMAIN next : ~HasMore(c),
           UNCHANGED <<mib, rows, truncated>>, phase' \notin {"scalars", "done"}
    PROVE  RowsInv'
<1>1. DOMAIN next' = DOMAIN next \ S /\ \A c \in DOMAIN next' : next'[c] = next[c]
  BY KeptPositions
<1>2. ASSUME NEW c \in Columns \ DOMAIN next' PROVE CompleteColumn(c)'
  <2>1. CASE c \in DOMAIN next
    <3>1. CompleteColumn(c)
      BY <1>1, <1>2, <2>1, EndOfColumn DEF RowsInv
    <3> QED
      BY <3>1, SameColumn
  <2>2. CASE c \notin DOMAIN next
    BY <2>2, SameColumn DEF RowsInv
  <2> QED
    BY <2>1, <2>2
<1>3. ASSUME NEW c \in DOMAIN next' PROVE RowsSoFar(c)'
  BY <1>1, SameColumn DEF RowsInv
<1> QED
  BY <1>2, <1>3 DEF RowsInv

(* The varbind at hand of a claimed packet, for its owner.                 *)
LEMMA ClaimedVarbind ==
    ASSUME DisjointColumns, Types, WalkTypes, Owned
    PROVE  /\ Varbinding /\ Owner \in chunk /\ Owner \in DOMAIN next /\ Owner \in Columns
           /\ slot \in DOMAIN packet /\ pdu = packet[slot]
           /\ Within(Owner, pdu.oid)
           /\ pdu.oid \in Nat /\ pdu.valued \in BOOLEAN
           /\ \A c \in chunk : Within(c, pdu.oid) => c = Owner
           /\ \A c \in DOMAIN next : next[c] \in Nat /\ c \in Nat /\ c <= next[c]
<1>1. Varbinding /\ Owners # {} /\ Owner \in DOMAIN next /\ Owner \in chunk
      /\ Within(Owner, pdu.oid) /\ pdu \in Varbinds /\ slot \in DOMAIN packet
  BY VarbindAtHand DEF Owned, Claimed
<1>2. Owner \in Columns /\ chunk \subseteq Columns /\ pdu.oid \in Nat /\ pdu.valued \in BOOLEAN
  BY <1>1, OidsAreNumbers DEF WalkTypes, Varbinds
<1>3. ASSUME NEW c \in chunk, Within(c, pdu.oid) PROVE c = Owner
  <2>1. c \in Columns /\ c \in Nat /\ Owner \in Nat
    BY <1>2, OidsAreNumbers
  <2> QED
    BY <1>1, <1>2, <1>3, <2>1, OneOwner DEF Within
<1>4. ASSUME NEW c \in DOMAIN next PROVE next[c] \in Nat /\ c \in Nat /\ c <= next[c]
  <2>1. c \in Nat /\ next[c] \in Nat
    BY OidsAreNumbers DEF WalkTypes
  <2> QED
    BY <2>1 DEF WalkTypes, Within
<1> QED
  BY <1>1, <1>2, <1>3, <1>4 DEF pdu

(* The first varbind left that is ahead of its owner's walk is the next    *)
(* instance, with its value if it has one.                                 *)
LEMMA NextInstance ==
    ASSUME DisjointColumns, Types, WalkTypes, PacketInv, Owned, ~NotAfter
    PROVE  /\ next[Owner] < pdu.oid
           /\ pdu.valued = HasValue(pdu.oid)
           /\ \A x \in mib : ~ (next[Owner] < x /\ x < pdu.oid)
<1>1. next[Owner] < pdu.oid
  BY ClaimedVarbind, ClaimedOwner DEF Within
<1>2. SoundAt(Owner)
  BY ClaimedVarbind DEF PacketInv, Varbinding
<1>3. SkipsNothing(Owner, slot) /\ TellsTheTruth(Owner, slot)
  BY <1>2, ClaimedVarbind DEF SoundAt
<1>4. \A x : ~Earlier(slot, x)
  <2>1. \A t \in DOMAIN packet : slot <= t /\ t \in Nat /\ slot \in Nat
    BY VarbindAtHand, ClaimedVarbind DEF WalkTypes
  <2>2. \A t \in DOMAIN packet : ~ (t < slot)
    BY <2>1
  <2> QED
    BY <2>2 DEF Earlier
<1>5. \A x \in mib : ~ (next[Owner] < x /\ x < pdu.oid)
  BY <1>3, <1>4 DEF SkipsNothing, pdu
<1>6. pdu.oid <= next[Owner] \/ pdu.valued = HasValue(pdu.oid)
  BY <1>3, <1>4 DEF TellsTheTruth, pdu
<1>7. ~ (pdu.oid <= next[Owner])
  BY <1>1, ClaimedVarbind
<1> QED
  BY <1>1, <1>5, <1>6, <1>7

(* The rest of a packet is sound after its first varbind was consumed in   *)
(* one of the three ways that keep the owner's walk going, or after its    *)
(* owner's walk ended.                                                     *)
LEMMA PacketKept ==
    ASSUME DisjointColumns, Types, WalkTypes, PacketInv, VarbindIgnored \/ Owned,
           VarbindIgnored \/ VarbindEchoed \/ VarbindCapped \/ VarbindTaken
    PROVE  PacketInv'
<1>1. Varbinding /\ phase = "consume" /\ packet' = Delete(packet, slot)
      /\ UNCHANGED <<mib, chunk>>
  BY DEF VarbindIgnored, VarbindEchoed, VarbindCapped, VarbindTaken, Owned, Varbinding, agentVars
<1>2. \A c \in chunk \cap DOMAIN next : SoundAt(c) /\ next[c] \in Nat
  BY <1>1, OidsAreNumbers DEF PacketInv, WalkTypes
<1>3. CASE VarbindIgnored
  <2>1. UNCHANGED <<next, answered, progressed>> /\ ~Claimed
    BY <1>3 DEF VarbindIgnored
  <2>2. ASSUME NEW c \in chunk \cap DOMAIN next PROVE ~Within(c, pdu.oid)
    <3>1. SUFFICES ASSUME Within(c, pdu.oid) PROVE FALSE
      OBVIOUS
    <3>2. Owners # {} /\ pdu \in Varbinds
      BY <1>1, <3>1, VarbindAtHand DEF Owners, Matching
    <3>3. Owner \in chunk /\ Within(Owner, pdu.oid)
      BY <1>1, <3>2, VarbindAtHand
    <3>4. c \in Columns /\ Owner \in Columns /\ c \in Nat /\ Owner \in Nat /\ pdu.oid \in Nat
      BY <3>2, <3>3, OidsAreNumbers DEF WalkTypes, Varbinds
    <3>5. c = Owner
      BY <3>1, <3>3, <3>4, OneOwner DEF Within
    <3> QED
      BY <2>1, <3>2, <3>5 DEF Claimed
  <2>3. ASSUME NEW c \in chunk' \cap DOMAIN next' PROVE SoundAt(c)'
    <3>1. c \in chunk \cap DOMAIN next /\ next'[c] = next[c] /\ next[c] <= next'[c] /\ next'[c] \in Nat
      BY <1>1, <1>2, <2>1
    <3> QED
      BY <1>1, <1>2, <2>1, <2>2, <3>1, RestIsSound
  <2> QED
    BY <2>3 DEF PacketInv
<1>4. CASE VarbindEchoed
  <2>1. UNCHANGED <<next, progressed>> /\ answered' = answered \cup {Owner} /\ Owned /\ NotAfter
    BY <1>4 DEF VarbindEchoed
  <2>2. ASSUME NEW c \in chunk' \cap DOMAIN next' PROVE SoundAt(c)'
    <3>1. c \in chunk \cap DOMAIN next /\ next'[c] = next[c] /\ next[c] <= next'[c] /\ next'[c] \in Nat
      BY <1>1, <1>2, <2>1
    <3>2. Within(c, pdu.oid) => pdu.oid <= next'[c]
      BY <2>1, <3>1, ClaimedVarbind, ClaimedOwner
    <3> QED
      BY <1>1, <1>2, <2>1, <3>1, <3>2, RestIsSound
  <2> QED
    BY <2>2 DEF PacketInv
<1>5. CASE VarbindCapped
  <2>1. next' = Keep(next, DOMAIN next \ {Owner}) /\ UNCHANGED progressed
        /\ answered' = answered \cup {Owner} /\ Owned
    BY <1>5 DEF VarbindCapped, Delete
  <2>2. DOMAIN next' = DOMAIN next \ {Owner} /\ \A c \in DOMAIN next' : next'[c] = next[c]
    BY <2>1, KeptPositions
  <2>3. ASSUME NEW c \in chunk' \cap DOMAIN next' PROVE SoundAt(c)'
    <3>1. c \in chunk \cap DOMAIN next /\ next'[c] = next[c] /\ next[c] <= next'[c] /\ next'[c] \in Nat
      BY <1>1, <1>2, <2>2
    <3>2. ~Within(c, pdu.oid)
      BY <2>1, <2>2, <3>1, ClaimedVarbind
    <3> QED
      BY <1>1, <1>2, <2>1, <3>1, <3>2, RestIsSound
  <2> QED
    BY <2>3 DEF PacketInv
<1>6. CASE VarbindTaken
  <2>1. next' = [next EXCEPT ![Owner] = pdu.oid] /\ progressed' = TRUE
        /\ answered' = answered \cup {Owner} /\ Owned /\ ~NotAfter
    BY <1>6, ClaimedOwner DEF VarbindTaken
  <2>2. next[Owner] < pdu.oid /\ pdu.oid \in Nat /\ Owner \in DOMAIN next
    BY <2>1, NextInstance, ClaimedVarbind
  <2>3. DOMAIN next' = DOMAIN next /\ next'[Owner] = pdu.oid
        /\ \A c \in DOMAIN next : c # Owner => next'[c] = next[c]
    BY <2>1, <2>2
  <2>4. ASSUME NEW c \in chunk' \cap DOMAIN next' PROVE SoundAt(c)'
    <3>1. c \in chunk \cap DOMAIN next /\ next[c] \in Nat
      BY <1>1, <1>2, <2>3
    <3>2. next[c] <= next'[c] /\ next'[c] \in Nat
      BY <2>2, <2>3, <3>1
    <3>3. Within(c, pdu.oid) => pdu.oid <= next'[c]
      BY <2>1, <2>2, <2>3, <3>1, ClaimedVarbind
    <3>4. next'[c] = next[c] \/ (c \in answered' /\ progressed')
      BY <2>1, <2>3, <3>1
    <3> QED
      BY <1>1, <1>2, <2>1, <3>1, <3>2, <3>3, <3>4, RestIsSound
  <2> QED
    BY <2>4 DEF PacketInv
<1> QED
  BY <1>3, <1>4, <1>5, <1>6

(* The owner's rows after its next instance.                               *)
LEMMA RowsAfterTaken ==
    ASSUME DisjointColumns, Types, WalkTypes, RowsInv, PacketInv, VarbindTaken
    PROVE  RowsInv'
<1>1. Owned /\ ~NotAfter /\ next' = [next EXCEPT ![Owner] = pdu.oid]
      /\ rows' = [rows EXCEPT ![Owner] = IF pdu.valued THEN @ \cup {pdu.oid} ELSE @]
      /\ UNCHANGED <<mib, truncated, phase>>
  BY ClaimedOwner DEF VarbindTaken, agentVars
<1>2. /\ phase = "consume" /\ Owner \in DOMAIN next /\ Owner \in Columns
      /\ Within(Owner, pdu.oid) /\ pdu.oid \in Nat /\ next[Owner] \in Nat
  BY <1>1, ClaimedVarbind DEF Varbinding
<1>3. /\ next[Owner] < pdu.oid
      /\ pdu.valued = HasValue(pdu.oid)
      /\ \A x \in mib : ~ (next[Owner] < x /\ x < pdu.oid)
  BY <1>1, NextInstance
<1>4. RowsSoFar(Owner)
  BY <1>2 DEF RowsInv
<1>5. Own(Owner) = {o \in mib \ Undecodable : Within(Owner, o)} /\ Own(Owner) \subseteq Nat
  BY <1>2, OwnRows DEF Types
<1>6. rows'[Owner] = IF pdu.valued THEN rows[Owner] \cup {pdu.oid} ELSE rows[Owner]
  BY <1>1, <1>2 DEF WalkTypes
<1>7. rows'[Owner] = {o \in Own(Owner) : o <= pdu.oid}
  <2>1. ASSUME NEW o \in Own(Owner), o <= pdu.oid PROVE o \in rows'[Owner]
    <3>1. o \in Nat /\ o \in mib /\ ~ (next[Owner] < o /\ o < pdu.oid)
      BY <1>3, <1>5
    <3>2. CASE o <= next[Owner]
      BY <1>4, <1>6, <3>2 DEF RowsSoFar
    <3>3. CASE o = pdu.oid
      BY <1>3, <1>5, <1>6, <3>3 DEF HasValue
    <3> QED
      BY <1>2, <2>1, <3>1, <3>2, <3>3
  <2>2. ASSUME NEW o \in rows'[Owner] PROVE o \in Own(Owner) /\ o <= pdu.oid
    <3>1. CASE o \in rows[Owner]
      <4>1. o \in Own(Owner) /\ o <= next[Owner] /\ o \in Nat
        BY <1>4, <1>5, <3>1 DEF RowsSoFar
      <4> QED
        BY <1>2, <1>3, <4>1
    <3>2. CASE pdu.valued /\ o = pdu.oid
      <4>1. HasValue(pdu.oid)
        BY <1>3, <3>2
      <4>2. o \in mib \ Undecodable /\ Within(Owner, o)
        BY <1>2, <3>2, <4>1 DEF HasValue
      <4>3. o <= pdu.oid
        BY <1>2, <3>2
      <4> QED
        BY <1>5, <4>2, <4>3
    <3>3. CASE ~pdu.valued
      <4>1. rows'[Owner] = rows[Owner]
        BY <1>6, <3>3
      <4> QED
        BY <2>2, <3>1, <4>1
    <3>4. CASE pdu.valued
      <4>1. rows'[Owner] = rows[Owner] \cup {pdu.oid}
        BY <1>6, <3>4
      <4> QED
        BY <2>2, <3>1, <3>2, <3>4, <4>1
    <3> QED
      BY <3>3, <3>4
  <2> QED
    BY <2>1, <2>2
<1>8. DOMAIN next' = DOMAIN next /\ next'[Owner] = pdu.oid
      /\ \A c \in DOMAIN next : c # Owner => next'[c] = next[c]
  BY <1>1, <1>2
<1>9. \A c \in Columns : c # Owner => rows'[c] = rows[c]
  BY <1>1 DEF WalkTypes
<1>10. ASSUME NEW c \in Columns \ DOMAIN next' PROVE CompleteColumn(c)'
  <2>1. c # Owner /\ CompleteColumn(c) /\ rows'[c] = rows[c]
    BY <1>2, <1>8, <1>9, <1>10 DEF RowsInv
  <2> QED
    BY <1>1, <2>1, SameColumn
<1>11. ASSUME NEW c \in DOMAIN next' PROVE RowsSoFar(c)'
  <2>1. CASE c = Owner
    <3>1. Own(c)' = Own(c)
      BY <1>1 DEF Own, Matching, Within
    <3> QED
      BY <1>1, <1>4, <1>7, <1>8, <2>1, <3>1 DEF RowsSoFar
  <2>2. CASE c # Owner
    <3>1. RowsSoFar(c) /\ rows'[c] = rows[c] /\ next'[c] = next[c]
      BY <1>8, <1>9, <1>11, <2>2 DEF RowsInv, WalkTypes
    <3> QED
      BY <1>1, <3>1, SameColumn
  <2> QED
    BY <2>1, <2>2
<1> QED
  BY <1>1, <1>2, <1>10, <1>11 DEF RowsInv

(* The owner is complete when it is capped.                                *)
LEMMA RowsAfterCapped ==
    ASSUME DisjointColumns, Types, WalkTypes, RowsInv, PacketInv, VarbindCapped
    PROVE  RowsInv'
<1>1. Owned /\ ~NotAfter /\ pdu.valued /\ Full(Owner)
      /\ next' = Keep(next, DOMAIN next \ {Owner}) /\ truncated' = Append(truncated, Owner)
      /\ UNCHANGED <<mib, rows, phase>>
  BY DEF VarbindCapped, Delete, agentVars
<1>2. /\ phase = "consume" /\ Owner \in DOMAIN next /\ Owner \in Columns
      /\ Within(Owner, pdu.oid)
  BY <1>1, ClaimedVarbind DEF Varbinding
<1>3. next[Owner] < pdu.oid /\ pdu.oid \in mib \ Undecodable
  BY <1>1, NextInstance DEF HasValue
<1>4. RowsSoFar(Owner)
  BY <1>2 DEF RowsInv
<1>5. pdu.oid \in Own(Owner)
  BY <1>2, <1>3, OwnRows DEF Types
<1>6. rows[Owner] = LowestRows(Own(Owner)) /\ Cardinality(Own(Owner)) > MaxRows
  BY <1>1, <1>2, <1>3, <1>4, <1>5, FullColumn
<1>7. ToSet(truncated') = ToSet(truncated) \cup {Owner}
  <2>1. truncated \in Seq(Columns) /\ truncated' = Append(truncated, Owner)
    BY <1>1 DEF WalkTypes
  <2> QED
    BY <1>2, <2>1 DEF ToSet
<1>8. DOMAIN next' = DOMAIN next \ {Owner} /\ \A c \in DOMAIN next' : next'[c] = next[c]
  BY <1>1, KeptPositions
<1>9. ASSUME NEW c \in Columns, c = Owner PROVE CompleteColumn(c)'
  <2>1. rows'[c] = LowestRows(Own(c)) /\ Cardinality(Own(c)) > MaxRows /\ c \in ToSet(truncated')
    BY <1>1, <1>6, <1>7, <1>9
  <2>2. Own(c)' = Own(c)
    BY <1>1 DEF Own, Matching, Within
  <2>3. LowestRows(Own(c))' = LowestRows(Own(c))
    BY <2>2 DEF LowestRows
  <2> QED
    BY <2>1, <2>2, <2>3 DEF CompleteColumn
<1>10. ASSUME NEW c \in Columns, c # Owner
       PROVE  rows'[c] = rows[c] /\ (c \in ToSet(truncated) <=> c \in ToSet(truncated'))
  BY <1>1, <1>7, <1>10
<1>11. ASSUME NEW c \in Columns \ DOMAIN next' PROVE CompleteColumn(c)'
  <2>1. CASE c = Owner
    BY <1>9, <1>11, <2>1
  <2>2. CASE c # Owner
    <3>1. CompleteColumn(c)
      BY <1>2, <1>8, <1>11, <2>2 DEF RowsInv
    <3> QED
      BY <1>1, <1>10, <1>11, <2>2, <3>1, SameColumn
  <2> QED
    BY <2>1, <2>2
<1>12. ASSUME NEW c \in DOMAIN next' PROVE RowsSoFar(c)'
  <2>1. c \in Columns /\ c # Owner /\ RowsSoFar(c) /\ next'[c] = next[c]
    BY <1>8, <1>12 DEF RowsInv, WalkTypes
  <2> QED
    BY <1>1, <1>10, <2>1, SameColumn
<1> QED
  BY <1>1, <1>2, <1>11, <1>12 DEF RowsInv

(* RowsInv and PacketInv are inductive.                                    *)
LEMMA WalkKept ==
    ASSUME DisjointColumns, Types, WalkTypes, CapInv, Sound, RowsInv, PacketInv, [Next]_vars
    PROVE  RowsInv' /\ PacketInv'
<1>1. UNCHANGED <<agent, mib>>
  BY DEF Next, vars, agentVars, Fetch, FetchScalars, FetchColumns, Consume, Cancel, GetFailed,
         GetError, GetAnswered, GetGarbled, ScalarsEnd, GetNoSuchName, WalkFailed,
         WalkError, ColumnsEnd,
         WalkNoSuchName, WalkAnswered, VarbindIgnored, VarbindEchoed, VarbindCapped,
         VarbindTaken, PacketEnd
<1>2. ASSUME UNCHANGED <<next, rows, truncated>>, phase # "scalars", phase' # "scalars",
             phase' = "done" /\ ~failed' => DOMAIN next = {}
      PROVE  RowsInv'
  BY <1>1, <1>2, SameColumn DEF RowsInv
<1>3. CASE UNCHANGED walkVars /\ UNCHANGED phase /\ (failed => failed')
  <2>1. RowsInv'
    <3>1. \A c : (CompleteColumn(c) => CompleteColumn(c)') /\ (RowsSoFar(c) => RowsSoFar(c)')
      BY <1>1, <1>3, SameColumn DEF walkVars
    <3> QED
      BY <1>3, <3>1 DEF RowsInv, walkVars
  <2>2. PacketInv'
    BY <1>1, <1>3 DEF PacketInv, SoundAt, SkipsNothing, TellsTheTruth, Earlier, HasMore, Ahead,
                      HasValue, Within, walkVars
  <2> QED
    BY <2>1, <2>2
<1>4. CASE ScalarsEnd
  <2>1. /\ next' = [c \in Columns |-> c] /\ phase = "scalars" /\ phase' = "columns"
        /\ UNCHANGED <<rows, truncated>>
    BY <1>4 DEF ScalarsEnd
  <2>2. truncated = <<>> /\ \A c \in Columns : rows[c] = {}
    BY <2>1 DEF CapInv, RowsInv
  <2>3. ASSUME NEW c \in Columns PROVE RowsSoFar(c)'
    <3>1. \A o \in Own(c) : o \in Nat /\ c \in Nat /\ c < o
      BY OwnRows, OidsAreNumbers DEF Types, Within
    <3>2. Own(c)' = Own(c)
      BY <1>1 DEF Own, Matching, Within
    <3> QED
      BY <2>1, <2>2, <3>1, <3>2 DEF RowsSoFar, ToSet
  <2> QED
    BY <2>1, <2>3 DEF RowsInv, PacketInv
<1>5. CASE WalkFailed
  <2>1. UNCHANGED <<next, rows, truncated>> /\ phase = "columns"
        /\ (phase' = "columns" \/ (phase' = "done" /\ failed'))
    BY <1>5 DEF WalkFailed, consumeVars, Walking
  <2> QED
    BY <1>2, <2>1 DEF PacketInv
<1>6. ASSUME NEW k, WalkNoSuchName(k) PROVE RowsInv' /\ PacketInv'
  <2>1. /\ Walking /\ phase = "columns" /\ phase' = "columns" /\ k \in Requested
        /\ After(Position(k)) = {} /\ next' = Keep(next, DOMAIN next \ {ColumnOrder[k]})
        /\ UNCHANGED <<rows, truncated>>
    BY <1>6 DEF WalkNoSuchName, consumeVars, Walking, Culprit, Sound
  <2>2. ~HasMore(ColumnOrder[k])
    BY <2>1 DEF HasMore, After, Position
  <2> QED
    BY <1>1, <2>1, <2>2, WalksEnd DEF PacketInv
<1>7. ASSUME NEW response, WalkAnswered(response) PROVE RowsInv' /\ PacketInv'
  <2>1. UNCHANGED <<next, rows, truncated>> /\ phase = "columns" /\ phase' = "consume"
    BY <1>7 DEF WalkAnswered, Walking
  <2>2. RowsInv'
    BY <1>2, <2>1
  <2>3. \A c \in chunk' \cap DOMAIN next' : SoundAt(c)'
    BY <1>7, ResponseIsSound
  <2> QED
    BY <2>2, <2>3 DEF PacketInv
<1>8. CASE VarbindIgnored \/ VarbindEchoed
  <2>1. UNCHANGED <<next, rows, truncated>> /\ phase = "consume" /\ phase' = "consume"
        /\ (VarbindIgnored \/ Owned)
    BY <1>8 DEF VarbindIgnored, VarbindEchoed, Owned, Varbinding
  <2> QED
    BY <1>2, <1>8, <2>1, PacketKept
<1>9. CASE VarbindCapped
  BY <1>9, RowsAfterCapped, PacketKept DEF VarbindCapped
<1>10. CASE VarbindTaken
  BY <1>10, RowsAfterTaken, PacketKept DEF VarbindTaken
<1>11. CASE PacketEnd
  <2>1. /\ phase = "consume" /\ phase' = "columns" /\ DOMAIN packet = {}
        /\ next' = Keep(next, DOMAIN next \ Over) /\ UNCHANGED <<rows, truncated>>
    BY <1>11 DEF PacketEnd
  <2>2. ASSUME NEW c \in Over \cap DOMAIN next PROVE ~HasMore(c)
    <3>1. c \in chunk /\ (c \notin answered \/ ~progressed)
      BY DEF Over, Unmentioned
    <3>2. SoundAt(c) /\ ~Ahead(c)
      BY <2>1, <3>1 DEF PacketInv, Ahead
    <3> QED
      BY <3>1, <3>2 DEF SoundAt
  <2> QED
    BY <1>1, <2>1, <2>2, WalksEnd DEF PacketInv
<1>12. CASE ColumnsEnd
  <2>1. UNCHANGED <<next, rows, truncated>> /\ phase = "columns" /\ phase' = "done"
        /\ (~failed' => DOMAIN next = {})
    BY <1>12 DEF ColumnsEnd, walkVars
  <2> QED
    BY <1>2, <2>1 DEF PacketInv
<1>13. CASE Cancel
  <2>1. UNCHANGED walkVars /\ UNCHANGED phase /\ UNCHANGED failed
    BY <1>13 DEF Cancel
  <2> QED
    BY <1>3, <2>1
<1>14. CASE GetFailed
  <2>1. UNCHANGED walkVars /\ UNCHANGED phase /\ (failed => failed')
    BY <1>14 DEF GetFailed
  <2> QED
    BY <1>3, <2>1
<1>15. CASE \/ GetError \/ GetAnswered
           \/ \E i : GetNoSuchName(i)
           \/ \E response, absent : GetGarbled(response, absent)
  <2>1. UNCHANGED walkVars /\ UNCHANGED phase /\ (failed => failed')
    BY <1>15 DEF GetError, GetAnswered, GetGarbled, GetNoSuchName
  <2> QED
    BY <1>3, <2>1
<1>16. CASE UNCHANGED vars
  BY <1>3, <1>16 DEF vars, walkVars
<1>17. CASE WalkError
  BY <1>17 DEF WalkError, Sound, Follows
<1> QED
  BY <1>4, <1>5, <1>6, <1>7, <1>8, <1>9, <1>10, <1>11, <1>12, <1>13, <1>14, <1>15, <1>16, <1>17
     DEF Next, Fetch, FetchScalars, FetchColumns, Consume

(* For a profile none of whose columns is beneath another, and an agent    *)
(* that keeps to the protocol: a Fetch without an error has, for every     *)
(* column, the rows the agent has, or the first of them with the column    *)
(* reported truncated; whatever the batch sizes, and whatever was lost,    *)
(* shrunk or retried on the way.                                           *)
THEOREM DisjointWalkIsComplete ==
    ASSUME DisjointColumns
    PROVE  Spec => []WalkComplete
<1> DEFINE WalkInv == Sound => RowsInv /\ PacketInv
<1>1. Init => WalkInv
  <2> SUFFICES ASSUME Init PROVE RowsInv /\ PacketInv
    OBVIOUS
  <2>1. RowsInv
    BY DEF Init, RowsInv, EmptyMap
  <2>2. PacketInv
    BY DEF Init, PacketInv
  <2> QED
    BY <2>1, <2>2
<1>2. Types /\ WalkTypes /\ [Next]_vars => (Types /\ WalkTypes)'
  BY TypesKept, WalkTypesKept
<1>3. Init => CapInv
  BY DEF Init, CapInv, TruncationIsFinal, ToSet, EmptyMap
<1>4. Types /\ WalkTypes /\ CapInv /\ [Next]_vars => CapInv'
  BY CapKept
<1>5. ASSUME Types, WalkTypes, CapInv, WalkInv, [Next]_vars PROVE WalkInv'
  <2>1. Sound' => Sound
    BY <1>5 DEF Sound, Follows, Next, vars, agentVars, Fetch, FetchScalars, FetchColumns, Consume, Cancel,
         GetFailed, GetError, GetAnswered, GetGarbled, ScalarsEnd, GetNoSuchName, WalkFailed, WalkError,
         ColumnsEnd, WalkNoSuchName, WalkAnswered, VarbindIgnored, VarbindEchoed,
         VarbindCapped, VarbindTaken, PacketEnd
  <2> QED
    BY <1>5, <2>1, WalkKept
<1>6. WalkInv => WalkComplete
  <2> SUFFICES ASSUME RowsInv, phase = "done", ~failed PROVE \A c \in Columns : CompleteColumn(c)
    BY DEF WalkComplete
  <2> QED
    BY DEF RowsInv
<1> HIDE DEF WalkInv
<1> QED
  BY <1>1, <1>2, <1>3, <1>4, <1>5, <1>6, TypesInit, PTL DEF Spec
=============================================================================
