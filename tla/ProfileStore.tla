----------------------------- MODULE ProfileStore -----------------------------
(***************************************************************************)
(* The profile store of internal/profile: the documents embedded in the    *)
(* binary under those of the user's directory, the match of a device's     *)
(* sysObjectID (ProfileMatch), and Resolve: a profile with everything it   *)
(* extends merged into it, depth first, and the cache of results.  Any     *)
(* graph of extends may have been loaded: cycles, diamonds, profiles that  *)
(* extend themselves or the same parent twice, and unknown parents.        *)
(*                                                                         *)
(* Resolve holds the mutex of the store throughout, so one call runs at a  *)
(* time; the recursion of expand is the stack of references still to       *)
(* follow.  The content of a document stands for what it contributes:      *)
(* metrics and tags by its name, device metadata by field.                 *)
(***************************************************************************)
EXTENDS GoMap, ProfileMatch

CONSTANTS
    Libraries,      \* what may be installed, see IsLibrary
    Abstract        \* names that begin with an underscore

(* What a document extends may be the name of another or of none; a        *)
(* pattern that is empty is no claim.                                      *)
IsDocument(d) ==
    /\ d.extends \in Seq(STRING) /\ d.claims \in Seq(Seq(Nat) \ {<<>>})

(* The documents of the binary and of the user by name, the profiles that  *)
(* devices are configured with, and the sysObjectIDs of other devices (an  *)
(* empty one is an error before it is matched).                            *)
IsLibrary(l) ==
    /\ \A files \in {l.embedded, l.user} :
          IsFiniteSet(DOMAIN files) /\ \A n \in DOMAIN files : IsDocument(files[n])
    /\ l.configured \subseteq STRING
    /\ l.devices \subseteq Seq(Nat \ {Star}) \ {<<>>}

ASSUME StoreAssumptions == \A l \in Libraries : IsLibrary(l)

VARIABLES
    raw,            \* the documents by name
    fromUser,       \* the names of the user's
    configured,     \* the profiles that devices are configured with
    devices,        \* the sysObjectIDs of the others
    detected,       \* the last result of Match
    resolved,       \* the cache
    name,           \* the profile being resolved, {} outside Resolve
    refs,           \* per depth of the recursion, references not followed yet
    seen,
    content,        \* dst: the documents merged, in order
    metadata,       \* dst: which document each field came from
    failed          \* errs is not empty

library == <<raw, fromUser, configured, devices>>
working == <<refs, seen, content, metadata, failed>>
vars    == <<library, detected, resolved, name, working>>

(* NewStore: a user's file hides the embedded one of its name.             *)
Overlay(embedded, user) ==
    [n \in DOMAIN embedded \cup DOMAIN user |-> IF n \in DOMAIN user THEN user[n] ELSE embedded[n]]

Names == DOMAIN raw

Claims ==
    UNION {{Claim(n, n \in fromUser, k, raw[n].claims[k]) : k \in DOMAIN raw[n].claims} :
              n \in Names \ Abstract}

(* The fields of a document, as a map to where they come from.             *)
FieldsOf(n) == [f \in raw[n].defines |-> n]

Init ==
    /\ \E l \in Libraries :
          /\ raw = Overlay(l.embedded, l.user) /\ fromUser = DOMAIN l.user
          /\ configured = l.configured /\ devices = l.devices
    /\ detected = NoMatch
    /\ resolved = EmptyMap
    /\ name = {}
    /\ refs = <<>> /\ seen = {} /\ content = <<>> /\ metadata = EmptyMap
    /\ failed = FALSE

-----------------------------------------------------------------------------
(* ensureProfile, scanAll: the profile of a device whose sysObjectID is    *)
(* known.  The index does not change and is read without the mutex, so one *)
(* device of a library is as good as several (BOUND).                      *)
Detect(oid) ==
    /\ detected = NoMatch
    /\ oid \in devices
    /\ detected' = Match(Claims, oid)
    /\ UNCHANGED <<library, resolved, name, working>>

(* Mutant: the profile itself is not among the documents seen.             *)
NothingSeen(n) == {}
FirstSeen(n)   == {n}

(* copyDefinition, then expand, for a profile that was matched or          *)
(* configured.  One that is cached, or not loaded, changes nothing.        *)
Resolve(n) ==
    /\ name = {}
    /\ n \in configured \cup detected.profile
    /\ n \in Names
    /\ n \notin DOMAIN resolved
    /\ name' = {n}
    /\ refs' = <<raw[n].extends>>
    /\ seen' = FirstSeen(n)
    /\ content' = <<n>>
    /\ metadata' = FieldsOf(n)
    /\ failed' = FALSE
    /\ UNCHANGED <<library, detected, resolved>>

Depth == Len(refs)
Ref   == refs[Depth][1]
Expanding == name # {} /\ refs # <<>> /\ refs[Depth] # <<>>

(* Ref is done with, at its depth.  Mutant: it is looked at again later.   *)
Requeued == [refs EXCEPT ![Depth] = Append(Tail(@), Ref)]
Followed == [refs EXCEPT ![Depth] = Tail(@)]

(* Mutant: expand does not look at what it has seen.                       *)
NeverSeen   == FALSE
AlreadySeen == Ref \in seen

SkipSeen ==
    /\ Expanding
    /\ AlreadySeen
    /\ refs' = Followed
    /\ UNCHANGED <<library, detected, resolved, name, seen, content, metadata, failed>>

UnknownParent ==
    /\ Expanding
    /\ ~AlreadySeen /\ Ref \notin Names
    /\ refs' = Followed
    /\ seen' = seen \cup {Ref}
    /\ failed' = TRUE
    /\ UNCHANGED <<library, detected, resolved, name, content, metadata>>

(* merge: what dst already defines stays.  Mutant: the parent overwrites.  *)
Overwritten(m, p) == [f \in DOMAIN m \cup DOMAIN p |-> IF f \in DOMAIN p THEN p[f] ELSE m[f]]
FilledIn(m, p)    == [f \in DOMAIN m \cup DOMAIN p |-> IF f \in DOMAIN m THEN m[f] ELSE p[f]]

MergeParent ==
    /\ Expanding
    /\ ~AlreadySeen /\ Ref \in Names
    /\ refs' = Append(Followed, raw[Ref].extends)
    /\ seen' = seen \cup {Ref}
    /\ content' = Append(content, Ref)
    /\ metadata' = FilledIn(metadata, FieldsOf(Ref))
    /\ UNCHANGED <<library, detected, resolved, name, failed>>

(* expand returns to its caller.                                           *)
Expanded ==
    /\ name # {} /\ refs # <<>> /\ refs[Depth] = <<>>
    /\ refs' = SubSeq(refs, 1, Depth - 1)
    /\ UNCHANGED <<library, detected, resolved, name, seen, content, metadata, failed>>

(* Resolve returns an error, or a result that it also caches.              *)
Result == [content |-> content, metadata |-> metadata]

Finish(n) ==
    /\ name = {n} /\ refs = <<>>
    /\ name' = {}
    /\ IF failed
       THEN UNCHANGED resolved
       ELSE resolved' = Put(resolved, n, Result)
    /\ seen' = {} /\ content' = <<>> /\ metadata' = EmptyMap /\ failed' = FALSE
    /\ UNCHANGED <<library, detected, refs>>

Expand == SkipSeen \/ UnknownParent \/ MergeParent \/ Expanded \/ \E n \in Names : Finish(n)

Next ==
    \/ \E oid \in devices : Detect(oid)
    \/ \E n \in Names : Resolve(n)
    \/ Expand

(* A call that has begun runs to its end.                                  *)
Spec == Init /\ [][Next]_vars /\ WF_vars(Expand)

-----------------------------------------------------------------------------
(* "Among matching glob patterns the most specific wins": no other pattern *)
(* that matches has only identifiers that the chosen one matches too, as   *)
(* one has that stands for arcs of the other.                              *)
MostSpecificWins ==
    \A best \in detected.pattern : \A c \in Claims :
        Matches(c.pattern, detected.oid) /\ c.pattern # best => ~Matches(best, c.pattern)

(* A device gets no profile only when no pattern matches or the best one   *)
(* is claimed more than once with equal precedence; otherwise the one of   *)
(* the user who claims it, or else the only one, and never an abstract one. *)
OneClaimantWins ==
    detected.oid # <<>> =>
        LET claimants(byUser) == {c \in Claims : c.user = byUser /\ c.pattern \in detected.pattern}
            precede == IF claimants(TRUE) # {} THEN claimants(TRUE) ELSE claimants(FALSE)
        IN  /\ detected.pattern = {} <=> \A c \in Claims : ~Matches(c.pattern, detected.oid)
            /\ detected.profile =
                  IF Cardinality(precede) = 1 THEN {c.profile : c \in precede} ELSE {}
            /\ detected.profile \cap Abstract = {}

(* Reference: the names a profile reaches through extends, as the smallest *)
(* set that holds its own and, with each document, its parents.            *)
Parents(n) == {raw[n].extends[k] : k \in DOMAIN raw[n].extends}
Mentioned  == Names \cup UNION {Parents(n) : n \in Names}
IsClosed(S) == \A n \in S \cap Names : Parents(n) \subseteq S
Reach(n) == {m \in Mentioned : \A S \in SUBSET Mentioned : n \in S /\ IsClosed(S) => m \in S}

(* "Diamond inheritance ... contributes its content once", and a cycle     *)
(* too: a resolved profile is itself, then every document it reaches, each *)
(* merged once, whatever was resolved or has failed before; none that      *)
(* reaches an unknown one is cached, and only such a one fails.            *)
EachMergedOnce ==
    /\ \A n \in DOMAIN resolved : LET c == resolved[n].content IN
          /\ c[1] = n
          /\ {c[k] : k \in DOMAIN c} = Reach(n)
          /\ Len(c) = Cardinality(Reach(n))
    /\ \A n \in Names : name = {n} /\ refs = <<>> /\ failed => ~ (Reach(n) \subseteq Names)

(* "The child wins on conflicts while inheriting everything it did not     *)
(* mention": its own fields are its own, and every other field that some   *)
(* ancestor defines comes from one that does.                              *)
ChildWins ==
    \A n \in DOMAIN resolved : LET m == resolved[n].metadata IN
        /\ DOMAIN m = UNION {raw[a].defines : a \in Reach(n)}
        /\ \A f \in DOMAIN m : m[f] \in Reach(n) /\ f \in raw[m[f]].defines
        /\ \A f \in raw[n].defines : m[f] = n

(* Resolve returns, for every graph.                                       *)
ResolveReturns == []<>(name = {})
===============================================================================
