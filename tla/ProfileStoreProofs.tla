------------------------- MODULE ProfileStoreProofs -------------------------
(***************************************************************************)
(* Proofs about ProfileStore, for any library: any number of documents,    *)
(* whatever they extend, and any patterns.                                 *)
(*                                                                         *)
(* Matching: comparePatterns is a strict total order, so the patterns that *)
(* match have a greatest, and a pattern matched by one that precedes it    *)
(* would have to be that one.  Resolving: what expand has seen and what it *)
(* still has to follow is within reach of the profile, and the parents of  *)
(* what it has merged are seen or to be followed; when nothing is left to  *)
(* follow, the seen are closed, so they are everything within reach.       *)
(***************************************************************************)
EXTENDS ProfileStore, OrderLemmas, SequenceTheorems

-----------------------------------------------------------------------------
(* The library, which nothing changes.                                     *)
LibraryInv ==
    /\ IsFiniteSet(Names) /\ \A n \in Names : IsDocument(raw[n])
    /\ devices \subseteq Seq(Nat \ {Star}) \ {<<>>}

(* The result of Match is that for the device.                             *)
MatchInv ==
    \/ detected = NoMatch
    \/ detected.oid \in devices /\ detected = Match(Claims, detected.oid)

(* A reference that a stack still holds.                                   *)
Holds(stack, m) == \E d \in DOMAIN stack : \E k \in DOMAIN stack[d] : stack[d][k] = m

Merged == seen \cap Names

(* What expand works on.                                                   *)
WorkTypes ==
    /\ name = {} \/ \E n \in Names : name = {n}
    /\ refs \in Seq(Seq(STRING))
    /\ content \in Seq(Names)

(* What is seen or to be followed is within reach, and the parents of what *)
(* is merged are seen or to be followed; only an unknown one makes it fail. *)
SeenInv ==
    \A n \in name :
        /\ n \in seen
        /\ \A m \in seen : m \in Reach(n)
        /\ \A d \in DOMAIN refs : \A k \in DOMAIN refs[d] : refs[d][k] \in Reach(n)
        /\ \A a \in Merged : \A p \in Parents(a) : p \in seen \/ Holds(refs, p)
        /\ failed <=> ~ (seen \subseteq Names)

(* The documents merged are those seen, each at one place, its own first.  *)
ContentInv ==
    \A n \in name :
        /\ content # <<>> /\ content[1] = n
        /\ {content[k] : k \in DOMAIN content} = Merged
        /\ \A k, l \in DOMAIN content : content[k] = content[l] => k = l

(* Every field of a document merged is there, from one that has it.        *)
MetadataInv ==
    \A n \in name :
        /\ DOMAIN metadata = UNION {raw[a].defines : a \in Merged}
        /\ \A f \in DOMAIN metadata : metadata[f] \in Merged /\ f \in raw[metadata[f]].defines
        /\ \A f \in raw[n].defines : metadata[f] = n

(* What the cache holds for n: its content and its fields.                 *)
ContentIsRight(n, c) ==
    /\ c[1] = n
    /\ {c[k] : k \in DOMAIN c} = Reach(n)
    /\ Len(c) = Cardinality(Reach(n))

FieldsAreRight(n, m) ==
    /\ DOMAIN m = UNION {raw[a].defines : a \in Reach(n)}
    /\ \A f \in DOMAIN m : m[f] \in Reach(n) /\ f \in raw[m[f]].defines
    /\ \A f \in raw[n].defines : m[f] = n

CacheInv ==
    \A n \in DOMAIN resolved :
        ContentIsRight(n, resolved[n].content) /\ FieldsAreRight(n, resolved[n].metadata)

ResolveInv == WorkTypes /\ SeenInv /\ ContentInv /\ MetadataInv /\ CacheInv

-----------------------------------------------------------------------------
(* Matching.                                                               *)

Patterns == Seq(Nat) \ {<<>>}

(* The order of patterns of one length: by the first arc that differs.     *)
Greater(a, b) ==
    \E i \in DOMAIN a : a[i] > b[i] /\ \A j \in 1..(i - 1) : a[j] = b[j]

(* That is the order of comparePatterns: a star is the least of the arcs.  *)
LEMMA FirstDifferenceDecides ==
    ASSUME NEW n \in Nat, NEW a \in [1..n -> Nat], NEW b \in [1..n -> Nat], a # b
    PROVE  AtFirstDifference(a, b) <=> Greater(a, b)
<1> DEFINE Differ == {i \in 1..n : a[i] # b[i]}
<1>1. Differ \subseteq Nat /\ Differ # {}
  OBVIOUS
<1>2. PICK m \in Differ : \A k \in Differ : m <= k
  BY <1>1, LeastNatural
<1>3. m \in 1..n /\ a[m] # b[m]
  OBVIOUS
<1>4. \A j \in 1..(m - 1) : a[j] = b[j]
  BY <1>2, <1>3
<1>5. ASSUME NEW i \in 1..n, a[i] # b[i], \A j \in 1..(i - 1) : a[j] = b[j]
      PROVE  i = m
  BY <1>3, <1>4, <1>5
<1> HIDE DEF Differ
<1>6. FirstDifference(a, b) = m
  BY <1>3, <1>4, <1>5 DEF FirstDifference
<1>7. Greater(a, b) <=> a[m] > b[m]
  <2>1. ASSUME NEW i \in 1..n, a[i] > b[i], \A j \in 1..(i - 1) : a[j] = b[j]
        PROVE  a[m] > b[m]
    <3>1. a[i] # b[i]
      BY <2>1
    <3>2. i = m
      BY <1>5, <2>1, <3>1
    <3> QED
      BY <2>1, <3>2
  <2> QED
    BY <2>1, <1>3, <1>4 DEF Greater
<1>8. AtFirstDifference(a, b) <=> a[m] > b[m]
  BY <1>3, <1>6 DEF AtFirstDifference, Star
<1> QED
  BY <1>7, <1>8

LEMMA GreaterTotal ==
    ASSUME NEW n \in Nat, NEW a \in [1..n -> Nat], NEW b \in [1..n -> Nat], a # b
    PROVE  Greater(a, b) \/ Greater(b, a)
<1> DEFINE Differ == {i \in 1..n : a[i] # b[i]}
<1>1. Differ \subseteq Nat /\ Differ # {}
  OBVIOUS
<1>2. PICK m \in Differ : \A k \in Differ : m <= k
  BY <1>1, LeastNatural
<1>3. m \in 1..n /\ a[m] # b[m]
  OBVIOUS
<1>4. \A j \in 1..(m - 1) : a[j] = b[j] /\ b[j] = a[j]
  BY <1>2, <1>3
<1>5. DOMAIN a = 1..n /\ DOMAIN b = 1..n /\ a[m] \in Nat /\ b[m] \in Nat
  BY <1>3
<1> HIDE DEF Differ
<1>6. ASSUME a[m] > b[m] PROVE Greater(a, b)
  BY <1>3, <1>4, <1>5, <1>6 DEF Greater
<1>7. ASSUME b[m] > a[m] PROVE Greater(b, a)
  BY <1>3, <1>4, <1>5, <1>7 DEF Greater
<1> QED
  BY <1>3, <1>5, <1>6, <1>7

LEMMA GreaterTransitive ==
    ASSUME NEW n \in Nat, NEW a \in [1..n -> Nat], NEW b \in [1..n -> Nat], NEW c \in [1..n -> Nat],
           Greater(a, b), Greater(b, c)
    PROVE  Greater(a, c) /\ a # c
<1>1. PICK i \in 1..n : a[i] > b[i] /\ \A j \in 1..(i - 1) : a[j] = b[j]
  BY DEF Greater
<1>2. PICK k \in 1..n : b[k] > c[k] /\ \A j \in 1..(k - 1) : b[j] = c[j]
  BY DEF Greater
<1> DEFINE m == IF i < k THEN i ELSE k
<1>3. m \in 1..n /\ a[m] > c[m] /\ \A j \in 1..(m - 1) : a[j] = c[j]
  <2>1. CASE i < k
    BY <1>1, <1>2, <2>1
  <2>2. CASE k < i
    BY <1>1, <1>2, <2>2
  <2>3. CASE i = k
    BY <1>1, <1>2, <2>3
  <2> QED
    BY <2>1, <2>2, <2>3
<1> HIDE DEF m
<1>4. Greater(a, c)
  BY <1>3 DEF Greater
<1>5. a # c
  BY <1>3
<1> QED
  BY <1>4, <1>5

(* So comparePatterns is a strict total order: by length, then by arcs.    *)
LEMMA Precedence ==
    ASSUME NEW a \in Seq(Nat), NEW b \in Seq(Nat)
    PROVE  /\ MoreSpecific(a, b) <=> Len(a) > Len(b) \/ (Len(a) = Len(b) /\ a # b /\ Greater(a, b))
           /\ Len(a) \in Nat /\ a \in [1..Len(a) -> Nat] /\ DOMAIN a = 1..Len(a)
<1>1. /\ Len(a) \in Nat /\ a \in [1..Len(a) -> Nat] /\ DOMAIN a = 1..Len(a)
      /\ Len(b) \in Nat /\ b \in [1..Len(b) -> Nat]
  BY LenProperties
<1>2. ASSUME Len(a) = Len(b), a # b PROVE AtFirstDifference(a, b) <=> Greater(a, b)
  BY <1>1, <1>2, FirstDifferenceDecides
<1> QED
  BY <1>1, <1>2, Zenon DEF MoreSpecific

LEMMA MoreSpecificTotal ==
    ASSUME NEW a \in Seq(Nat), NEW b \in Seq(Nat), a # b
    PROVE  MoreSpecific(a, b) \/ MoreSpecific(b, a)
<1>1. Len(a) > Len(b) \/ Len(b) > Len(a) \/ Len(a) = Len(b)
  BY Precedence
<1>2. ASSUME Len(a) = Len(b) PROVE Greater(a, b) \/ Greater(b, a)
  BY <1>2, Precedence, GreaterTotal
<1> QED
  BY <1>1, <1>2, Precedence, Zenon

LEMMA MoreSpecificTransitive ==
    ASSUME NEW a \in Seq(Nat), NEW b \in Seq(Nat), NEW c \in Seq(Nat),
           MoreSpecific(a, b), MoreSpecific(b, c)
    PROVE  MoreSpecific(a, c)
<1>1. Len(a) \in Nat /\ Len(b) \in Nat /\ Len(c) \in Nat
  BY Precedence
<1>2. Len(a) >= Len(b) /\ Len(b) >= Len(c)
  <2>1. Len(a) > Len(b) \/ Len(a) = Len(b)
    BY Precedence, Zenon
  <2>2. Len(b) > Len(c) \/ Len(b) = Len(c)
    BY Precedence, Zenon
  <2> QED
    BY <1>1, <2>1, <2>2
<1>3. CASE Len(a) # Len(c)
  <2>1. Len(a) > Len(c)
    BY <1>1, <1>2, <1>3
  <2> QED
    BY <2>1, Precedence, Zenon
<1>4. CASE Len(a) = Len(c)
  <2>1. Len(a) = Len(b) /\ Len(b) = Len(c) /\ ~ (Len(a) > Len(b)) /\ ~ (Len(b) > Len(c))
    BY <1>1, <1>2, <1>4
  <2>2. Greater(a, b) /\ Greater(b, c)
    BY <2>1, Precedence, Zenon
  <2>3. a \in [1..Len(a) -> Nat] /\ b \in [1..Len(a) -> Nat] /\ c \in [1..Len(a) -> Nat]
    BY <2>1, Precedence
  <2>4. Greater(a, c) /\ a # c
    BY <1>1, <2>2, <2>3, GreaterTransitive
  <2> QED
    BY <1>4, <2>4, Precedence, Zenon
<1> QED
  BY <1>3, <1>4

(* A cut of n arcs into m pieces, in order and none empty, does not run    *)
(* ahead of the arcs; one into as many pieces is the identity.             *)
IsCut(cut, n, m) ==
    /\ cut \in [1..n -> 1..m]
    /\ \A k \in 1..m : \E i \in 1..n : cut[i] = k
    /\ \A i, j \in 1..n : i < j => cut[i] <= cut[j]

LEMMA CutLags ==
    ASSUME NEW n \in Nat, NEW m \in Nat, NEW cut, IsCut(cut, n, m)
    PROVE  /\ \A i \in 1..n : cut[i] <= i
           /\ m <= n
           /\ n = m => \A i \in 1..n : cut[i] = i
<1>1. /\ \A i \in 1..n : cut[i] \in 1..m
      /\ \A k \in 1..m : \E i \in 1..n : cut[i] = k
      /\ \A i, j \in 1..n : i < j => cut[i] <= cut[j]
  BY DEF IsCut
<1>2. \A i \in 1..n : cut[i] <= i
  <2> DEFINE Ahead == {i \in 1..n : cut[i] > i}
  <2> SUFFICES ASSUME Ahead # {} PROVE FALSE
    BY <1>1
  <2>1. PICK i \in Ahead : \A k \in Ahead : i <= k
    <3>1. Ahead \subseteq Nat
      OBVIOUS
    <3> QED
      BY <3>1, LeastNatural
  <2>2. i \in 1..n /\ cut[i] > i /\ i \in 1..m
    BY <1>1
  <2>3. PICK k \in 1..n : cut[k] = i
    BY <1>1, <2>2
  <2>4. CASE k < i
    BY <2>1, <2>2, <2>3, <2>4
  <2>5. CASE i <= k
    BY <1>1, <2>2, <2>3, <2>5
  <2> QED
    BY <2>2, <2>4, <2>5
<1>3. m <= n
  <2>1. CASE m = 0
    BY <2>1
  <2>2. CASE m # 0
    <3>1. PICK k \in 1..n : cut[k] = m
      BY <1>1, <2>2
    <3> QED
      BY <1>2, <3>1
  <2> QED
    BY <2>1, <2>2
<1>4. ASSUME n = m PROVE \A i \in 1..n : cut[i] = i
  <2> DEFINE Late == {i \in 1..n : cut[i] # i}
  <2> SUFFICES ASSUME Late # {} PROVE FALSE
    OBVIOUS
  <2>1. IsFiniteSet(Late) /\ Late \subseteq Nat
    <3>1. Late \in SUBSET (1..n) /\ Late \subseteq Nat
      OBVIOUS
    <3>2. IsFiniteSet(1..n)
      BY FS_Interval
    <3> QED
      BY <3>1, <3>2, FS_Subset
  <2>2. PICK i \in Late : \A k \in Late : k <= i
    BY <2>1, GreatestNatural
  <2>3. i \in 1..n /\ cut[i] < i /\ i \in 1..m
    BY <1>1, <1>2, <1>4
  <2>4. PICK k \in 1..n : cut[k] = i
    BY <1>1, <2>3
  <2>5. CASE i < k
    BY <2>2, <2>3, <2>4, <2>5
  <2>6. CASE k <= i
    BY <1>1, <2>3, <2>4, <2>6
  <2> QED
    BY <2>3, <2>5, <2>6
<1> QED
  BY <1>2, <1>3, <1>4

(* A pattern does not match one that it precedes, taken as an identifier:  *)
(* with no fewer arcs it would be the same, or have a star for one of its. *)
LEMMA PrecedingDoesNotMatch ==
    ASSUME NEW a \in Seq(Nat), NEW b \in Seq(Nat), MoreSpecific(a, b)
    PROVE  ~ Matches(a, b)
<1> SUFFICES ASSUME Matches(a, b) PROVE FALSE
  OBVIOUS
<1>1. PICK m \in Nat, n \in Nat : /\ m = Len(a) /\ n = Len(b)
                                  /\ a \in [1..m -> Nat] /\ b \in [1..n -> Nat]
  BY Precedence
<1>2. DOMAIN a = 1..m /\ DOMAIN b = 1..n
  BY <1>1
<1>3. PICK cut \in [1..n -> 1..m] :
        /\ {cut[i] : i \in 1..n} = 1..m
        /\ \A i, j \in 1..n : i < j => cut[i] <= cut[j]
        /\ \A i \in 1..n : a[cut[i]] # Star => b[i] = a[cut[i]]
  BY <1>2, Zenon DEF Matches
<1>4. IsCut(cut, n, m)
  <2>1. ASSUME NEW k \in 1..m PROVE \E i \in 1..n : cut[i] = k
    BY <1>3
  <2> QED
    BY <1>3, <2>1, Zenon DEF IsCut
<1>5. m <= n /\ (n = m => \A i \in 1..n : cut[i] = i)
  BY <1>4, CutLags
<1>6. m > n \/ (m = n /\ Greater(a, b))
  BY <1>1, Precedence, Zenon
<1>7. m = n
  BY <1>5, <1>6
<1>8. PICK i \in 1..n : a[i] > b[i]
  BY <1>2, <1>6, <1>7 DEF Greater
<1>9. a[i] \in Nat /\ b[i] \in Nat /\ cut[i] = i
  BY <1>1, <1>5, <1>7
<1>10. a[i] # Star => b[i] = a[i]
  BY <1>3, <1>9
<1> QED
  BY <1>8, <1>9, <1>10 DEF Star

(* Of finitely many patterns one precedes all others, so Match has a best. *)
LEMMA BestExists ==
    ASSUME NEW P, P \subseteq Seq(Nat), IsFiniteSet(P), P # {}
    PROVE  \E p \in P : \A q \in P \ {p} : MoreSpecific(p, q)
<1> DEFINE R == {r \in Seq(Nat) \X Seq(Nat) : MoreSpecific(r[1], r[2])}
<1>1. \A a, b \in Seq(Nat) : <<a, b>> \in R <=> MoreSpecific(a, b)
  OBVIOUS
<1> HIDE DEF R
<1>2. ASSUME NEW a \in P, NEW b \in P, a # b PROVE <<a, b>> \in R \/ <<b, a>> \in R
  BY <1>1, <1>2, MoreSpecificTotal
<1>3. ASSUME NEW a \in P, NEW b \in P, NEW c \in P, <<a, b>> \in R, <<b, c>> \in R
      PROVE  <<a, c>> \in R
  <2>1. MoreSpecific(a, b) /\ MoreSpecific(b, c)
    BY <1>1, <1>3
  <2> QED
    BY <1>1, <2>1, MoreSpecificTransitive
<1>4. PICK p \in P : \A q \in P \ {p} : <<p, q>> \in R
  BY <1>2, <1>3, GreatestElement
<1> QED
  BY <1>1, <1>4

(* The index is finite, and of patterns of profiles that are not abstract. *)
LEMMA ClaimsTypes ==
    ASSUME LibraryInv
    PROVE  /\ IsFiniteSet(Claims)
           /\ \A c \in Claims : /\ c.pattern \in Seq(Nat) /\ c.user \in BOOLEAN
                                /\ c.profile \in Names /\ c.profile \notin Abstract
<1> DEFINE Of(n) == {Claim(n, n \in fromUser, k, raw[n].claims[k]) : k \in DOMAIN raw[n].claims}
           all == [n \in Names \ Abstract |-> Of(n)]
<1>1. Claims = UNION {all[n] : n \in DOMAIN all}
  BY DEF Claims
<1>2. ASSUME NEW n \in Names
      PROVE  /\ raw[n].claims \in Seq(Seq(Nat) \ {<<>>})
             /\ \A k \in DOMAIN raw[n].claims : raw[n].claims[k] \in Seq(Nat)
  <2>1. IsDocument(raw[n])
    BY DEF LibraryInv
  <2>2. raw[n].claims \in Seq(Seq(Nat) \ {<<>>})
    BY <2>1 DEF IsDocument
  <2>3. ASSUME NEW s \in Seq(Seq(Nat) \ {<<>>}) PROVE \A k \in DOMAIN s : s[k] \in Seq(Nat)
    OBVIOUS
  <2> QED
    BY <2>2, <2>3
<1>3. ASSUME NEW n \in Names \ Abstract PROVE IsFiniteSet(Of(n))
  <2> DEFINE f == [k \in DOMAIN raw[n].claims |-> Claim(n, n \in fromUser, k, raw[n].claims[k])]
  <2>1. IsFiniteSet(DOMAIN raw[n].claims)
    <3>1. PICK m \in Nat : DOMAIN raw[n].claims = 1..m
      BY <1>2, LenProperties
    <3>2. IsFiniteSet(1..m)
      BY FS_Interval
    <3> QED
      BY <3>1, <3>2
  <2>2. IsFiniteSet(DOMAIN f) /\ Of(n) = {f[k] : k \in DOMAIN f}
    BY <2>1
  <2> HIDE DEF f, Of
  <2> QED
    BY <2>2, FiniteImage
<1>4. ASSUME NEW c \in Claims
      PROVE  /\ c.pattern \in Seq(Nat) /\ c.user \in BOOLEAN
             /\ c.profile \in Names /\ c.profile \notin Abstract
  <2>1. PICK n \in Names \ Abstract : c \in Of(n)
    BY <1>1
  <2>2. PICK k \in DOMAIN raw[n].claims : c = Claim(n, n \in fromUser, k, raw[n].claims[k])
    BY <2>1
  <2> QED
    BY <1>2, <2>2 DEF Claim
<1>5. IsFiniteSet(Claims)
  <2> HIDE DEF Of
  <2>1. IsFiniteSet(DOMAIN all) /\ \A n \in DOMAIN all : IsFiniteSet(all[n])
    <3>1. IsFiniteSet(Names \ Abstract)
      BY FS_Difference DEF LibraryInv
    <3> QED
      BY <3>1, <1>3
  <2> HIDE DEF all
  <2>2. IsFiniteSet({all[n] : n \in DOMAIN all})
    BY <2>1, FiniteImage
  <2> QED
    BY <1>1, <2>1, <2>2, FS_UNION
<1> QED
  BY <1>4, <1>5

ClaimsOf(pattern) == {c \in Claims : c.pattern = pattern}

(* What Match returns: that nothing matches, or the matching pattern that  *)
(* precedes all others and what its claims come to.                        *)
LEMMA MatchReturns ==
    ASSUME LibraryInv, NEW oid
    PROVE  \/ /\ Match(Claims, oid) = [NoMatch EXCEPT !.oid = oid]
              /\ \A c \in Claims : ~ Matches(c.pattern, oid)
           \/ \E best \in Seq(Nat) :
                 /\ Matches(best, oid) /\ ClaimsOf(best) # {}
                 /\ \A c \in Claims : Matches(c.pattern, oid) /\ c.pattern # best =>
                        MoreSpecific(best, c.pattern)
                 /\ Match(Claims, oid) =
                       [oid |-> oid, pattern |-> {best},
                        profile |-> IF Conflicting(ClaimsOf(best)) THEN {}
                                    ELSE {Winner(ClaimsOf(best)).profile}]
<1> DEFINE all == [c \in Claims |-> c.pattern]
           patterns == {c.pattern : c \in Claims}
           matching == {p \in patterns : Matches(p, oid)}
           best == CHOOSE p \in matching : \A q \in matching \ {p} : MoreSpecific(p, q)
<1>1. CASE matching = {}
  <2>1. \A c \in Claims : ~ Matches(c.pattern, oid)
    BY <1>1
  <2>2. Match(Claims, oid) = [NoMatch EXCEPT !.oid = oid]
    BY <1>1, Zenon DEF Match
  <2> QED
    BY <2>1, <2>2
<1>2. CASE matching # {}
  <2>1. matching \subseteq Seq(Nat) /\ IsFiniteSet(matching)
    <3>1. IsFiniteSet(DOMAIN all) /\ patterns = {all[c] : c \in DOMAIN all}
      BY ClaimsTypes
    <3>2. IsFiniteSet(patterns)
      <4> HIDE DEF all, patterns
      <4> QED
        BY <3>1, FiniteImage
    <3>3. patterns \subseteq Seq(Nat) /\ matching \in SUBSET patterns
      BY ClaimsTypes
    <3> HIDE DEF matching, patterns
    <3> QED
      BY <3>2, <3>3, FS_Subset
  <2>2. \E p \in matching : \A q \in matching \ {p} : MoreSpecific(p, q)
    <3> HIDE DEF matching
    <3> QED
      BY <1>2, <2>1, BestExists
  <2>3. best \in matching /\ \A q \in matching \ {best} : MoreSpecific(best, q)
    <3> HIDE DEF matching
    <3> QED
      BY <2>2
  <2>4. Match(Claims, oid) =
          [oid |-> oid, pattern |-> {best},
           profile |-> IF Conflicting(ClaimsOf(best)) THEN {} ELSE {Winner(ClaimsOf(best)).profile}]
    BY <1>2, Zenon DEF Match, ClaimsOf
  <2> HIDE DEF best
  <2>5. Matches(best, oid) /\ ClaimsOf(best) # {} /\ best \in Seq(Nat)
    BY <2>1, <2>3 DEF ClaimsOf
  <2>6. ASSUME NEW c \in Claims, Matches(c.pattern, oid), c.pattern # best
        PROVE  MoreSpecific(best, c.pattern)
    BY <2>3, <2>6
  <2> QED
    BY <2>4, <2>5, <2>6
<1> QED
  BY <1>1, <1>2

(* The winner is a user's, if any user has the pattern; there is a         *)
(* conflict unless one claim alone has precedence.                         *)
LEMMA WinnerLeads ==
    ASSUME NEW C, C # {}, \A c \in C : c.user \in BOOLEAN
    PROVE  /\ Winner(C) \in C
           /\ \A c \in C : c.user => Winner(C).user
<1>1. \E c \in C : \A d \in C : ~ UserFirst(d, c)
  <2>1. CASE \E c \in C : c.user
    BY <2>1 DEF UserFirst
  <2>2. CASE \A c \in C : ~ c.user
    BY <2>2 DEF UserFirst
  <2> QED
    BY <2>1, <2>2
<1>2. Winner(C) \in C /\ \A d \in C : ~ UserFirst(d, Winner(C))
  BY <1>1 DEF Winner
<1> QED
  BY <1>2 DEF UserFirst

LEMMA ConflictMeans ==
    ASSUME NEW C, C # {}, IsFiniteSet(C), \A c \in C : c.user \in BOOLEAN,
           NEW precede,
           precede = IF \E c \in C : c.user THEN {c \in C : c.user} ELSE {c \in C : ~ c.user}
    PROVE  (IF Conflicting(C) THEN {} ELSE {Winner(C).profile})
               = IF Cardinality(precede) = 1 THEN {c.profile : c \in precede} ELSE {}
<1> DEFINE w == Winner(C)
           others == C \ {w}
<1>1. w \in C /\ \A c \in C : c.user => w.user
  BY WinnerLeads
<1>2. others # {} => /\ Winner(others) \in others
                     /\ \A c \in others : c.user => Winner(others).user
  BY WinnerLeads
<1>3. w \in precede /\ precede \in SUBSET C /\ IsFiniteSet(precede)
  <2>1. w \in precede /\ precede \in SUBSET C
    BY <1>1
  <2> QED
    BY <2>1, FS_Subset
<1>4. Conflicting(C) <=> others # {} /\ ~ (w.user /\ ~ Winner(others).user)
  BY DEF Conflicting
<1>5. Conflicting(C) <=> precede # {w}
  <2> HIDE DEF w
  <2>1. CASE w.user
    <3>1. precede = {c \in C : c.user}
      BY <1>1, <2>1
    <3>2. precede # {w} <=> \E c \in others : c.user
      BY <1>1, <2>1, <3>1
    <3> QED
      BY <1>2, <1>4, <2>1, <3>2
  <2>2. CASE ~ w.user
    <3>1. precede = C
      BY <1>1, <2>2
    <3> QED
      BY <1>1, <1>4, <2>2, <3>1
  <2> QED
    BY <1>1, <2>1, <2>2
<1>6. Cardinality(precede) = 1 <=> precede = {w}
  BY <1>3, FS_Singleton
<1> QED
  BY <1>5, <1>6

-----------------------------------------------------------------------------
(* The library and the match are kept.                                     *)

LEMMA LibraryInit == ASSUME Init PROVE LibraryInv
<1>1. PICK l \in Libraries :
        /\ raw = Overlay(l.embedded, l.user) /\ fromUser = DOMAIN l.user
        /\ configured = l.configured /\ devices = l.devices
  BY DEF Init
<1>2. IsLibrary(l)
  BY StoreAssumptions
<1>3. Names = DOMAIN l.embedded \cup DOMAIN l.user
  BY <1>1 DEF Names, Overlay
<1>4. IsFiniteSet(Names)
  BY <1>2, <1>3, FS_Union DEF IsLibrary
<1>5. ASSUME NEW n \in Names PROVE IsDocument(raw[n])
  <2>1. raw[n] = IF n \in DOMAIN l.user THEN l.user[n] ELSE l.embedded[n]
    BY <1>1, <1>3, <1>5 DEF Overlay
  <2>2. \A files \in {l.embedded, l.user} : \A k \in DOMAIN files : IsDocument(files[k])
    BY <1>2 DEF IsLibrary
  <2> QED
    BY <1>3, <1>5, <2>1, <2>2
<1> QED
  BY <1>1, <1>2, <1>4, <1>5 DEF LibraryInv, IsLibrary

LEMMA LibraryKept == ASSUME [Next]_vars PROVE UNCHANGED library
  BY DEF Next, vars, Detect, Resolve, Expand, SkipSeen, UnknownParent, MergeParent, Expanded, Finish

LEMMA LibraryNext == ASSUME LibraryInv, [Next]_vars PROVE LibraryInv'
<1>1. raw' = raw /\ devices' = devices
  BY LibraryKept DEF library
<1> QED
  BY <1>1 DEF LibraryInv, Names

LEMMA MatchNext == ASSUME MatchInv, [Next]_vars PROVE MatchInv'
<1>1. raw' = raw /\ fromUser' = fromUser /\ devices' = devices
  BY LibraryKept DEF library
<1>2. Claims' = Claims
  BY <1>1 DEF Claims, Names
<1>3. CASE UNCHANGED detected
  BY <1>1, <1>2, <1>3 DEF MatchInv
<1>4. ASSUME NEW oid \in devices, Detect(oid) PROVE MatchInv'
  <2>1. detected' = Match(Claims, oid)
    BY <1>4 DEF Detect
  <2>2. Match(Claims, oid).oid = oid
    BY DEF Match, NoMatch
  <2>3. detected'.oid = oid
    BY <2>1, <2>2
  <2> QED
    BY <1>1, <1>2, <2>1, <2>3 DEF MatchInv
<1> QED
  BY <1>3, <1>4 DEF Next, vars, Resolve, Expand, SkipSeen, UnknownParent, MergeParent, Expanded, Finish

(* Match chooses as it should for any library and any sysObjectID.         *)
LEMMA MatchIsRight ==
    ASSUME LibraryInv, MatchInv
    PROVE  MostSpecificWins /\ OneClaimantWins
<1> DEFINE oid == detected.oid
<1>1. CASE detected = NoMatch
  BY <1>1 DEF NoMatch, MostSpecificWins, OneClaimantWins
<1>2. CASE oid \in devices /\ detected = [NoMatch EXCEPT !.oid = oid]
           /\ \A c \in Claims : ~ Matches(c.pattern, oid)
  <2>1. detected.pattern = {} /\ detected.profile = {}
    BY <1>2 DEF NoMatch
  <2>2. \A precede : precede \subseteq {} => ~ (Cardinality(precede) = 1)
    BY FS_EmptySet
  <2>3. MostSpecificWins
    BY <2>1 DEF MostSpecificWins
  <2>4. OneClaimantWins
    BY <1>2, <2>1, <2>2 DEF OneClaimantWins
  <2> QED
    BY <2>3, <2>4
<1>3. ASSUME NEW best \in Seq(Nat),
             Matches(best, oid), ClaimsOf(best) # {},
             \A c \in Claims : Matches(c.pattern, oid) /\ c.pattern # best =>
                 MoreSpecific(best, c.pattern),
             detected = [oid |-> oid, pattern |-> {best},
                         profile |-> IF Conflicting(ClaimsOf(best)) THEN {}
                                     ELSE {Winner(ClaimsOf(best)).profile}]
      PROVE  MostSpecificWins /\ OneClaimantWins
  <2> DEFINE C == ClaimsOf(best)
             precede == IF \E c \in C : c.user THEN {c \in C : c.user} ELSE {c \in C : ~ c.user}
  <2>1. detected.pattern = {best}
    BY <1>3
  <2>2. MostSpecificWins
    <3>1. ASSUME NEW c \in Claims, Matches(c.pattern, oid), c.pattern # best
          PROVE  ~ Matches(best, c.pattern)
      BY <1>3, <3>1, ClaimsTypes, PrecedingDoesNotMatch
    <3> QED
      BY <2>1, <3>1 DEF MostSpecificWins
  <2>3. C \in SUBSET Claims /\ IsFiniteSet(C) /\ C # {} /\ \A c \in C : c.user \in BOOLEAN
    <3>1. C \in SUBSET Claims
      BY DEF ClaimsOf
    <3> QED
      BY <1>3, <3>1, ClaimsTypes, FS_Subset
  <2>4. detected.profile = IF Cardinality(precede) = 1 THEN {c.profile : c \in precede} ELSE {}
    <3>1. detected.profile = IF Conflicting(C) THEN {} ELSE {Winner(C).profile}
      BY <1>3
    <3> HIDE DEF C
    <3> QED
      BY <2>3, <3>1, ConflictMeans
  <2>5. detected.profile \cap Abstract = {}
    <3>1. \A c \in precede : c.profile \notin Abstract
      BY <2>3, ClaimsTypes
    <3> HIDE DEF precede
    <3> QED
      BY <2>4, <3>1
  <2>6. OneClaimantWins
    <3> DEFINE claimants(byUser) == {c \in Claims : c.user = byUser /\ c.pattern \in detected.pattern}
    <3>1. claimants(TRUE) = {c \in C : c.user} /\ claimants(FALSE) = {c \in C : ~ c.user}
      BY <2>1, ClaimsTypes DEF ClaimsOf
    <3>2. precede = IF claimants(TRUE) # {} THEN claimants(TRUE) ELSE claimants(FALSE)
      BY <3>1
    <3>3. detected.pattern = {} <=> \A c \in Claims : ~ Matches(c.pattern, oid)
      BY <1>3, <2>1 DEF ClaimsOf
    <3> HIDE DEF precede
    <3> QED
      BY <2>4, <2>5, <3>2, <3>3 DEF OneClaimantWins
  <2> QED
    BY <2>2, <2>6
<1>4. (oid \in devices /\ detected = Match(Claims, oid)) \/ detected = NoMatch
  BY DEF MatchInv
<1> QED
  BY <1>1, <1>2, <1>3, <1>4, MatchReturns

(* Whatever the library, and whatever the order in which its claims are    *)
(* looked at, no other pattern that matches is more specific than the one  *)
(* Match chose: Spec keeps MostSpecificWins.                               *)
THEOREM MostSpecificPatternWins == Spec => []MostSpecificWins
<1>1. Init => LibraryInv /\ MatchInv
  BY LibraryInit DEF Init, MatchInv
<1>2. LibraryInv /\ MatchInv /\ [Next]_vars => (LibraryInv /\ MatchInv)'
  BY LibraryNext, MatchNext
<1>3. LibraryInv /\ MatchInv => MostSpecificWins
  BY MatchIsRight
<1> QED
  BY <1>1, <1>2, <1>3, PTL DEF Spec

(* A device gets the profile of the one claimant with precedence, and no   *)
(* profile only when there is none or more than one: Spec keeps            *)
(* OneClaimantWins.                                                        *)
THEOREM OnlyClaimantWins == Spec => []OneClaimantWins
<1>1. Init => LibraryInv /\ MatchInv
  BY LibraryInit DEF Init, MatchInv
<1>2. LibraryInv /\ MatchInv /\ [Next]_vars => (LibraryInv /\ MatchInv)'
  BY LibraryNext, MatchNext
<1>3. LibraryInv /\ MatchInv => OneClaimantWins
  BY MatchIsRight
<1> QED
  BY <1>1, <1>2, <1>3, PTL DEF Spec

-----------------------------------------------------------------------------
(* What a profile reaches.                                                 *)

(* It reaches itself, and the parents of what it reaches.                  *)
LEMMA ReachSteps ==
    ASSUME NEW n \in Names
    PROVE  /\ n \in Reach(n)
           /\ \A m \in Reach(n) \cap Names : \A p \in Parents(m) : p \in Reach(n)
<1>1. n \in Reach(n)
  BY DEF Reach, Mentioned
<1>2. ASSUME NEW m \in Reach(n), m \in Names, NEW p \in Parents(m) PROVE p \in Reach(n)
  <2>1. p \in Mentioned
    BY <1>2 DEF Mentioned
  <2>2. ASSUME NEW S \in SUBSET Mentioned, n \in S, IsClosed(S) PROVE p \in S
    <3>1. m \in S
      BY <2>2 DEF Reach
    <3> QED
      BY <1>2, <2>2, <3>1 DEF IsClosed
  <2> QED
    BY <2>1, <2>2 DEF Reach
<1> QED
  BY <1>1, <1>2

(* It reaches no more than any closed set that holds it.                   *)
LEMMA ReachIsLeast ==
    ASSUME NEW n, NEW S, S \subseteq Reach(n), n \in S, IsClosed(S)
    PROVE  S = Reach(n)
<1>1. S \in SUBSET Mentioned
  BY DEF Reach
<1>2. \A m \in Reach(n) : m \in S
  BY <1>1 DEF Reach
<1> QED
  BY <1>2

LEMMA ReachKept ==
    ASSUME raw' = raw
    PROVE  /\ Names' = Names
           /\ \A n : Reach(n)' = Reach(n)
           /\ \A n : Parents(n)' = Parents(n)
<1>1. Names' = Names /\ \A n : Parents(n)' = Parents(n)
  BY DEF Names, Parents
<1>2. Mentioned' = Mentioned
  BY <1>1 DEF Mentioned
<1>3. ASSUME NEW n PROVE Reach(n)' = Reach(n)
  <2>1. \A S : IsClosed(S)' <=> IsClosed(S)
    BY <1>1 DEF IsClosed
  <2> QED
    BY <1>2, <2>1 DEF Reach
<1> QED
  BY <1>1, <1>3

LEMMA ParentLists ==
    ASSUME LibraryInv, NEW n \in Names
    PROVE  /\ raw[n].extends \in Seq(STRING)
           /\ Parents(n) = {raw[n].extends[k] : k \in DOMAIN raw[n].extends}
<1>1. IsDocument(raw[n])
  BY DEF LibraryInv
<1> QED
  BY <1>1 DEF IsDocument, Parents

-----------------------------------------------------------------------------
(* The stack of references.                                                *)

(* Followed drops the first reference of the innermost list.               *)
LEMMA FollowedHolds ==
    ASSUME NEW s \in Seq(Seq(STRING)), s # <<>>, s[Len(s)] # <<>>,
           NEW t, t = [s EXCEPT ![Len(s)] = Tail(@)]
    PROVE  /\ t \in Seq(Seq(STRING))
           /\ \A m : Holds(s, m) <=> Holds(t, m) \/ m = s[Len(s)][1]
<1>1. PICK n \in Nat : n = Len(s) /\ DOMAIN s = 1..n /\ n # 0
  BY LenProperties, EmptySeq
<1>2. /\ \A d \in 1..n : s[d] \in Seq(STRING)
      /\ n \in 1..n
  BY <1>1
<1>3. PICK x \in Seq(STRING) : x = s[n] /\ x # <<>>
  BY <1>1, <1>2
<1>4. PICK l \in Nat : l = Len(x) /\ DOMAIN x = 1..l /\ l # 0
  BY <1>3, LenProperties, EmptySeq
<1>5. /\ Tail(x) \in Seq(STRING) /\ DOMAIN Tail(x) = 1..(l - 1)
      /\ \A k \in 1..(l - 1) : Tail(x)[k] = x[k + 1]
  <2>1. Tail(x) \in Seq(STRING) /\ Len(Tail(x)) = Len(x) - 1
        /\ \A k \in 1..Len(Tail(x)) : Tail(x)[k] = x[k + 1]
    BY <1>3, HeadTailProperties
  <2> QED
    BY <1>4, <2>1
<1>6. t = [d \in 1..n |-> IF d = n THEN Tail(x) ELSE s[d]]
  BY <1>1, <1>3
<1>7. t \in Seq(Seq(STRING))
  <2>1. t = [s EXCEPT ![n] = Tail(x)] /\ n \in 1..Len(s)
    BY <1>1, <1>2, <1>3
  <2>2. ASSUME NEW S, s \in Seq(S), Tail(x) \in S PROVE [s EXCEPT ![n] = Tail(x)] \in Seq(S)
    BY <2>1, <2>2, ExceptSeq, Zenon
  <2> QED
    BY <1>5, <2>1, <2>2
<1>8. ASSUME NEW m, Holds(s, m) PROVE Holds(t, m) \/ m = x[1]
  <2>1. PICK d \in 1..n : \E k \in DOMAIN s[d] : s[d][k] = m
    BY <1>1, <1>8 DEF Holds
  <2>2. PICK k \in DOMAIN s[d] : s[d][k] = m
    BY <2>1
  <2>3. CASE d # n
    <3>1. t[d] = s[d] /\ d \in DOMAIN t
      BY <1>6, <2>3
    <3> QED
      BY <2>2, <3>1 DEF Holds
  <2>4. CASE d = n /\ k = 1
    BY <1>3, <2>2, <2>4
  <2>5. CASE d = n /\ k # 1
    <3>1. k \in 1..l /\ k - 1 \in 1..(l - 1) /\ (k - 1) + 1 = k
      BY <1>3, <1>4, <2>2, <2>5
    <3>2. t[n] = Tail(x) /\ n \in DOMAIN t
      BY <1>2, <1>6
    <3>3. Tail(x)[k - 1] = m /\ k - 1 \in DOMAIN Tail(x)
      BY <1>3, <1>5, <2>2, <2>5, <3>1
    <3> QED
      BY <3>2, <3>3 DEF Holds
  <2> QED
    BY <2>3, <2>4, <2>5
<1>9. ASSUME NEW m, Holds(t, m) PROVE Holds(s, m)
  <2>1. PICK d \in 1..n : \E k \in DOMAIN t[d] : t[d][k] = m
    BY <1>6, <1>9 DEF Holds
  <2>2. PICK k \in DOMAIN t[d] : t[d][k] = m
    BY <2>1
  <2>3. CASE d # n
    BY <1>1, <1>6, <2>2, <2>3 DEF Holds
  <2>4. CASE d = n
    <3>1. k \in 1..(l - 1) /\ Tail(x)[k] = m
      BY <1>5, <1>6, <2>2, <2>4
    <3>2. k + 1 \in DOMAIN x /\ x[k + 1] = m
      BY <1>4, <1>5, <3>1
    <3> QED
      BY <1>1, <1>2, <1>3, <3>2 DEF Holds
  <2> QED
    BY <2>3, <2>4
<1>10. Holds(s, x[1])
  BY <1>1, <1>2, <1>3, <1>4 DEF Holds
<1> QED
  BY <1>1, <1>3, <1>7, <1>8, <1>9, <1>10

(* The parents of a document are pushed, and a list that is done with is   *)
(* popped, without a change to the rest.                                   *)
LEMMA PushedHolds ==
    ASSUME NEW s \in Seq(Seq(STRING)), NEW x \in Seq(STRING)
    PROVE  /\ Append(s, x) \in Seq(Seq(STRING))
           /\ \A m : Holds(Append(s, x), m) <=> Holds(s, m) \/ \E k \in DOMAIN x : x[k] = m
<1>1. PICK n \in Nat : n = Len(s) /\ DOMAIN s = 1..n
  BY LenProperties
<1>2. /\ Append(s, x) \in Seq(Seq(STRING)) /\ DOMAIN Append(s, x) = 1..(n + 1)
      /\ \A d \in 1..n : Append(s, x)[d] = s[d]
      /\ Append(s, x)[n + 1] = x
  <2>1. /\ Append(s, x) \in Seq(Seq(STRING)) /\ Len(Append(s, x)) = Len(s) + 1
        /\ \A d \in 1..Len(s) : Append(s, x)[d] = s[d]
        /\ Append(s, x)[Len(s) + 1] = x
    BY AppendProperties
  <2> QED
    BY <1>1, <2>1
<1>3. \A d : d \in 1..(n + 1) <=> d \in 1..n \/ d = n + 1
  OBVIOUS
<1> QED
  BY <1>1, <1>2, <1>3 DEF Holds

LEMMA PoppedHolds ==
    ASSUME NEW s \in Seq(Seq(STRING)), s # <<>>, s[Len(s)] = <<>>
    PROVE  LET t == SubSeq(s, 1, Len(s) - 1)
           IN  /\ t \in Seq(Seq(STRING))
               /\ \A m : Holds(t, m) <=> Holds(s, m)
<1>1. PICK n \in Nat : n = Len(s) /\ DOMAIN s = 1..n /\ n # 0
  BY LenProperties, EmptySeq
<1> DEFINE t == SubSeq(s, 1, n - 1)
<1>2. /\ t \in Seq(Seq(STRING)) /\ DOMAIN t = 1..(n - 1)
      /\ \A d \in 1..(n - 1) : t[d] = s[d]
  <2>1. \A d \in 1..(n - 1) : s[d] \in Seq(STRING)
    BY <1>1
  <2> QED
    BY <1>1, <2>1
<1>3. \A d : d \in 1..n <=> d \in 1..(n - 1) \/ d = n
  BY <1>1
<1>4. DOMAIN s[n] = {}
  BY <1>1
<1> HIDE DEF t
<1>5. \A m : Holds(t, m) <=> Holds(s, m)
  BY <1>1, <1>2, <1>3, <1>4 DEF Holds
<1> QED
  BY <1>1, <1>2, <1>5 DEF t

-----------------------------------------------------------------------------
(* Resolve keeps what it works on in order, action by action.              *)

LEMMA ResolveInit == ASSUME Init PROVE ResolveInv
<1>1. name = {} /\ refs = <<>> /\ content = <<>> /\ resolved = EmptyMap
  BY DEF Init
<1>2. WorkTypes
  BY <1>1, EmptySeq DEF WorkTypes
<1>3. SeenInv /\ ContentInv /\ MetadataInv
  BY <1>1 DEF SeenInv, ContentInv, MetadataInv
<1>4. CacheInv
  BY <1>1 DEF CacheInv, EmptyMap
<1> QED
  BY <1>2, <1>3, <1>4 DEF ResolveInv

(* A cache that is not written stays right.                                *)
LEMMA CacheKept ==
    ASSUME CacheInv, raw' = raw, resolved' = resolved
    PROVE  CacheInv'
<1>1. /\ \A n : Reach(n)' = Reach(n)
      /\ Names' = Names
  BY ReachKept
<1> QED
  BY <1>1 DEF CacheInv, ContentIsRight, FieldsAreRight

(* Nor does what is merged change while nothing is.                        *)
LEMMA MergedKept ==
    ASSUME ContentInv, MetadataInv, raw' = raw, Merged' = Merged,
           name' = name, content' = content, metadata' = metadata
    PROVE  ContentInv' /\ MetadataInv'
<1>1. ContentInv'
  BY DEF ContentInv
<1>2. MetadataInv'
  <2>1. (UNION {raw[a].defines : a \in Merged})' = UNION {raw[a].defines : a \in Merged}
    OBVIOUS
  <2> QED
    BY <2>1 DEF MetadataInv
<1> QED
  BY <1>1, <1>2

LEMMA ResolveKeeps ==
    ASSUME LibraryInv, ResolveInv, NEW n \in Names, Resolve(n), raw' = raw
    PROVE  ResolveInv'
<1>1. /\ name' = {n} /\ refs' = <<raw[n].extends>> /\ seen' = {n} /\ content' = <<n>>
      /\ metadata' = FieldsOf(n) /\ failed' = FALSE /\ resolved' = resolved
  BY DEF Resolve, FirstSeen
<1>2. Names' = Names /\ (\A m : Reach(m)' = Reach(m)) /\ \A m : Parents(m)' = Parents(m)
  BY ReachKept
<1>3. Merged' = {n}
  BY <1>1, <1>2 DEF Merged
<1>4. PICK x \in Seq(STRING) : x = raw[n].extends /\ Parents(n) = {x[k] : k \in DOMAIN x}
  BY ParentLists
<1>5. WorkTypes'
  <2>1. <<x>> \in Seq(Seq(STRING)) /\ <<n>> \in Seq(Names)
    OBVIOUS
  <2> QED
    BY <1>1, <1>2, <1>4, <2>1 DEF WorkTypes
<1>6. SeenInv'
  <2>1. n \in Reach(n) /\ \A k \in DOMAIN x : x[k] \in Reach(n)
    BY <1>4, ReachSteps
  <2>2. refs' = <<x>> /\ DOMAIN refs' = {1} /\ refs'[1] = x
    BY <1>1, <1>4
  <2>3. \A p \in Parents(n) : Holds(refs', p)
    BY <1>4, <2>2 DEF Holds
  <2>4. \A d \in DOMAIN refs' : \A k \in DOMAIN refs'[d] : refs'[d][k] \in Reach(n)
    BY <2>1, <2>2
  <2>5. failed' <=> ~ (seen' \subseteq Names)
    BY <1>1
  <2> QED
    BY <1>1, <1>2, <1>3, <2>1, <2>3, <2>4, <2>5 DEF SeenInv, Holds
<1>7. ContentInv'
  BY <1>1, <1>3 DEF ContentInv
<1>8. MetadataInv'
  <2>1. DOMAIN metadata' = raw[n].defines /\ \A f \in raw[n].defines : metadata'[f] = n
    BY <1>1 DEF FieldsOf
  <2> QED
    BY <1>1, <1>3, <2>1 DEF MetadataInv
<1>9. CacheInv'
  BY <1>1, CacheKept DEF ResolveInv
<1> QED
  BY <1>5, <1>6, <1>7, <1>8, <1>9 DEF ResolveInv

(* The reference that expand looks at, and the stack without it.           *)
LEMMA FollowedStack ==
    ASSUME ResolveInv, Expanding
    PROVE  /\ Followed \in Seq(Seq(STRING))
           /\ \A m : Holds(refs, m) <=> Holds(Followed, m) \/ m = Ref
           /\ \A n \in name : \A m : Holds(refs, m) => m \in Reach(n)
<1>1. refs \in Seq(Seq(STRING)) /\ refs # <<>> /\ refs[Len(refs)] # <<>>
  BY DEF ResolveInv, WorkTypes, Expanding, Depth
<1>2. Followed = [refs EXCEPT ![Len(refs)] = Tail(@)] /\ Ref = refs[Len(refs)][1]
  BY DEF Followed, Ref, Depth
<1>3. \A n \in name : \A m : Holds(refs, m) => m \in Reach(n)
  BY DEF ResolveInv, SeenInv, Holds
<1> QED
  BY <1>1, <1>2, <1>3, FollowedHolds

LEMMA SkipSeenKeeps ==
    ASSUME ResolveInv, SkipSeen, raw' = raw
    PROVE  ResolveInv'
<1>1. /\ Expanding /\ Ref \in seen /\ refs' = Followed
      /\ UNCHANGED <<name, seen, content, metadata, failed, resolved>>
  BY DEF SkipSeen, AlreadySeen
<1>2. Names' = Names /\ (\A m : Reach(m)' = Reach(m)) /\ \A m : Parents(m)' = Parents(m)
  BY ReachKept
<1>3. Merged' = Merged
  BY <1>1, <1>2 DEF Merged
<1>4. WorkTypes'
  BY <1>1, <1>2, FollowedStack DEF ResolveInv, WorkTypes
<1>5. SeenInv'
  <2>1. /\ \A m : Holds(refs', m) => Holds(refs, m)
        /\ \A m : Holds(refs, m) => Holds(refs', m) \/ m \in seen
    BY <1>1, FollowedStack
  <2> SUFFICES ASSUME NEW n \in name PROVE
         /\ n \in seen
         /\ \A m \in seen : m \in Reach(n)
         /\ \A d \in DOMAIN refs' : \A k \in DOMAIN refs'[d] : refs'[d][k] \in Reach(n)
         /\ \A a \in Merged : \A p \in Parents(a) : p \in seen \/ Holds(refs', p)
         /\ failed <=> ~ (seen \subseteq Names)
    BY <1>1, <1>2, <1>3 DEF SeenInv, Holds
  <2>2. \A d \in DOMAIN refs' : \A k \in DOMAIN refs'[d] : refs'[d][k] \in Reach(n)
    <3>1. \A d \in DOMAIN refs' : \A k \in DOMAIN refs'[d] : Holds(refs', refs'[d][k])
      BY DEF Holds
    <3> QED
      BY <1>1, <2>1, <3>1, FollowedStack
  <2>3. /\ n \in seen
        /\ \A m \in seen : m \in Reach(n)
        /\ \A a \in Merged : \A p \in Parents(a) : p \in seen \/ Holds(refs, p)
        /\ failed <=> ~ (seen \subseteq Names)
    BY DEF ResolveInv, SeenInv
  <2> QED
    BY <2>1, <2>2, <2>3
<1>6. ContentInv' /\ MetadataInv'
  BY <1>1, <1>3, MergedKept DEF ResolveInv
<1>7. CacheInv'
  BY <1>1, CacheKept DEF ResolveInv
<1> QED
  BY <1>4, <1>5, <1>6, <1>7 DEF ResolveInv

LEMMA UnknownParentKeeps ==
    ASSUME ResolveInv, UnknownParent, raw' = raw
    PROVE  ResolveInv'
<1>1. /\ Expanding /\ Ref \notin Names /\ refs' = Followed /\ seen' = seen \cup {Ref} /\ failed' = TRUE
      /\ UNCHANGED <<name, content, metadata, resolved>>
  BY DEF UnknownParent
<1>2. Names' = Names /\ (\A m : Reach(m)' = Reach(m)) /\ \A m : Parents(m)' = Parents(m)
  BY ReachKept
<1>3. Merged' = Merged
  BY <1>1, <1>2 DEF Merged
<1>4. WorkTypes'
  BY <1>1, <1>2, FollowedStack DEF ResolveInv, WorkTypes
<1>5. SeenInv'
  <2>1. /\ \A m : Holds(refs', m) => Holds(refs, m)
        /\ \A m : Holds(refs, m) => Holds(refs', m) \/ m = Ref
        /\ Holds(refs, Ref)
    BY <1>1, FollowedStack
  <2> SUFFICES ASSUME NEW n \in name PROVE
         /\ n \in seen'
         /\ \A m \in seen' : m \in Reach(n)
         /\ \A d \in DOMAIN refs' : \A k \in DOMAIN refs'[d] : refs'[d][k] \in Reach(n)
         /\ \A a \in Merged : \A p \in Parents(a) : p \in seen' \/ Holds(refs', p)
         /\ failed' <=> ~ (seen' \subseteq Names)
    BY <1>1, <1>2, <1>3 DEF SeenInv, Holds
  <2>2. \A d \in DOMAIN refs' : \A k \in DOMAIN refs'[d] : refs'[d][k] \in Reach(n)
    <3>1. \A d \in DOMAIN refs' : \A k \in DOMAIN refs'[d] : Holds(refs', refs'[d][k])
      BY DEF Holds
    <3> QED
      BY <1>1, <2>1, <3>1, FollowedStack
  <2>3. /\ n \in seen
        /\ \A m \in seen : m \in Reach(n)
        /\ \A a \in Merged : \A p \in Parents(a) : p \in seen \/ Holds(refs, p)
    BY DEF ResolveInv, SeenInv
  <2>4. Ref \in Reach(n)
    BY <1>1, <2>1, FollowedStack
  <2> QED
    BY <1>1, <2>1, <2>2, <2>3, <2>4
<1>6. ContentInv' /\ MetadataInv'
  BY <1>1, <1>3, MergedKept DEF ResolveInv
<1>7. CacheInv'
  BY <1>1, CacheKept DEF ResolveInv
<1> QED
  BY <1>4, <1>5, <1>6, <1>7 DEF ResolveInv

LEMMA MergeParentKeeps ==
    ASSUME LibraryInv, ResolveInv, MergeParent, raw' = raw
    PROVE  ResolveInv'
<1>1. /\ Expanding /\ Ref \notin seen /\ Ref \in Names
      /\ refs' = Append(Followed, raw[Ref].extends)
      /\ seen' = seen \cup {Ref} /\ content' = Append(content, Ref)
      /\ metadata' = FilledIn(metadata, FieldsOf(Ref))
      /\ UNCHANGED <<name, failed, resolved>>
  BY DEF MergeParent, AlreadySeen
<1>2. Names' = Names /\ (\A m : Reach(m)' = Reach(m)) /\ \A m : Parents(m)' = Parents(m)
  BY ReachKept
<1>3. Merged' = Merged \cup {Ref} /\ Ref \notin Merged
  BY <1>1, <1>2 DEF Merged
<1>4. PICK x \in Seq(STRING) : x = raw[Ref].extends /\ Parents(Ref) = {x[k] : k \in DOMAIN x}
  BY <1>1, ParentLists
<1>5. /\ refs' \in Seq(Seq(STRING))
      /\ \A m : Holds(refs', m) <=> Holds(Followed, m) \/ m \in Parents(Ref)
  <2>1. Followed \in Seq(Seq(STRING))
    BY <1>1, FollowedStack
  <2>2. refs' = Append(Followed, x)
    BY <1>1, <1>4
  <2>3. \A m : m \in Parents(Ref) <=> \E k \in DOMAIN x : x[k] = m
    BY <1>4
  <2> HIDE DEF Followed, Ref
  <2> QED
    BY <2>1, <2>2, <2>3, PushedHolds
<1>6. PICK l \in Nat : /\ l = Len(content) /\ DOMAIN content = 1..l
                       /\ content' \in Seq(Names) /\ DOMAIN content' = 1..(l + 1)
                       /\ \A k \in 1..l : content'[k] = content[k]
                       /\ content'[l + 1] = Ref
  <2>1. content \in Seq(Names)
    BY DEF ResolveInv, WorkTypes
  <2>2. /\ Append(content, Ref) \in Seq(Names) /\ Len(Append(content, Ref)) = Len(content) + 1
        /\ \A k \in 1..Len(content) : Append(content, Ref)[k] = content[k]
        /\ Append(content, Ref)[Len(content) + 1] = Ref
    BY <1>1, <2>1, AppendProperties
  <2>3. Len(content) \in Nat /\ DOMAIN content = 1..Len(content)
        /\ DOMAIN Append(content, Ref) = 1..Len(Append(content, Ref))
    BY <2>1, <2>2, LenProperties
  <2> QED
    BY <1>1, <2>2, <2>3
<1>7. WorkTypes'
  BY <1>1, <1>2, <1>5, <1>6 DEF ResolveInv, WorkTypes
<1>8. SeenInv'
  <2>1. /\ \A m : Holds(refs', m) => Holds(refs, m) \/ m \in Parents(Ref)
        /\ \A m : Holds(refs, m) => Holds(refs', m) \/ m = Ref
        /\ \A m \in Parents(Ref) : Holds(refs', m)
        /\ Holds(refs, Ref)
    BY <1>1, <1>5, FollowedStack
  <2> SUFFICES ASSUME NEW n \in name PROVE
         /\ n \in seen'
         /\ \A m \in seen' : m \in Reach(n)
         /\ \A d \in DOMAIN refs' : \A k \in DOMAIN refs'[d] : refs'[d][k] \in Reach(n)
         /\ \A a \in Merged' : \A p \in Parents(a) : p \in seen' \/ Holds(refs', p)
         /\ failed <=> ~ (seen' \subseteq Names)
    BY <1>1, <1>2 DEF SeenInv, Holds
  <2>2. Ref \in Reach(n) /\ \A p \in Parents(Ref) : p \in Reach(n)
    <3>1. n \in Names
      BY DEF ResolveInv, WorkTypes
    <3>2. Ref \in Reach(n)
      BY <1>1, <2>1, FollowedStack
    <3> QED
      BY <1>1, <3>1, <3>2, ReachSteps
  <2>3. \A d \in DOMAIN refs' : \A k \in DOMAIN refs'[d] : refs'[d][k] \in Reach(n)
    <3>1. \A d \in DOMAIN refs' : \A k \in DOMAIN refs'[d] : Holds(refs', refs'[d][k])
      BY DEF Holds
    <3> QED
      BY <1>1, <2>1, <2>2, <3>1, FollowedStack
  <2>4. /\ n \in seen
        /\ \A m \in seen : m \in Reach(n)
        /\ \A a \in Merged : \A p \in Parents(a) : p \in seen \/ Holds(refs, p)
        /\ failed <=> ~ (seen \subseteq Names)
    BY DEF ResolveInv, SeenInv
  <2>5. \A a \in Merged' : \A p \in Parents(a) : p \in seen' \/ Holds(refs', p)
    BY <1>1, <1>3, <2>1, <2>4
  <2> QED
    BY <1>1, <2>2, <2>3, <2>4, <2>5
<1>9. ContentInv'
  <2> SUFFICES ASSUME NEW n \in name PROVE
         /\ content' # <<>> /\ content'[1] = n
         /\ {content'[k] : k \in DOMAIN content'} = Merged'
         /\ \A k, j \in DOMAIN content' : content'[k] = content'[j] => k = j
    BY <1>1 DEF ContentInv
  <2>1. /\ content # <<>> /\ content[1] = n
        /\ {content[k] : k \in DOMAIN content} = Merged
        /\ \A k, j \in DOMAIN content : content[k] = content[j] => k = j
    BY DEF ResolveInv, ContentInv
  <2>2. l # 0
    BY <1>6, <2>1, EmptySeq DEF ResolveInv, WorkTypes
  <2>3. \A k : k \in 1..(l + 1) <=> k \in 1..l \/ k = l + 1
    OBVIOUS
  <2>4. \A k \in 1..l : content'[k] \in Merged /\ content'[k] # Ref
    BY <1>3, <1>6, <2>1
  <2>5. {content'[k] : k \in DOMAIN content'} = Merged'
    BY <1>3, <1>6, <2>1, <2>3
  <2>6. \A k, j \in DOMAIN content' : content'[k] = content'[j] => k = j
    BY <1>6, <2>1, <2>3, <2>4
  <2>7. content' # <<>> /\ content'[1] = n
    <3>1. 1 \in 1..l /\ 1 \in DOMAIN content'
      BY <1>6, <2>2
    <3> QED
      BY <1>6, <2>1, <3>1
  <2> QED
    BY <2>5, <2>6, <2>7
<1>10. MetadataInv'
  <2>0. (UNION {raw[a].defines : a \in Merged})' = UNION {raw[a].defines : a \in Merged'}
    OBVIOUS
  <2> SUFFICES ASSUME NEW n \in name PROVE
         /\ DOMAIN metadata' = UNION {raw[a].defines : a \in Merged'}
         /\ \A f \in DOMAIN metadata' : metadata'[f] \in Merged' /\ f \in raw[metadata'[f]].defines
         /\ \A f \in raw[n].defines : metadata'[f] = n
    BY <1>1, <2>0 DEF MetadataInv
  <2>1. /\ DOMAIN metadata = UNION {raw[a].defines : a \in Merged}
        /\ \A f \in DOMAIN metadata : metadata[f] \in Merged /\ f \in raw[metadata[f]].defines
        /\ \A f \in raw[n].defines : metadata[f] = n
    BY DEF ResolveInv, MetadataInv
  <2>2. n \in Merged
    BY DEF ResolveInv, WorkTypes, SeenInv, Merged
  <2>3. /\ DOMAIN metadata' = DOMAIN metadata \cup raw[Ref].defines
        /\ \A f \in DOMAIN metadata' :
              metadata'[f] = IF f \in DOMAIN metadata THEN metadata[f] ELSE Ref
    <3>1. DOMAIN FieldsOf(Ref) = raw[Ref].defines /\ \A f \in raw[Ref].defines : FieldsOf(Ref)[f] = Ref
      BY DEF FieldsOf
    <3> QED
      BY <1>1, <3>1 DEF FilledIn
  <2>4. UNION {raw[a].defines : a \in Merged'} = (UNION {raw[a].defines : a \in Merged}) \cup raw[Ref].defines
    BY <1>3
  <2> QED
    BY <1>3, <2>1, <2>2, <2>3, <2>4
<1>11. CacheInv'
  BY <1>1, CacheKept DEF ResolveInv
<1> QED
  BY <1>7, <1>8, <1>9, <1>10, <1>11 DEF ResolveInv

LEMMA ExpandedKeeps ==
    ASSUME ResolveInv, Expanded, raw' = raw
    PROVE  ResolveInv'
<1>1. /\ refs # <<>> /\ refs[Len(refs)] = <<>> /\ refs' = SubSeq(refs, 1, Len(refs) - 1)
      /\ UNCHANGED <<name, seen, content, metadata, failed, resolved>>
  BY DEF Expanded, Depth
<1>2. Names' = Names /\ (\A m : Reach(m)' = Reach(m)) /\ \A m : Parents(m)' = Parents(m)
  BY ReachKept
<1>3. Merged' = Merged
  BY <1>1, <1>2 DEF Merged
<1>4. refs' \in Seq(Seq(STRING)) /\ \A m : Holds(refs', m) <=> Holds(refs, m)
  BY <1>1, PoppedHolds DEF ResolveInv, WorkTypes
<1>5. WorkTypes'
  BY <1>1, <1>2, <1>4 DEF ResolveInv, WorkTypes
<1>6. SeenInv'
  <2> SUFFICES ASSUME NEW n \in name PROVE
         /\ n \in seen
         /\ \A m \in seen : m \in Reach(n)
         /\ \A d \in DOMAIN refs' : \A k \in DOMAIN refs'[d] : refs'[d][k] \in Reach(n)
         /\ \A a \in Merged : \A p \in Parents(a) : p \in seen \/ Holds(refs', p)
         /\ failed <=> ~ (seen \subseteq Names)
    BY <1>1, <1>2, <1>3 DEF SeenInv, Holds
  <2>1. /\ n \in seen
        /\ \A m \in seen : m \in Reach(n)
        /\ \A m : Holds(refs, m) => m \in Reach(n)
        /\ \A a \in Merged : \A p \in Parents(a) : p \in seen \/ Holds(refs, p)
        /\ failed <=> ~ (seen \subseteq Names)
    BY DEF ResolveInv, SeenInv, Holds
  <2>2. \A d \in DOMAIN refs' : \A k \in DOMAIN refs'[d] : Holds(refs', refs'[d][k])
    BY DEF Holds
  <2> QED
    BY <1>4, <2>1, <2>2
<1>7. ContentInv' /\ MetadataInv'
  BY <1>1, <1>3, MergedKept DEF ResolveInv
<1>8. CacheInv'
  BY <1>1, CacheKept DEF ResolveInv
<1> QED
  BY <1>5, <1>6, <1>7, <1>8 DEF ResolveInv

(* With nothing left to follow, what is seen is all that is within reach.  *)
LEMMA SeenIsReach ==
    ASSUME ResolveInv, refs = <<>>, NEW n \in name
    PROVE  seen = Reach(n) /\ n \in Names
<1>1. \A m : ~ Holds(refs, m)
  BY DEF Holds
<1>2. IsClosed(seen)
  BY <1>1 DEF ResolveInv, SeenInv, IsClosed, Merged
<1>3. seen \subseteq Reach(n) /\ n \in seen
  BY DEF ResolveInv, SeenInv
<1>4. n \in Names
  BY DEF ResolveInv, WorkTypes
<1> QED
  BY <1>2, <1>3, <1>4, ReachIsLeast

LEMMA FinishKeeps ==
    ASSUME ResolveInv, NEW n \in Names, Finish(n), raw' = raw
    PROVE  ResolveInv'
<1>1. /\ name = {n} /\ refs = <<>> /\ refs' = refs /\ name' = {} /\ content' = <<>>
      /\ IF failed THEN resolved' = resolved ELSE resolved' = Put(resolved, n, Result)
  BY DEF Finish
<1>2. Names' = Names /\ \A m : Reach(m)' = Reach(m)
  BY ReachKept
<1>3. WorkTypes'
  BY <1>1, <1>2, EmptySeq DEF ResolveInv, WorkTypes
<1>4. SeenInv' /\ ContentInv' /\ MetadataInv'
  BY <1>1 DEF SeenInv, ContentInv, MetadataInv
<1>5. CASE failed
  BY <1>1, <1>3, <1>4, <1>5, CacheKept DEF ResolveInv
<1>6. CASE ~ failed
  <2>1. Merged = Reach(n)
    <3>1. seen = Reach(n)
      BY <1>1, SeenIsReach
    <3>2. seen \subseteq Names
      BY <1>1, <1>6 DEF ResolveInv, SeenInv
    <3> QED
      BY <3>1, <3>2 DEF Merged
  <2>2. ContentIsRight(n, content)
    <3>1. /\ content[1] = n /\ {content[k] : k \in DOMAIN content} = Reach(n)
          /\ \A k, l \in DOMAIN content : content[k] = content[l] => k = l
      BY <1>1, <2>1 DEF ResolveInv, ContentInv
    <3>2. PICK l \in Nat : l = Len(content) /\ DOMAIN content = 1..l
      BY LenProperties DEF ResolveInv, WorkTypes
    <3>3. IsFiniteSet(DOMAIN content) /\ Cardinality(DOMAIN content) = Len(content)
      <4>1. IsFiniteSet(1..l) /\ Cardinality(1..l) = l
        BY FS_Interval
      <4> QED
        BY <3>2, <4>1
    <3>4. Len(content) = Cardinality(Reach(n))
      BY <3>1, <3>3, FiniteImage
    <3> QED
      BY <3>1, <3>4 DEF ContentIsRight
  <2>3. FieldsAreRight(n, metadata)
    BY <1>1, <2>1 DEF ResolveInv, MetadataInv, FieldsAreRight
  <2>4. /\ DOMAIN resolved' = DOMAIN resolved \cup {n}
        /\ resolved'[n].content = content /\ resolved'[n].metadata = metadata
        /\ \A m \in DOMAIN resolved : m # n => resolved'[m] = resolved[m]
    BY <1>1, <1>6 DEF Put, Result
  <2>5. ASSUME NEW m \in DOMAIN resolved'
        PROVE  ContentIsRight(m, resolved'[m].content) /\ FieldsAreRight(m, resolved'[m].metadata)
    <3>1. CASE m = n
      BY <2>2, <2>3, <2>4, <3>1
    <3>2. CASE m # n
      BY <2>4, <3>2 DEF ResolveInv, CacheInv
    <3> QED
      BY <3>1, <3>2
  <2>6. CacheInv'
    BY <1>2, <2>5 DEF CacheInv, ContentIsRight, FieldsAreRight
  <2> QED
    BY <1>3, <1>4, <2>6 DEF ResolveInv
<1> QED
  BY <1>5, <1>6

(* A step that is none of these touches nothing of it.                     *)
LEMMA ResolveIdle ==
    ASSUME ResolveInv, UNCHANGED <<raw, name, working, resolved>>
    PROVE  ResolveInv'
<1>1. UNCHANGED <<raw, name, refs, seen, content, metadata, failed, resolved>>
  BY DEF working
<1>2. Names' = Names /\ (\A m : Reach(m)' = Reach(m)) /\ \A m : Parents(m)' = Parents(m)
  BY <1>1, ReachKept
<1>3. Merged' = Merged
  BY <1>1, <1>2 DEF Merged
<1>4. WorkTypes'
  BY <1>1, <1>2 DEF ResolveInv, WorkTypes
<1>5. SeenInv'
  BY <1>1, <1>2, <1>3 DEF ResolveInv, SeenInv, Holds
<1>6. ContentInv' /\ MetadataInv'
  BY <1>1, <1>3, MergedKept DEF ResolveInv
<1>7. CacheInv'
  BY <1>1, CacheKept DEF ResolveInv
<1> QED
  BY <1>4, <1>5, <1>6, <1>7 DEF ResolveInv

LEMMA ResolveNext == ASSUME LibraryInv, ResolveInv, [Next]_vars PROVE ResolveInv'
<1>1. raw' = raw
  BY LibraryKept DEF library
<1>2. ASSUME UNCHANGED vars \/ \E oid \in devices : Detect(oid) PROVE ResolveInv'
  BY <1>1, <1>2, ResolveIdle DEF vars, Detect
<1> QED
  BY <1>1, <1>2, ResolveKeeps, SkipSeenKeeps, UnknownParentKeeps, MergeParentKeeps, ExpandedKeeps,
     FinishKeeps DEF Next, Expand

LEMMA ResolvesRight == Spec => [](LibraryInv /\ ResolveInv)
<1>1. Init => LibraryInv /\ ResolveInv
  BY LibraryInit, ResolveInit
<1>2. LibraryInv /\ ResolveInv /\ [Next]_vars => (LibraryInv /\ ResolveInv)'
  BY LibraryNext, ResolveNext
<1> QED
  BY <1>1, <1>2, PTL DEF Spec

(* For every graph of extends, cycles and diamonds and unknown parents     *)
(* among them, what the cache holds for a profile is the profile, then     *)
(* each document within its reach once, whatever was resolved before, and  *)
(* expand fails only for an unknown one: Spec keeps EachMergedOnce.        *)
THEOREM DiamondsMergeOnce == Spec => []EachMergedOnce
<1>1. LibraryInv /\ ResolveInv => EachMergedOnce
  <2> SUFFICES ASSUME LibraryInv, ResolveInv PROVE EachMergedOnce
    OBVIOUS
  <2>1. ASSUME NEW n \in DOMAIN resolved
        PROVE  ContentIsRight(n, resolved[n].content)
    BY DEF ResolveInv, CacheInv
  <2>2. ASSUME NEW n \in Names, name = {n}, refs = <<>>, failed
        PROVE  ~ (Reach(n) \subseteq Names)
    <3>1. seen = Reach(n)
      BY <2>2, SeenIsReach
    <3> QED
      BY <2>2, <3>1 DEF ResolveInv, SeenInv
  <2> QED
    BY <2>1, <2>2 DEF EachMergedOnce, ContentIsRight
<1> QED
  BY <1>1, ResolvesRight, PTL

(* A resolved profile keeps its own fields, and inherits every other field *)
(* that some ancestor has from one that has it: Spec keeps ChildWins.      *)
THEOREM ChildKeepsItsFields == Spec => []ChildWins
<1>1. LibraryInv /\ ResolveInv => ChildWins
  BY DEF ResolveInv, CacheInv, FieldsAreRight, ChildWins
<1> QED
  BY <1>1, ResolvesRight, PTL
=============================================================================
