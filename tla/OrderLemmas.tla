----------------------------- MODULE OrderLemmas -----------------------------
(***************************************************************************)
(* Facts about the order of the natural numbers that proofs about sorted   *)
(* keys, walks and slots need: least and greatest elements, and the rank   *)
(* of an element in a finite set.  The library's induction theorems take   *)
(* an operator as a parameter; a least counterexample takes a set.         *)
(***************************************************************************)
EXTENDS Integers, FiniteSets, FiniteSetTheorems, WellFoundedInduction, TLAPS

Below == {p \in Nat \X Nat : p[1] < p[2]}

(* Every nonempty set of naturals has a least element: the least           *)
(* counterexample of an argument by induction.                             *)
LEMMA LeastNatural ==
    ASSUME NEW T, T \subseteq Nat, T # {}
    PROVE  \E m \in T : \A k \in T : m <= k
<1>1. IsWellFoundedOn(Below, Nat)
  <2>1. OpToRel(<, Nat) = Below
    BY DEF OpToRel, Below
  <2> QED
    BY <2>1, NatLessThanWellFounded
<1>2. PICK m \in T : \A k \in T : ~ (<<k, m>> \in Below)
  BY <1>1, WFMin
<1>3. ASSUME NEW k \in T PROVE m <= k
  <2>1. k \in Nat /\ m \in Nat
    OBVIOUS
  <2>2. k < m => <<k, m>> \in Below
    BY <2>1 DEF Below
  <2> QED
    BY <1>2, <2>1, <2>2
<1> QED
  BY <1>3

(* The sets that would be counterexamples to GreatestNatural, by size.     *)
Endless(n) ==
    {S \in SUBSET Nat : /\ IsFiniteSet(S) /\ S # {} /\ Cardinality(S) = n
                        /\ ~ \E m \in S : \A k \in S : k <= m}

(* Every finite nonempty set of naturals has a greatest element.           *)
LEMMA GreatestNatural ==
    ASSUME NEW T, T \subseteq Nat, IsFiniteSet(T), T # {}
    PROVE  \E m \in T : \A k \in T : k <= m
<1> DEFINE Bad == {n \in Nat : Endless(n) # {}}
<1> SUFFICES ASSUME ~ \E m \in T : \A k \in T : k <= m PROVE FALSE
  OBVIOUS
<1>1. Cardinality(T) \in Bad
  <2>1. Cardinality(T) \in Nat
    BY FS_CardinalityType
  <2>2. T \in Endless(Cardinality(T))
    BY DEF Endless
  <2> QED
    BY <2>1, <2>2
<1>2. PICK n \in Bad : \A k \in Bad : n <= k
  <2>1. Bad \subseteq Nat /\ Bad # {}
    BY <1>1
  <2> HIDE DEF Bad
  <2> QED
    BY <2>1, LeastNatural
<1>3. PICK S \in Endless(n) : TRUE
  OBVIOUS
<1>4. /\ S \subseteq Nat /\ IsFiniteSet(S) /\ Cardinality(S) = n
      /\ ~ \E m \in S : \A k \in S : k <= m
  BY <1>3 DEF Endless
<1>5. PICK x \in S : x \in Nat
  BY <1>3 DEF Endless
<1> DEFINE R == S \ {x}
<1>6. IsFiniteSet(R) /\ Cardinality(R) = n - 1 /\ R \subseteq Nat
  BY <1>4, <1>5, FS_RemoveElement
<1>7. CASE R = {}
  <2>1. \A k \in S : k = x
    BY <1>7
  <2> QED
    BY <1>4, <1>5, <2>1
<1>8. CASE R # {}
  <2>1. n - 1 \in Nat /\ n - 1 < n
    <3>1. Cardinality(R) \in Nat
      BY <1>6, FS_CardinalityType
    <3> QED
      BY <3>1, <1>6
  <2>2. n - 1 \notin Bad
    BY <1>2, <2>1
  <2>3. R \notin Endless(n - 1)
    BY <2>1, <2>2
  <2>4. PICK m \in R : \A k \in R : k <= m
    BY <2>3, <1>6, <1>8 DEF Endless
  <2>5. m \in Nat /\ m \in S
    BY <1>4
  <2>6. CASE x <= m
    <3>1. \A k \in S : k <= m
      BY <2>4, <2>6
    <3> QED
      BY <3>1, <2>5, <1>4
  <2>7. CASE m < x
    <3>1. ASSUME NEW k \in S PROVE k <= x
      <4>1. k \in Nat
        BY <1>4
      <4>2. k = x \/ k <= m
        BY <2>4
      <4> QED
        BY <4>1, <4>2, <2>5, <2>7, <1>5
    <3> QED
      BY <3>1, <1>4, <1>5
  <2> QED
    BY <2>5, <2>6, <2>7, <1>5
<1> QED
  BY <1>7, <1>8

-----------------------------------------------------------------------------
(* The rank of x in S is the number of elements up to x.                   *)
UpTo(S, x) == {y \in S : y <= x}

(* A rank is a position of S.                                              *)
LEMMA RankType ==
    ASSUME NEW S, S \subseteq Nat, IsFiniteSet(S), NEW x \in S
    PROVE  /\ IsFiniteSet(UpTo(S, x))
           /\ Cardinality(UpTo(S, x)) \in 1..Cardinality(S)
<1>1. UpTo(S, x) \in SUBSET S /\ x \in UpTo(S, x)
  BY DEF UpTo
<1>2. IsFiniteSet(UpTo(S, x)) /\ Cardinality(UpTo(S, x)) <= Cardinality(S)
  BY <1>1, FS_Subset
<1>3. Cardinality(S) \in Nat /\ Cardinality(UpTo(S, x)) \in Nat
  BY <1>2, FS_CardinalityType
<1>4. Cardinality(UpTo(S, x)) # 0
  BY <1>1, <1>2, FS_EmptySet
<1> QED
  BY <1>2, <1>3, <1>4

(* A greater element has a greater rank, so a rank belongs to one element. *)
LEMMA RankGrows ==
    ASSUME NEW S, S \subseteq Nat, IsFiniteSet(S), NEW x \in S, NEW y \in S, x < y
    PROVE  Cardinality(UpTo(S, x)) < Cardinality(UpTo(S, y))
<1>1. UpTo(S, x) \in SUBSET UpTo(S, y)
  <2>1. ASSUME NEW k \in UpTo(S, x) PROVE k \in UpTo(S, y)
    <3>1. k \in S /\ k <= x /\ k \in Nat /\ x \in Nat /\ y \in Nat
      BY DEF UpTo
    <3> QED
      BY <3>1 DEF UpTo
  <2> QED
    BY <2>1
<1>2. y \in UpTo(S, y) /\ y \notin UpTo(S, x)
  BY DEF UpTo
<1>3. IsFiniteSet(UpTo(S, y))
  BY RankType
<1>4. Cardinality(UpTo(S, x)) <= Cardinality(UpTo(S, y))
  BY <1>1, <1>3, FS_Subset
<1>5. Cardinality(UpTo(S, x)) # Cardinality(UpTo(S, y))
  BY <1>1, <1>2, <1>3, FS_Subset
<1>6. Cardinality(UpTo(S, x)) \in Nat /\ Cardinality(UpTo(S, y)) \in Nat
  BY RankType, FS_CardinalityType
<1> QED
  BY <1>4, <1>5, <1>6

(* Every position of S is the rank of an element: of the positions that    *)
(* were not, the greatest would be followed by that of an x, and the       *)
(* element below x would have it.                                          *)
LEMMA RankExists ==
    ASSUME NEW S, S \subseteq Nat, IsFiniteSet(S), NEW r \in 1..Cardinality(S)
    PROVE  \E x \in S : Cardinality(UpTo(S, x)) = r
<1> DEFINE n       == Cardinality(S)
           Gaps    == {g \in 1..n : \A x \in S : Cardinality(UpTo(S, x)) # g}
<1>1. n \in Nat
  BY FS_CardinalityType
<1> SUFFICES ASSUME Gaps # {} PROVE FALSE
  OBVIOUS
<1>2. PICK g \in Gaps : \A k \in Gaps : k <= g
  <2>1. IsFiniteSet(1..n)
    BY <1>1, FS_Interval
  <2>2. Gaps \subseteq Nat /\ IsFiniteSet(Gaps)
    BY <2>1, <1>1, FS_Subset
  <2> HIDE DEF Gaps
  <2> QED
    BY <2>2, GreatestNatural
<1>3. g # n
  <2>1. S # {}
    BY <1>1, <1>2, FS_EmptySet
  <2>2. PICK m \in S : \A k \in S : k <= m
    BY <2>1, GreatestNatural
  <2>3. UpTo(S, m) = S
    BY <2>2 DEF UpTo
  <2> QED
    BY <2>3
<1>4. PICK x \in S : Cardinality(UpTo(S, x)) = g + 1
  <2>1. g + 1 \in 1..n /\ g + 1 \notin Gaps
    BY <1>1, <1>2, <1>3
  <2> QED
    BY <2>1
<1> DEFINE L == UpTo(S, x) \ {x}
<1>5. IsFiniteSet(L) /\ Cardinality(L) = g
  <2>1. IsFiniteSet(UpTo(S, x)) /\ x \in UpTo(S, x)
    <3>1. IsFiniteSet(UpTo(S, x))
      BY RankType
    <3>2. x \in Nat
      OBVIOUS
    <3> QED
      BY <3>1, <3>2 DEF UpTo
  <2>2. IsFiniteSet(L) /\ Cardinality(L) = Cardinality(UpTo(S, x)) - 1
    BY <2>1, FS_RemoveElement
  <2> QED
    BY <2>2, <1>2, <1>4
<1>6. L # {}
  BY <1>2, <1>5, FS_EmptySet
<1>7. PICK m \in L : \A k \in L : k <= m
  <2>1. L \subseteq Nat
    BY DEF UpTo
  <2> HIDE DEF L
  <2> QED
    BY <2>1, <1>5, <1>6, GreatestNatural
<1>8. m \in S /\ UpTo(S, m) = L
  <2>1. m \in S /\ m < x
    BY <1>7 DEF UpTo
  <2>2. ASSUME NEW k \in UpTo(S, m) PROVE k \in L
    BY <2>1, <2>2 DEF UpTo
  <2>3. ASSUME NEW k \in L PROVE k \in UpTo(S, m)
    BY <1>7, <2>3 DEF UpTo
  <2> QED
    BY <2>1, <2>2, <2>3
<1> QED
  BY <1>2, <1>5, <1>8

-----------------------------------------------------------------------------
(* A slot of a table of n columns, row by row, gives back its row and its  *)
(* column.                                                                 *)
LEMMA RowAndColumn ==
    ASSUME NEW n \in Nat \ {0}, NEW i \in 1..n, NEW q \in Nat
    PROVE  /\ (q * n + i - 1) \div n = q
           /\ (q * n + i - 1) % n = i - 1
  OBVIOUS

-----------------------------------------------------------------------------
(* The same for any strict total order R of the elements of T: the         *)
(* subsets of n elements that would have no greatest one.                  *)
Unbeaten(R, T, n) ==
    {S \in SUBSET T : /\ IsFiniteSet(S) /\ S # {} /\ Cardinality(S) = n
                      /\ ~ \E m \in S : \A k \in S \ {m} : <<m, k>> \in R}

(* Every finite nonempty set with a strict total order has a greatest      *)
(* element: the best of the patterns that match.                           *)
LEMMA GreatestElement ==
    ASSUME NEW R, NEW T, IsFiniteSet(T), T # {},
           \A x, y \in T : x # y => <<x, y>> \in R \/ <<y, x>> \in R,
           \A x, y, z \in T : <<x, y>> \in R /\ <<y, z>> \in R => <<x, z>> \in R
    PROVE  \E m \in T : \A k \in T \ {m} : <<m, k>> \in R
<1> DEFINE Bad == {n \in Nat : Unbeaten(R, T, n) # {}}
<1> SUFFICES ASSUME ~ \E m \in T : \A k \in T \ {m} : <<m, k>> \in R PROVE FALSE
  OBVIOUS
<1>1. Cardinality(T) \in Bad
  <2>1. Cardinality(T) \in Nat
    BY FS_CardinalityType
  <2>2. T \in Unbeaten(R, T, Cardinality(T))
    BY DEF Unbeaten
  <2> QED
    BY <2>1, <2>2
<1>2. PICK n \in Bad : \A k \in Bad : n <= k
  <2>1. Bad \subseteq Nat /\ Bad # {}
    BY <1>1
  <2> HIDE DEF Bad
  <2> QED
    BY <2>1, LeastNatural
<1>3. PICK S \in Unbeaten(R, T, n) : TRUE
  OBVIOUS
<1>4. /\ S \subseteq T /\ IsFiniteSet(S) /\ Cardinality(S) = n
      /\ ~ \E m \in S : \A k \in S \ {m} : <<m, k>> \in R
  BY <1>3 DEF Unbeaten
<1>5. PICK x \in S : TRUE
  BY <1>3 DEF Unbeaten
<1> DEFINE U == S \ {x}
<1>6. IsFiniteSet(U) /\ Cardinality(U) = n - 1 /\ U \subseteq T
  BY <1>4, <1>5, FS_RemoveElement
<1>7. U # {}
  BY <1>4, <1>5
<1>8. PICK m \in U : \A k \in U \ {m} : <<m, k>> \in R
  <2>1. n - 1 \in Nat /\ n - 1 < n
    <3>1. Cardinality(U) \in Nat
      BY <1>6, FS_CardinalityType
    <3> QED
      BY <3>1, <1>6
  <2>2. n - 1 \notin Bad
    BY <1>2, <2>1
  <2>3. U \notin Unbeaten(R, T, n - 1)
    BY <2>1, <2>2
  <2> QED
    BY <2>3, <1>6, <1>7 DEF Unbeaten
<1>9. m \in T /\ x \in T /\ m # x /\ m \in S
  BY <1>4
<1>10. CASE <<m, x>> \in R
  <2>1. \A k \in S \ {m} : <<m, k>> \in R
    BY <1>8, <1>10
  <2> QED
    BY <2>1, <1>4, <1>9
<1>11. CASE <<x, m>> \in R
  <2>1. ASSUME NEW k \in S \ {x} PROVE <<x, k>> \in R
    <3>1. k = m \/ <<m, k>> \in R
      BY <1>8
    <3> QED
      BY <3>1, <1>4, <1>9, <1>11
  <2> QED
    BY <2>1, <1>4
<1> QED
  BY <1>9, <1>10, <1>11

(* What a function takes from a finite set is finite, and has as many      *)
(* elements where the function gives no value twice.                       *)
LEMMA FiniteImage ==
    ASSUME NEW f, IsFiniteSet(DOMAIN f)
    PROVE  LET T == {f[x] : x \in DOMAIN f}
           IN  /\ IsFiniteSet(T)
               /\ (\A x, y \in DOMAIN f : f[x] = f[y] => x = y)
                      => Cardinality(T) = Cardinality(DOMAIN f)
<1> DEFINE T == {f[x] : x \in DOMAIN f}
           g == [x \in DOMAIN f |-> f[x]]
<1>1. g \in Surjection(DOMAIN f, T)
  BY DEF Surjection
<1>2. (\A x, y \in DOMAIN f : f[x] = f[y] => x = y) => g \in Injection(DOMAIN f, T)
  BY DEF Injection, IsInjective
<1> HIDE DEF T, g
<1>3. IsFiniteSet(T) /\ (Cardinality(T) = Cardinality(DOMAIN f) <=> g \in Injection(DOMAIN f, T))
  BY <1>1, FS_Surjection
<1> QED
  BY <1>2, <1>3 DEF T
=============================================================================
