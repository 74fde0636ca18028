------------------------- MODULE AddressRangeProofs -------------------------
(***************************************************************************)
(* Proofs about AddressRange, for any widths of the addresses and of the   *)
(* word, 32, 128 and 64 bits among them: what ExpandCIDR returns is        *)
(* exactly the hosts of the subnet, in order.                              *)
(*                                                                         *)
(* The loop over the addresses is a recursive function, of which nothing   *)
(* is known but its equation.  Run gives a function that satisfies it, and *)
(* a least counterexample, from the end of the address space down, shows   *)
(* that there is no other.                                                 *)
(***************************************************************************)
EXTENDS AddressRange, OrderLemmas, SequenceTheorems

-----------------------------------------------------------------------------
(* Powers of two, as the numbers of subsets.                               *)
LEMMA PowerOfTwo == ASSUME NEW n \in Nat PROVE 2^n \in Nat /\ 2^n # 0
<1>1. IsFiniteSet(1..n) /\ Cardinality(1..n) = n
  BY FS_Interval
<1>2. IsFiniteSet(SUBSET (1..n)) /\ Cardinality(SUBSET (1..n)) = 2^n
  BY <1>1, FS_SUBSET
<1>3. SUBSET (1..n) # {}
  OBVIOUS
<1> QED
  BY <1>2, <1>3, FS_CardinalityType, FS_EmptySet

LEMMA PowerOfSum == ASSUME NEW a \in Nat, NEW b \in Nat PROVE 2^(a + b) = 2^a * 2^b
<1> DEFINE A == 1..a
           B == (a + 1)..(a + b)
           C == 1..(a + b)
           f == [X \in SUBSET C |-> <<X \cap A, X \cap B>>]
<1>1. /\ IsFiniteSet(A) /\ Cardinality(A) = a
      /\ IsFiniteSet(B) /\ Cardinality(B) = b
      /\ IsFiniteSet(C) /\ Cardinality(C) = a + b
  <2>1. IsFiniteSet(A) /\ Cardinality(A) = a
    BY FS_Interval
  <2>2. IsFiniteSet(B) /\ Cardinality(B) = b
    <3>1. a + 1 \in Int /\ a + b \in Int
      OBVIOUS
    <3>2. IsFiniteSet(B) /\ Cardinality(B) = IF a + 1 > a + b THEN 0 ELSE (a + b) - (a + 1) + 1
      BY <3>1, FS_Interval
    <3> QED
      BY <3>2
  <2>3. IsFiniteSet(C) /\ Cardinality(C) = a + b
    <3>1. a + b \in Nat
      OBVIOUS
    <3>2. \A n \in Nat : IsFiniteSet(1..n) /\ Cardinality(1..n) = n
      BY FS_Interval
    <3> QED
      BY <3>1, <3>2
  <2> QED
    BY <2>1, <2>2, <2>3
<1>2. A \cup B = C /\ A \cap B = {}
  OBVIOUS
<1> HIDE DEF A, B, C
<1>3. /\ IsFiniteSet(SUBSET A) /\ Cardinality(SUBSET A) = 2^a
      /\ IsFiniteSet(SUBSET B) /\ Cardinality(SUBSET B) = 2^b
      /\ IsFiniteSet(SUBSET C) /\ Cardinality(SUBSET C) = 2^(a + b)
  <2>1. \A S : IsFiniteSet(S) => IsFiniteSet(SUBSET S) /\ Cardinality(SUBSET S) = 2^Cardinality(S)
    BY FS_SUBSET
  <2> QED
    BY <1>1, <2>1, Zenon
<1> DEFINE P == (SUBSET A) \X (SUBSET B)
<1>4. Cardinality(P) = 2^a * 2^b
  <2>1. \A S, T : IsFiniteSet(S) /\ IsFiniteSet(T) =>
            Cardinality(S \X T) = Cardinality(S) * Cardinality(T)
    BY FS_Product
  <2>2. Cardinality(P) = Cardinality(SUBSET A) * Cardinality(SUBSET B)
    BY <1>3, <2>1, Zenon
  <2> QED
    BY <1>3, <2>2, Zenon
<1>5. f \in [SUBSET C -> P]
  OBVIOUS
<1>6. ASSUME NEW X \in SUBSET C, NEW Y \in SUBSET C, f[X] = f[Y] PROVE X = Y
  <2>1. X \cap A = Y \cap A /\ X \cap B = Y \cap B
    BY <1>6
  <2> QED
    BY <1>2, <2>1
<1>7. ASSUME NEW t \in P PROVE \E X \in SUBSET C : f[X] = t
  <2>1. PICK U \in SUBSET A, V \in SUBSET B : t = <<U, V>>
    OBVIOUS
  <2>2. U \cup V \in SUBSET C /\ (U \cup V) \cap A = U /\ (U \cup V) \cap B = V
    BY <1>2
  <2> QED
    BY <2>1, <2>2
<1>8. f \in Bijection(SUBSET C, P)
  <2>1. f \in Injection(SUBSET C, P)
    BY <1>5, <1>6 DEF Injection, IsInjective
  <2>2. f \in Surjection(SUBSET C, P)
    BY <1>5, <1>7 DEF Surjection
  <2> QED
    BY <2>1, <2>2 DEF Bijection
<1>9. Cardinality(P) = Cardinality(SUBSET C)
  <2>1. ExistsBijection(SUBSET C, P)
    BY <1>8 DEF ExistsBijection
  <2> HIDE DEF P
  <2> QED
    BY <1>3, <2>1, FS_Bijection
<1> QED
  BY <1>3, <1>4, <1>9

LEMMA PowerGrows == ASSUME NEW a \in Nat, NEW b \in Nat, a <= b PROVE 2^a <= 2^b
<1>1. b - a \in Nat /\ a + (b - a) = b
  OBVIOUS
<1>2. 2^b = 2^a * 2^(b - a)
  BY <1>1, PowerOfSum
<1>3. 2^a \in Nat /\ 2^(b - a) \in Nat \ {0}
  BY <1>1, PowerOfTwo
<1>4. \A x \in Nat, y \in Nat \ {0} : x <= x * y
  OBVIOUS
<1> QED
  BY <1>2, <1>3, <1>4

-----------------------------------------------------------------------------
(* The block of a prefix lies within the address space, and holds exactly  *)
(* the addresses that prefix.Contains accepts.                             *)
LEMMA BlockFits ==
    ASSUME NEW B \in Nat \ {0}, NEW t \in Nat, NEW x \in Nat, (x % B) = 0, x < t * B
    PROVE  x + B <= t * B
<1>1. PICK q \in Nat : x = q * B
  OBVIOUS
<1>2. q < t
  BY <1>1
<1>3. (q + 1) * B <= t * B
  BY <1>2
<1> QED
  BY <1>1, <1>3

LEMMA SameBlock ==
    ASSUME NEW B \in Nat \ {0}, NEW x \in Nat, (x % B) = 0, NEW a \in Nat
    PROVE  a - (a % B) = x <=> a \in x..(x + B - 1)
<1>1. PICK q \in Nat : x = q * B
  OBVIOUS
<1>2. ASSUME a \in x..(x + B - 1) PROVE (a % B) = a - x
  <2>1. a = q * B + (a - x) /\ (a - x) \in 0..(B - 1)
    BY <1>1, <1>2
  <2>2. \A r \in 0..(B - 1) : ((q * B + r) % B) = r
    OBVIOUS
  <2> QED
    BY <2>1, <2>2
<1>3. (a % B) \in 0..(B - 1)
  OBVIOUS
<1> QED
  BY <1>2, <1>3

-----------------------------------------------------------------------------
(* What a prefix of Prefixes is: its block, the address space around it,   *)
(* and what the operators of ExpandCIDR say of an address of the walk.     *)
LEMMA PrefixFacts ==
    ASSUME NEW p \in Prefixes
    PROVE  LET B == 2^HostBits(p)  T == 2^BitLen(p)
           IN  /\ HostBits(p) \in Nat /\ B \in Nat \ {0} /\ T \in Nat
               /\ p.addr \in Nat /\ p.addr + B <= T
               /\ \A a \in Nat : Contains(p, a) <=> a < T /\ a \in p.addr..(p.addr + B - 1)
<1> DEFINE h == HostBits(p)
           l == BitLen(p)
           B == 2^h
           T == 2^l
<1>1. /\ p.is4 \in BOOLEAN /\ p.bits \in Nat /\ p.addr \in Nat
      /\ p.bits <= l /\ p.addr < T /\ (p.addr % B) = 0
  <2>1. 0..(Width4 + Width6) \subseteq Nat
    OBVIOUS
  <2>2. /\ p \in [is4 : BOOLEAN, bits : 0..(Width4 + Width6), addr : 0..(2^(Width4 + Width6) - 1)]
        /\ p.bits <= l /\ p.addr < T /\ (p.addr % B) = 0
    BY DEF Prefixes
  <2>3. Width4 + Width6 \in Nat
    BY RangeAssumptions
  <2>4. 2^(Width4 + Width6) \in Nat
    BY <2>3, PowerOfTwo
  <2> HIDE DEF l, T, B
  <2> QED
    BY <2>1, <2>2, <2>4
<1>2. l \in Nat
  BY RangeAssumptions DEF BitLen
<1>3. h \in Nat /\ l = h + p.bits
  BY <1>1, <1>2 DEF HostBits
<1>4. B \in Nat /\ B # 0 /\ T \in Nat /\ 2^p.bits \in Nat /\ T = B * 2^p.bits
  <2> HIDE DEF h, l
  <2> QED
    BY <1>1, <1>2, <1>3, PowerOfTwo, PowerOfSum
<1> HIDE DEF h, l, B, T
<1>5. p.addr + B <= T
  <2>1. T = 2^p.bits * B
    BY <1>4
  <2> QED
    BY <1>1, <1>4, <2>1, BlockFits
<1>6. ASSUME NEW a \in Nat
      PROVE  Contains(p, a) <=> a < T /\ a \in p.addr..(p.addr + B - 1)
  <2>1. a - (a % B) = p.addr <=> a \in p.addr..(p.addr + B - 1)
    BY <1>1, <1>4, SameBlock
  <2> QED
    BY <2>1 DEF Contains, T, B, h, l
<1> QED
  BY <1>1, <1>3, <1>4, <1>5, <1>6 DEF h, l, B, T

-----------------------------------------------------------------------------
(* The numbers from l to h, in order.                                      *)
Run(l, h) == [k \in 1..(h - l + 1) |-> l + k - 1]

LEMMA RunTypes ==
    ASSUME NEW l \in Nat, NEW h \in Int
    PROVE  /\ Run(l, h) \in Seq(Nat)
           /\ h < l => Run(l, h) = <<>>
           /\ DOMAIN Run(l, h) = 1..(h - l + 1)
           /\ l <= h => Len(Run(l, h)) = h - l + 1
           /\ {Run(l, h)[k] : k \in DOMAIN Run(l, h)} = l..h
           /\ \A j, k \in DOMAIN Run(l, h) : j < k => Run(l, h)[j] < Run(l, h)[k]
<1>1. DOMAIN Run(l, h) = 1..(h - l + 1) /\ \A k \in 1..(h - l + 1) : Run(l, h)[k] = l + k - 1
  BY DEF Run
<1>2. CASE h < l
  <2>1. 1..(h - l + 1) = {} /\ l..h = {}
    BY <1>2
  <2>2. Run(l, h) = <<>>
    BY <1>1, <2>1 DEF Run
  <2> QED
    BY <1>1, <1>2, <2>1, <2>2
<1>3. CASE l <= h
  <2>1. PICK n \in Nat : n = h - l + 1
    BY <1>3
  <2>2. Run(l, h) \in [1..n -> Nat]
    BY <1>1, <2>1 DEF Run
  <2>3. Run(l, h) \in Seq(Nat) /\ Len(Run(l, h)) = n
    BY <2>2
  <2>4. ASSUME NEW x \in l..h PROVE \E k \in 1..n : Run(l, h)[k] = x
    <3>1. x - l + 1 \in 1..n /\ l + (x - l + 1) - 1 = x
      BY <2>1
    <3> QED
      BY <1>1, <2>1, <3>1
  <2>5. \A k \in 1..n : Run(l, h)[k] \in l..h
    BY <1>1, <2>1
  <2>6. {Run(l, h)[k] : k \in DOMAIN Run(l, h)} = l..h
    BY <1>1, <2>1, <2>4, <2>5
  <2> QED
    BY <1>1, <1>3, <2>1, <2>3, <2>6
<1> QED
  BY <1>2, <1>3

(* A run is its first number and the run of the rest.                      *)
LEMMA RunHead ==
    ASSUME NEW l \in Nat, NEW h \in Int, l <= h
    PROVE  <<l>> \o Run(l + 1, h) = Run(l, h)
<1>1. PICK n \in Nat : n = h - l
  OBVIOUS
<1>2. /\ Run(l, h) \in Seq(Nat) /\ Len(Run(l, h)) = n + 1
      /\ \A k \in 1..(n + 1) : Run(l, h)[k] = l + k - 1
  BY <1>1, RunTypes DEF Run
<1>3. /\ Run(l + 1, h) \in Seq(Nat) /\ Len(Run(l + 1, h)) = n
      /\ \A k \in 1..n : Run(l + 1, h)[k] = l + k
  <2>1. Run(l + 1, h) = [k \in 1..n |-> l + k]
    BY <1>1 DEF Run
  <2>2. [k \in 1..n |-> l + k] \in [1..n -> Nat]
    OBVIOUS
  <2> QED
    BY <2>1, <2>2
<1> DEFINE r == Run(l + 1, h)
           s == <<l>> \o r
<1>4. r \in Seq(Nat) /\ Len(r) = n /\ <<l>> \in Seq(Nat) /\ Len(<<l>>) = 1 /\ <<l>>[1] = l
  BY <1>3
<1>5. /\ s \in Seq(Nat) /\ Len(s) = 1 + n
      /\ \A k \in 1..(1 + n) : s[k] = IF k <= 1 THEN <<l>>[k] ELSE r[k - 1]
  <2> HIDE DEF r
  <2> QED
    BY <1>4
<1>6. ASSUME NEW k \in 1..(n + 1) PROVE s[k] = l + k - 1
  <2>1. CASE k = 1
    BY <1>4, <1>5, <2>1
  <2>2. CASE k # 1
    <3>1. k - 1 \in 1..n /\ ~ (k <= 1)
      BY <2>2
    <3>2. r[k - 1] = l + (k - 1)
      BY <1>3, <3>1
    <3> HIDE DEF s, r
    <3> QED
      BY <1>5, <3>1, <3>2
  <2> QED
    BY <2>1, <2>2
<1> HIDE DEF s
<1>7. Len(s) = Len(Run(l, h)) /\ \A k \in 1..Len(s) : s[k] = Run(l, h)[k]
  BY <1>2, <1>5, <1>6
<1>8. s = Run(l, h)
  BY <1>2, <1>5, <1>7, SeqEqual
<1> QED
  BY <1>8 DEF s

-----------------------------------------------------------------------------
(* The loop of ExpandCIDR.                                                 *)

(* The first and the last address of the block that are probed.            *)
First(p) == IF SkipEdges(p) THEN p.addr + 1 ELSE p.addr
Final(p) == IF SkipEdges(p) THEN p.addr + 2^HostBits(p) - 2 ELSE p.addr + 2^HostBits(p) - 1

(* What the loop appends from address a on.                                *)
Rest(p, a) == Run(IF a < First(p) THEN First(p) ELSE a, Final(p))

Walked(p) == p.addr..(2^BitLen(p))

(* Rest satisfies the equation of the loop.                                *)
LEMMA LoopStep ==
    ASSUME NEW p \in Prefixes, NEW a \in Walked(p)
    PROVE  /\ ~ Contains(p, a) => Rest(p, a) = <<>>
           /\ Contains(p, a) =>
                 /\ a + 1 \in Walked(p)
                 /\ Rest(p, a) = (IF Probeable(p, a) THEN <<a>> ELSE <<>>) \o Rest(p, a + 1)
<1>1. PICK B \in Nat \ {0}, T \in Nat, x \in Nat :
         /\ B = 2^HostBits(p) /\ T = 2^BitLen(p) /\ x = p.addr /\ x + B <= T
         /\ \A b \in Nat : Contains(p, b) <=> b < T /\ b \in x..(x + B - 1)
  BY PrefixFacts
<1>2. a \in x..T /\ a \in Nat
  BY <1>1 DEF Walked
<1>3. PICK l \in Nat, h \in Int :
         /\ l = First(p) /\ h = Final(p)
         /\ l = (IF SkipEdges(p) THEN x + 1 ELSE x)
         /\ h = (IF SkipEdges(p) THEN x + B - 2 ELSE x + B - 1)
  BY <1>1 DEF First, Final
<1>4. CASE ~ Contains(p, a)
  <2>1. a > h /\ (a < l => h < l)
    BY <1>1, <1>2, <1>3, <1>4
  <2>2. Rest(p, a) = Run(IF a < l THEN l ELSE a, h)
    BY <1>3 DEF Rest
  <2> QED
    BY <1>2, <1>4, <2>1, <2>2, RunTypes
<1>5. CASE Contains(p, a)
  <2>1. a \in x..(x + B - 1) /\ a + 1 <= T /\ a + 1 \in Nat
    BY <1>1, <1>2, <1>5
  <2>2. a + 1 \in Walked(p)
    BY <1>1, <2>1 DEF Walked
  <2>3. Contains(p, a + 1) <=> a + 1 <= x + B - 1
    BY <1>1, <2>1
  <2>4. Probeable(p, a) <=> l <= a /\ a <= h
    <3>1. CASE SkipEdges(p)
      BY <1>1, <1>3, <2>1, <2>3, <3>1 DEF Probeable, IsNetwork, IsBroadcast
    <3>2. CASE ~ SkipEdges(p)
      BY <1>1, <1>3, <2>1, <3>2 DEF Probeable
    <3> QED
      BY <3>1, <3>2
  <2>5. /\ Rest(p, a) = Run(IF a < l THEN l ELSE a, h)
        /\ Rest(p, a + 1) = Run(IF a + 1 < l THEN l ELSE a + 1, h)
    BY <1>3 DEF Rest
  <2>6. CASE Probeable(p, a)
    <3>1. ~ (a < l) /\ ~ (a + 1 < l) /\ a <= h
      BY <1>2, <2>4, <2>6
    <3>2. Rest(p, a) = Run(a, h) /\ Rest(p, a + 1) = Run(a + 1, h)
      BY <2>5, <3>1
    <3> QED
      BY <1>2, <1>5, <2>2, <2>6, <3>1, <3>2, RunHead
  <2>7. CASE ~ Probeable(p, a)
    <3>1. Rest(p, a) = Rest(p, a + 1)
      <4>1. CASE a < l
        <5>1. a + 1 = l
          BY <1>2, <1>3, <4>1
        <5> QED
          BY <1>2, <2>5, <4>1, <5>1
      <4>2. CASE a > h /\ ~ (a < l)
        <5>1. Run(a, h) = <<>> /\ Run(a + 1, h) = <<>>
          <6>1. \A n \in Nat : h < n => Run(n, h) = <<>>
            BY RunTypes
          <6>2. h < a /\ h < a + 1
            BY <1>2, <4>2
          <6> QED
            BY <1>2, <2>1, <6>1, <6>2
        <5>2. ~ (a + 1 < l)
          BY <1>2, <4>2
        <5> QED
          BY <2>5, <4>2, <5>1, <5>2
      <4> QED
        BY <1>2, <2>4, <2>7, <4>1, <4>2
    <3>2. Rest(p, a + 1) \in Seq(Nat)
      <4>1. \A n \in Nat : Run(n, h) \in Seq(Nat)
        BY RunTypes
      <4> QED
        BY <2>1, <2>5, <4>1
    <3>3. <<>> \o Rest(p, a + 1) = Rest(p, a + 1)
      BY <3>2, ConcatEmptySeq
    <3> QED
      BY <1>5, <2>2, <2>7, <3>1, <3>3
  <2> QED
    BY <2>6, <2>7
<1> QED
  BY <1>4, <1>5

(* The equation of the loop.                                               *)
IsWalk(p, w) ==
    w = [a \in Walked(p) |->
            IF ~ Contains(p, a) THEN <<>>
            ELSE (IF Probeable(p, a) THEN <<a>> ELSE <<>>) \o w[a + 1]]

(* It has a solution, and no other: the loop ends with the block.          *)
LEMMA WalkExists == ASSUME NEW p \in Prefixes PROVE \E w : IsWalk(p, w)
<1> DEFINE w == [a \in Walked(p) |-> Rest(p, a)]
<1>1. ASSUME NEW a \in Walked(p)
      PROVE  w[a] = IF ~ Contains(p, a) THEN <<>>
                    ELSE (IF Probeable(p, a) THEN <<a>> ELSE <<>>) \o w[a + 1]
  <2>1. CASE ~ Contains(p, a)
    BY <2>1, LoopStep
  <2>2. CASE Contains(p, a)
    <3>1. a + 1 \in Walked(p)
      BY <2>2, LoopStep
    <3>2. w[a + 1] = Rest(p, a + 1)
      BY <3>1
    <3>3. Rest(p, a) = (IF Probeable(p, a) THEN <<a>> ELSE <<>>) \o Rest(p, a + 1)
      BY <2>2, LoopStep
    <3> QED
      BY <2>2, <3>2, <3>3
  <2> QED
    BY <2>1, <2>2
<1>2. w = [a \in Walked(p) |-> w[a]]
  OBVIOUS
<1> HIDE DEF w
<1>3. IsWalk(p, w)
  BY <1>1, <1>2 DEF IsWalk
<1> QED
  BY <1>3

LEMMA OneCloser ==
    ASSUME NEW T \in Nat, NEW x \in Nat, NEW a \in Nat, NEW d \in Nat,
           x <= a, a + 1 <= T, a = T - d
    PROVE  d - 1 \in 0..(T - x) /\ d - 1 < d /\ T - (d - 1) = a + 1
OBVIOUS

LEMMA WalkIsRest ==
    ASSUME NEW p \in Prefixes, NEW w, IsWalk(p, w)
    PROVE  w[p.addr] = Rest(p, p.addr)
<1>1. PICK B \in Nat \ {0}, T \in Nat, x \in Nat :
         /\ B = 2^HostBits(p) /\ T = 2^BitLen(p) /\ x = p.addr /\ x + B <= T
  BY PrefixFacts
<1>2. Walked(p) = x..T
  BY <1>1 DEF Walked
<1>3. \A a \in x..T : w[a] = IF ~ Contains(p, a) THEN <<>>
                             ELSE (IF Probeable(p, a) THEN <<a>> ELSE <<>>) \o w[a + 1]
  BY <1>2, Zenon DEF IsWalk
<1> DEFINE Wrong == {d \in 0..(T - x) : w[T - d] # Rest(p, T - d)}
<1>4. Wrong = {}
  <2> SUFFICES ASSUME Wrong # {} PROVE FALSE
    OBVIOUS
  <2>1. PICK d \in Wrong : \A k \in Wrong : d <= k
    <3>1. Wrong \subseteq Nat
      OBVIOUS
    <3> HIDE DEF Wrong
    <3> QED
      BY <3>1, LeastNatural
  <2>2. PICK a \in x..T : a = T - d
    BY <1>1
  <2>3. w[a] # Rest(p, a)
    BY <2>2
  <2>4. Contains(p, a)
    BY <1>2, <1>3, <2>3, LoopStep
  <2>5. a + 1 \in x..T /\ Rest(p, a) = (IF Probeable(p, a) THEN <<a>> ELSE <<>>) \o Rest(p, a + 1)
    BY <1>2, <2>4, LoopStep
  <2>6. w[a + 1] = Rest(p, a + 1)
    <3>1. d - 1 \in 0..(T - x) /\ d - 1 < d /\ T - (d - 1) = a + 1
      <4>1. d \in 0..(T - x)
        OBVIOUS
      <4> HIDE DEF Wrong
      <4>2. a \in Nat /\ a + 1 <= T /\ x <= a
        BY <1>1, <2>2, <2>5
      <4> QED
        BY <1>1, <2>2, <4>1, <4>2, OneCloser
    <3>2. d - 1 \notin Wrong
      BY <2>1, <3>1
    <3> QED
      BY <3>1, <3>2
  <2> QED
    BY <1>3, <2>3, <2>4, <2>5, <2>6
<1>5. T - x \in 0..(T - x) /\ T - (T - x) = x
  BY <1>1
<1> QED
  BY <1>1, <1>4, <1>5

LEMMA Expanded ==
    ASSUME NEW p \in Prefixes, NEW n
    PROVE  ExpandCIDR(p, n) = IF HostCount(p) > n THEN {} ELSE {Rest(p, p.addr)}
<1> DEFINE w == CHOOSE w : IsWalk(p, w)
<1>1. ExpandCIDR(p, n) = IF HostCount(p) > n THEN {} ELSE {w[p.addr]}
  BY DEF ExpandCIDR, IsWalk, Walked
<1>2. IsWalk(p, w)
  BY WalkExists
<1> HIDE DEF w
<1> QED
  BY <1>1, <1>2, WalkIsRest

(* What the loop appends are the hosts of the prefix.                      *)
LEMMA RestIsHosts ==
    ASSUME NEW p \in Prefixes
    PROVE  LET out == Rest(p, p.addr)
           IN  /\ {out[k] : k \in DOMAIN out} = Hosts(p)
               /\ \A j, k \in DOMAIN out : j < k => out[j] < out[k]
<1>1. PICK B \in Nat \ {0}, T \in Nat, x \in Nat :
         B = 2^HostBits(p) /\ T = 2^BitLen(p) /\ x = p.addr
  BY PrefixFacts
<1>2. PICK l \in Nat, h \in Int :
         /\ l = First(p) /\ h = Final(p)
         /\ l = (IF SkipEdges(p) THEN x + 1 ELSE x)
         /\ h = (IF SkipEdges(p) THEN x + B - 2 ELSE x + B - 1)
  BY <1>1 DEF First, Final
<1>3. Rest(p, p.addr) = Run(l, h)
  BY <1>1, <1>2 DEF Rest
<1>4. SkipEdges(p) <=> p.is4 /\ HostBits(p) > 1
  <2>1. p.bits \in Int /\ BitLen(p) \in Int
    <3>1. p.bits \in 0..(Width4 + Width6)
      BY DEF Prefixes
    <3> QED
      BY <3>1, RangeAssumptions DEF BitLen
  <2>2. p.bits < BitLen(p) - 1 <=> HostBits(p) > 1
    BY <2>1 DEF HostBits
  <2> QED
    BY <2>2 DEF SkipEdges
<1>5. Hosts(p) = l..h
  <2>1. CASE SkipEdges(p)
    <3>1. Hosts(p) = (x..(x + B - 1)) \ {x, x + B - 1}
      BY <1>1, <1>4, <2>1 DEF Hosts, Block
    <3> QED
      BY <1>1, <1>2, <2>1, <3>1
  <2>2. CASE ~ SkipEdges(p)
    <3>1. Hosts(p) = x..(x + B - 1)
      BY <1>1, <1>4, <2>2 DEF Hosts, Block
    <3> QED
      BY <1>1, <1>2, <2>2, <3>1
  <2> QED
    BY <2>1, <2>2
<1>6. /\ {Run(l, h)[k] : k \in DOMAIN Run(l, h)} = l..h
      /\ \A j, k \in DOMAIN Run(l, h) : j < k => Run(l, h)[j] < Run(l, h)[k]
  BY RunTypes
<1> QED
  BY <1>3, <1>5, <1>6, Zenon

(* The count of a wide prefix does not wrap: a subnet is refused if and    *)
(* only if it is larger than max_hosts.                                    *)
LEMMA CountDecides ==
    ASSUME NEW p \in Prefixes, NEW n \in Limits
    PROVE  HostCount(p) > n <=> 2^HostBits(p) > n
<1>1. HostBits(p) \in Nat /\ 2^HostBits(p) \in Nat
  BY PrefixFacts
<1>2. Word \in Nat /\ n \in Nat /\ n < 2^Word - 1 /\ 2^Word \in Nat
  <2>1. Word \in Nat /\ n \in Nat /\ n < 2^Word - 1
    BY RangeAssumptions
  <2> QED
    BY <2>1, PowerOfTwo
<1>3. CASE HostBits(p) >= Word
  <2>1. 2^Word <= 2^HostBits(p)
    BY <1>1, <1>2, <1>3, PowerGrows
  <2>2. HostCount(p) = 2^Word - 1
    BY <1>3 DEF HostCount
  <2> QED
    BY <1>1, <1>2, <2>1, <2>2
<1>4. CASE ~ (HostBits(p) >= Word)
  BY <1>4 DEF HostCount
<1> QED
  BY <1>3, <1>4

(* For every width of address and word, every prefix and every max_hosts:  *)
(* ExpandCIDR refuses a subnet if and only if it has more addresses than   *)
(* max_hosts, and else returns every host address once, in order.          *)
THEOREM RangesAreExact == IsExact
<1> SUFFICES ASSUME NEW p \in Prefixes, NEW n \in Limits
             PROVE  /\ ExpandCIDR(p, n) = {} <=> 2^HostBits(p) > n
                    /\ \A out \in ExpandCIDR(p, n) :
                          /\ {out[k] : k \in DOMAIN out} = Hosts(p)
                          /\ \A j, k \in DOMAIN out : j < k => out[j] < out[k]
  BY DEF IsExact
<1>1. ExpandCIDR(p, n) = IF HostCount(p) > n THEN {} ELSE {Rest(p, p.addr)}
  BY Expanded
<1>2. HostCount(p) > n <=> 2^HostBits(p) > n
  BY CountDecides
<1>3. \A out \in ExpandCIDR(p, n) : out = Rest(p, p.addr)
  BY <1>1
<1> QED
  BY <1>1, <1>2, <1>3, RestIsHosts
=============================================================================
