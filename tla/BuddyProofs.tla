----------------------------- MODULE BuddyProofs -----------------------------
(***************************************************************************)
(* Proofs about Buddy for every pool size, unit size, set of sizes asked   *)
(* for and data that callers write.                                        *)
(***************************************************************************)
EXTENDS Buddy, FiniteSetTheorems, WellFoundedInduction, TLAPS

-----------------------------------------------------------------------------
(* Powers of two                                                           *)

\* A set of natural numbers has a least element.
LEMMA LeastNat ==
    ASSUME NEW T, T \subseteq Nat, T # {}
    PROVE  \E x \in T : \A y \in T : x <= y
<1> DEFINE R == OpToRel(<, Nat)
<1>1. IsWellFoundedOn(R, Nat)
  BY NatLessThanWellFounded, Zenon
<1>2. R = {ss \in Nat \X Nat : ss[1] < ss[2]}
  BY DEF OpToRel
<1> HIDE DEF R
<1>3. PICK x \in T : \A y \in T : ~(<<y, x>> \in R)
  BY <1>1, WFMin
<1>4. ASSUME NEW y \in T PROVE x <= y
  <2>1. ~(<<y, x>> \in R)
    BY <1>3
  <2>2. x \in Nat /\ y \in Nat
    OBVIOUS
  <2>3. ~(y < x)
    BY <2>1, <2>2, <1>2
  <2> QED
    BY <2>2, <2>3
<1> QED
  BY <1>4

\* 2^e is the number of subsets of a set of e elements.
LEMMA PowSubsets ==
    ASSUME NEW e \in Nat
    PROVE  /\ IsFiniteSet(SUBSET (1 .. e))
           /\ Cardinality(SUBSET (1 .. e)) = 2 ^ e
<1>1. IsFiniteSet(1 .. e) /\ Cardinality(1 .. e) = e
  BY FS_Interval
<1> QED
  BY <1>1, FS_SUBSET

LEMMA PowPositive ==
    ASSUME NEW e \in Nat
    PROVE  2 ^ e \in Nat \ {0}
<1>1. Cardinality(SUBSET (1 .. e)) \in Nat
  BY PowSubsets, FS_CardinalityType
<1>2. SUBSET (1 .. e) # {}
  OBVIOUS
<1>3. Cardinality(SUBSET (1 .. e)) # 0
  BY <1>2, PowSubsets, FS_EmptySet
<1> QED
  BY <1>1, <1>3, PowSubsets

LEMMA PowDoubles ==
    ASSUME NEW e \in Nat
    PROVE  2 ^ (e + 1) = 2 * 2 ^ e
<1> DEFINE S == SUBSET (1 .. e)
           D == {T \cup {e + 1} : T \in S}
           f == [T \in S |-> T \cup {e + 1}]
<1>1. IsFiniteSet(S) /\ Cardinality(S) = 2 ^ e
  BY PowSubsets
<1>2. e + 1 \notin 1 .. e
  OBVIOUS
<1>3. f \in Bijection(S, D)
  <2>1. f \in [S -> D]
    OBVIOUS
  <2>2. ASSUME NEW T \in S, NEW U \in S, f[T] = f[U] PROVE T = U
    <3>1. T \cup {e + 1} = U \cup {e + 1}
      BY <2>2
    <3>2. e + 1 \notin T /\ e + 1 \notin U
      BY <1>2
    <3> QED
      BY <3>1, <3>2
  <2>3. \A d \in D : \E T \in S : f[T] = d
    OBVIOUS
  <2> HIDE DEF S, D, f
  <2>4. f \in Injection(S, D)
    BY <2>1, <2>2 DEF Injection, IsInjective
  <2>5. f \in Surjection(S, D)
    BY <2>1, <2>3 DEF Surjection
  <2> QED
    BY <2>4, <2>5 DEF Bijection
<1>4. IsFiniteSet(D) /\ Cardinality(D) = 2 ^ e
  <2>1. ExistsBijection(S, D)
    BY <1>3 DEF ExistsBijection
  <2> QED
    BY <2>1, <1>1, FS_Bijection
<1>5. S \cap D = {}
  BY <1>2
<1>6. SUBSET (1 .. e + 1) = S \cup D
  <2>1. ASSUME NEW T \in SUBSET (1 .. e + 1) PROVE T \in S \cup D
    <3>1. CASE e + 1 \in T
      <4>1. T \ {e + 1} \in S
        OBVIOUS
      <4>2. T = (T \ {e + 1}) \cup {e + 1}
        BY <3>1
      <4> QED
        BY <4>1, <4>2
    <3>2. CASE e + 1 \notin T
      BY <3>2
    <3> QED
      BY <3>1, <3>2
  <2>2. ASSUME NEW T \in S PROVE T \cup {e + 1} \in SUBSET (1 .. e + 1)
    OBVIOUS
  <2>3. S \subseteq SUBSET (1 .. e + 1)
    OBVIOUS
  <2>4. D \subseteq SUBSET (1 .. e + 1)
    BY <2>2
  <2>5. SUBSET (1 .. e + 1) \subseteq S \cup D
    BY <2>1
  <2> HIDE DEF S, D
  <2> QED
    BY <2>3, <2>4, <2>5
<1>7. Cardinality(SUBSET (1 .. e + 1)) = 2 ^ (e + 1)
  <2>1. e + 1 \in Nat
    OBVIOUS
  <2> QED
    BY <2>1, PowSubsets, Zenon
<1> HIDE DEF S, D, f
<1>8. Cardinality(S \cup D) = 2 ^ e + 2 ^ e - 0
  <2>1. Cardinality(S \cup D) = Cardinality(S) + Cardinality(D) - Cardinality(S \cap D)
    BY <1>1, <1>4, FS_Union
  <2>2. Cardinality(S \cap D) = 0
    BY <1>5, FS_EmptySet
  <2> QED
    BY <2>1, <2>2, <1>1, <1>4
<1>9. 2 ^ (e + 1) = 2 ^ e + 2 ^ e - 0
  BY <1>6, <1>7, <1>8
<1> QED
  BY <1>9, PowPositive

\* A larger block is a whole number of smaller ones.
LEMMA PowMultiple ==
    ASSUME NEW e \in Nat, NEW g \in Nat, e <= g
    PROVE  \E k \in Nat \ {0} : 2 ^ g = k * 2 ^ e
<1> DEFINE Bad == {h \in Nat : e <= h /\ ~\E k \in Nat \ {0} : 2 ^ h = k * 2 ^ e}
<1> SUFFICES ASSUME Bad # {} PROVE FALSE
  OBVIOUS
<1>1. PICK h \in Bad : \A y \in Bad : h <= y
  BY LeastNat
<1>2. h # e
  <2>1. 2 ^ e = 1 * 2 ^ e
    BY PowPositive
  <2> QED
    BY <2>1
<1>3. h - 1 \in Nat /\ e <= h - 1 /\ h - 1 \notin Bad
  BY <1>1, <1>2
<1>4. PICK k \in Nat \ {0} : 2 ^ (h - 1) = k * 2 ^ e
  BY <1>3
<1>5. 2 ^ h = 2 * 2 ^ (h - 1)
  <2>1. 2 ^ (h - 1 + 1) = 2 * 2 ^ (h - 1)
    BY <1>3, PowDoubles
  <2>2. h - 1 + 1 = h
    BY <1>1
  <2> QED
    BY <2>1, <2>2
<1>6. 2 ^ h = (2 * k) * 2 ^ e
  BY <1>4, <1>5, PowPositive
<1>7. 2 * k \in Nat \ {0}
  OBVIOUS
<1> QED
  BY <1>6, <1>7

-----------------------------------------------------------------------------
(* Blocks                                                                  *)

Aligned(a, e) == \E i \in Nat : a = i * 2 ^ e

\* Products with a positive factor keep the order.
LEMMA MulOrder ==
    ASSUME NEW p \in Nat \ {0}, NEW i \in Nat, NEW j \in Nat
    PROVE  /\ i * p \in Nat
           /\ i <= j => i * p <= j * p
           /\ i * p < j * p => i < j
<1>1. i * p \in Nat /\ j * p \in Nat
  OBVIOUS
<1>2. ASSUME NEW x \in Nat, NEW y \in Nat, x <= y PROVE x * p <= y * p
  <2>1. PICK d \in Nat : y = x + d
    BY <1>2
  <2>2. y * p = x * p + d * p /\ d * p \in Nat
    BY <2>1
  <2> QED
    BY <2>2
<1>3. i <= j => i * p <= j * p
  BY <1>2
<1>4. ~(i < j) => j * p <= i * p
  BY <1>2
<1> QED
  BY <1>1, <1>3, <1>4

\* Of two runs of p-aligned numbers that meet, one of length p is part of the
\* other.
LEMMA RunsNest ==
    ASSUME NEW p \in Nat \ {0}, NEW i \in Nat, NEW m \in Nat, NEW n \in Nat,
           NEW u \in Nat, i * p <= u, u < (i + 1) * p, m * p <= u, u < n * p
    PROVE  m * p <= i * p /\ (i + 1) * p <= n * p
<1>1. i * p \in Nat /\ (i + 1) * p \in Nat /\ m * p \in Nat /\ n * p \in Nat
  BY MulOrder
<1>2. m < i + 1 /\ i < n
  BY <1>1, MulOrder
<1>3. m <= i /\ i + 1 <= n
  BY <1>2
<1> QED
  BY <1>3, MulOrder

LEMMA BlockIs ==
    ASSUME NEW a \in Nat, NEW e \in Nat
    PROVE  /\ Block(a, e) = {u \in Nat : a <= u /\ u < a + 2 ^ e}
           /\ a \in Block(a, e)
           /\ Last(a, e) \in Block(a, e)
           /\ Last(a, e) = a + 2 ^ e - 1
BY PowPositive DEF Block, Last

\* Two blocks that meet are nested.
LEMMA BlocksNest ==
    ASSUME NEW e \in Nat, NEW g \in Nat, e <= g, NEW a \in Nat, NEW b \in Nat,
           Aligned(a, e), Aligned(b, g), Block(a, e) \cap Block(b, g) # {}
    PROVE  /\ Block(a, e) \subseteq Block(b, g)
           /\ e = g => a = b
<1>1. PICK i \in Nat : a = i * 2 ^ e
  BY DEF Aligned
<1>2. PICK j \in Nat : b = j * 2 ^ g
  BY DEF Aligned
<1>3. PICK k \in Nat \ {0} : 2 ^ g = k * 2 ^ e
  BY PowMultiple
<1>4. PICK p \in Nat \ {0} : p = 2 ^ e
  BY PowPositive
<1>11. Block(a, e) = {u \in Nat : a <= u /\ u < a + 2 ^ e}
  BY BlockIs
<1>12. Block(b, g) = {u \in Nat : b <= u /\ u < b + 2 ^ g}
  BY BlockIs
<1>5. PICK u \in Nat : a <= u /\ u < a + p /\ b <= u /\ u < b + 2 ^ g
  BY <1>4, <1>11, <1>12
<1>6. /\ j * k \in Nat /\ (j + 1) * k \in Nat
      /\ b = (j * k) * p /\ b + 2 ^ g = ((j + 1) * k) * p
  BY <1>2, <1>3, <1>4
<1>7. a = i * p /\ a + p = (i + 1) * p
  BY <1>1, <1>4
<1>8. b <= a /\ a + p <= b + 2 ^ g
  <2>1. PICK m \in Nat, n \in Nat : m = j * k /\ n = (j + 1) * k
    BY <1>6
  <2>2. b = m * p /\ b + 2 ^ g = n * p
    BY <2>1, <1>6
  <2>3. i * p <= u /\ u < (i + 1) * p /\ m * p <= u /\ u < n * p
    BY <2>2, <1>5, <1>7
  <2>4. m * p <= i * p /\ (i + 1) * p <= n * p
    BY <2>3, RunsNest
  <2> QED
    BY <2>2, <2>4, <1>7
<1>9. Block(a, e) \subseteq Block(b, g)
  <2>1. 2 ^ g \in Nat
    BY PowPositive
  <2> QED
    BY <2>1, <1>4, <1>8, <1>11, <1>12
<1>10. e = g => a = b
  BY <1>8, <1>4
<1> QED
  BY <1>9, <1>10

\* The two halves of a block.
LEMMA Halves ==
    ASSUME NEW e \in Nat, NEW a \in Nat, Aligned(a, e + 1)
    PROVE  /\ Aligned(a, e) /\ Aligned(a + 2 ^ e, e)
           /\ a + 2 ^ e \in Nat /\ a + 2 ^ e # a
           /\ BuddyOf(a, e) = a + 2 ^ e /\ BuddyOf(a + 2 ^ e, e) = a
           /\ Block(a, e + 1) = Block(a, e) \cup Block(a + 2 ^ e, e)
           /\ Block(a, e) \cap Block(a + 2 ^ e, e) = {}
           /\ Last(a, e + 1) = Last(a + 2 ^ e, e)
<1>1. PICK p \in Nat \ {0} : p = 2 ^ e
  BY PowPositive
<1>2. 2 ^ (e + 1) = 2 * p
  BY <1>1, PowDoubles
<1>3. PICK i \in Nat : a = i * (2 * p)
  BY <1>2 DEF Aligned
<1>4. a = (2 * i) * p /\ a + p = (2 * i + 1) * p
  BY <1>3
<1>5. Aligned(a, e) /\ Aligned(a + p, e)
  <2>1. PICK n \in Nat : n = 2 * i
    OBVIOUS
  <2>2. a = n * p /\ a + p = (n + 1) * p /\ n + 1 \in Nat
    BY <2>1, <1>4
  <2> QED
    BY <2>2, <1>1 DEF Aligned
<1>6. a \div p = 2 * i /\ (a + p) \div p = 2 * i + 1
  <2>1. ASSUME NEW n \in Nat PROVE (n * p) \div p = n
    <3>1. PICK q \in Nat : q = (n * p) \div p
      OBVIOUS
    <3>2. n * p \in Nat /\ q * p <= n * p /\ n * p < (q + 1) * p
      BY <3>1
    <3> QED
      BY <3>1, <3>2, MulOrder
  <2> QED
    BY <2>1, <1>4
<1>7. BuddyOf(a, e) = a + p /\ BuddyOf(a + p, e) = a
  BY <1>1, <1>6 DEF BuddyOf
<1>8. Block(a, e + 1) = Block(a, e) \cup Block(a + p, e)
  BY <1>1, <1>2 DEF Block
<1>9. Block(a, e) \cap Block(a + p, e) = {}
  BY <1>1 DEF Block
<1>10. Last(a, e + 1) = Last(a + p, e)
  BY <1>1, <1>2 DEF Last
<1> QED
  BY <1>1, <1>5, <1>7, <1>8, <1>9, <1>10

\* A block is one of the two halves of a block, and its buddy the other.
LEMMA Buddies ==
    ASSUME NEW e \in Nat, NEW a \in Nat, Aligned(a, e)
    PROVE  LET b == BuddyOf(a, e)
               m == Min2(a, b)
           IN  /\ b \in Nat /\ m \in Nat /\ Aligned(m, e + 1)
               /\ \/ a = m /\ b = m + 2 ^ e
                  \/ b = m /\ a = m + 2 ^ e
<1>1. PICK p \in Nat \ {0} : p = 2 ^ e
  BY PowPositive
<1>2. 2 ^ (e + 1) = 2 * p
  BY <1>1, PowDoubles
<1>3. PICK i \in Nat : a = i * p
  BY <1>1 DEF Aligned
<1>4. a \div p = i
  <2>1. PICK q \in Nat : q = a \div p
    OBVIOUS
  <2>2. q * p <= a /\ a < (q + 1) * p
    BY <2>1
  <2> QED
    BY <2>1, <2>2, <1>3, MulOrder
<1>5. CASE i % 2 = 0
  <2>1. PICK j \in Nat : i = 2 * j
    BY <1>5
  <2>2. BuddyOf(a, e) = a + p
    BY <1>1, <1>4, <1>5 DEF BuddyOf
  <2>3. a = j * (2 * p)
    BY <2>1, <1>3
  <2>4. Aligned(a, e + 1)
    BY <2>3, <1>2 DEF Aligned
  <2> QED
    BY <2>2, <2>4, <1>1 DEF Min2
<1>6. CASE i % 2 # 0
  <2>1. PICK j \in Nat : i = 2 * j + 1
    BY <1>6
  <2>2. BuddyOf(a, e) = a - p
    BY <1>1, <1>4, <1>6 DEF BuddyOf
  <2>3. a - p = j * (2 * p) /\ a - p \in Nat
    BY <2>1, <1>3
  <2>4. Aligned(a - p, e + 1)
    BY <2>3, <1>2 DEF Aligned
  <2> QED
    BY <2>2, <2>3, <2>4, <1>1 DEF Min2
<1> QED
  BY <1>5, <1>6

\* The buddy of the buddy is the block.
LEMMA BuddyTwice ==
    ASSUME NEW e \in Nat, NEW a \in Nat, Aligned(a, e)
    PROVE  LET b == BuddyOf(a, e)
           IN  b \in Nat /\ b # a /\ Aligned(b, e) /\ BuddyOf(b, e) = a
<1>1. PICK m \in Nat : m = Min2(a, BuddyOf(a, e))
  BY Buddies
<1>2. Aligned(m, e + 1)
  BY <1>1, Buddies
<1>3. \/ a = m /\ BuddyOf(a, e) = m + 2 ^ e
      \/ BuddyOf(a, e) = m /\ a = m + 2 ^ e
  BY <1>1, Buddies
<1>4. /\ Aligned(m, e) /\ Aligned(m + 2 ^ e, e)
      /\ m + 2 ^ e \in Nat /\ m + 2 ^ e # m
      /\ BuddyOf(m, e) = m + 2 ^ e /\ BuddyOf(m + 2 ^ e, e) = m
  BY <1>2, Halves
<1> QED
  BY <1>3, <1>4

\* A larger block that meets one of two buddies contains the other.
LEMMA BuddyWithin ==
    ASSUME NEW e \in Nat, NEW g \in Nat, e < g, NEW a \in Nat, NEW b \in Nat,
           Aligned(a, e), Aligned(b, g), Block(a, e) \cap Block(b, g) # {}
    PROVE  LET m == Min2(a, BuddyOf(a, e))
           IN  /\ Block(m, e + 1) \subseteq Block(b, g)
               /\ Block(m, e + 1) = Block(a, e) \cup Block(BuddyOf(a, e), e)
               /\ Block(a, e) \cap Block(BuddyOf(a, e), e) = {}
<1>1. PICK m \in Nat : m = Min2(a, BuddyOf(a, e))
  BY Buddies
<1>2. Aligned(m, e + 1)
  BY <1>1, Buddies
<1>3. \/ a = m /\ BuddyOf(a, e) = m + 2 ^ e
      \/ BuddyOf(a, e) = m /\ a = m + 2 ^ e
  BY <1>1, Buddies
<1>4. /\ Block(m, e + 1) = Block(m, e) \cup Block(m + 2 ^ e, e)
      /\ Block(m, e) \cap Block(m + 2 ^ e, e) = {}
  BY <1>2, Halves
<1>5. /\ Block(m, e + 1) = Block(a, e) \cup Block(BuddyOf(a, e), e)
      /\ Block(a, e) \cap Block(BuddyOf(a, e), e) = {}
  BY <1>3, <1>4
<1>6. Block(m, e + 1) \cap Block(b, g) # {}
  BY <1>5
<1>7. Block(m, e + 1) \subseteq Block(b, g)
  BY <1>2, <1>6, BlocksNest
<1> QED
  BY <1>1, <1>5, <1>7

-----------------------------------------------------------------------------
(* Tilings: the pool as a set of blocks                                    *)

Ext(t) == Block(t[1], t[2])
End(t) == Last(t[1], t[2])

\* Every unit of the pool is in exactly one of the blocks.
Tiling(T) ==
    /\ \A t \in T : /\ t \in Unit \X Entry
                    /\ Aligned(t[1], t[2])
                    /\ Ext(t) \subseteq Unit
    /\ \A s, t \in T : Ext(s) \cap Ext(t) # {} => s = t
    /\ \A u \in Unit : \E t \in T : u \in Ext(t)

LEMMA PoolIsBlock ==
    /\ Unit = Block(0, ENTRIES - 1)
    /\ Aligned(0, ENTRIES - 1)
    /\ ENTRIES - 1 \in Entry
    /\ Unit \subseteq Nat
    /\ Entry \subseteq Nat
<1>1. ENTRIES - 1 \in Nat
  BY BuddyAssumption
<1>2. 2 ^ (ENTRIES - 1) \in Nat
  BY <1>1, PowPositive
<1>3. Aligned(0, ENTRIES - 1)
  <2>1. 0 = 0 * 2 ^ (ENTRIES - 1)
    BY <1>2
  <2> QED
    BY <2>1 DEF Aligned
<1>4. Unit = Block(0, ENTRIES - 1)
  BY <1>2 DEF Unit, Block
<1> QED
  BY <1>1, <1>2, <1>3, <1>4 DEF Unit, Entry

LEMMA EndInside ==
    ASSUME NEW t \in Unit \X Entry
    PROVE  t[1] \in Ext(t) /\ End(t) \in Ext(t)
<1>1. t[1] \in Nat /\ t[2] \in Nat
  BY PoolIsBlock
<1> QED
  BY <1>1, BlockIs DEF Ext, End

LEMMA EndsInPool ==
    ASSUME NEW T, Tiling(T), NEW t \in T
    PROVE  End(t) \in Unit
<1>1. t \in Unit \X Entry /\ Ext(t) \subseteq Unit
  BY DEF Tiling
<1> QED
  BY <1>1, EndInside

\* The postamble of a block is in no other block.
LEMMA EndsApart ==
    ASSUME NEW T, Tiling(T), NEW s \in T, NEW t \in T, s # t
    PROVE  End(s) \notin Ext(t) /\ End(s) # End(t)
<1>1. s \in Unit \X Entry /\ t \in Unit \X Entry
  BY DEF Tiling
<1>2. End(s) \in Ext(s) /\ End(t) \in Ext(t)
  BY <1>1, EndInside
<1>3. Ext(s) \cap Ext(t) = {}
  BY DEF Tiling
<1> QED
  BY <1>2, <1>3

LEMMA SplitTiling ==
    ASSUME NEW T, Tiling(T), NEW a, NEW e \in Entry, e + 1 \in Entry,
           <<a, e + 1>> \in T
    PROVE  /\ Tiling((T \ {<<a, e + 1>>}) \cup {<<a, e>>, <<a + 2 ^ e, e>>})
           /\ <<a, e>> \notin T /\ <<a + 2 ^ e, e>> \notin T
           /\ a \in Unit /\ a + 2 ^ e \in Unit
           /\ <<a, e>> # <<a + 2 ^ e, e>>
<1> DEFINE t0 == <<a, e + 1>>
           t1 == <<a, e>>
           t2 == <<a + 2 ^ e, e>>
           U == (T \ {t0}) \cup {t1, t2}
<1>1. a \in Unit /\ a \in Nat /\ e \in Nat /\ Aligned(a, e + 1) /\ Ext(t0) \subseteq Unit
  BY PoolIsBlock DEF Tiling
<1>2. /\ Aligned(a, e) /\ Aligned(a + 2 ^ e, e)
      /\ a + 2 ^ e \in Nat /\ a + 2 ^ e # a
      /\ Ext(t0) = Ext(t1) \cup Ext(t2)
      /\ Ext(t1) \cap Ext(t2) = {}
  BY <1>1, Halves DEF Ext
<1>3. a + 2 ^ e \in Ext(t2)
  BY <1>1, <1>2, BlockIs DEF Ext
<1>4. t1 \in Unit \X Entry /\ t2 \in Unit \X Entry
  BY <1>1, <1>2, <1>3
<1>5. t1[1] = a /\ t1[2] = e /\ t2[1] = a + 2 ^ e /\ t2[2] = e
  OBVIOUS
<1>6. t1 # t2 /\ t1 # t0 /\ t2 # t0
  BY <1>1, <1>2
<1>7. Ext(t1) # {} /\ Ext(t2) # {}
  BY <1>4, EndInside
<1> HIDE DEF t0, t1, t2
<1>8. t0 \in T
  BY DEF t0
<1>9. \A s \in T : s # t0 => Ext(s) \cap Ext(t1) = {} /\ Ext(s) \cap Ext(t2) = {}
  BY <1>2, <1>8 DEF Tiling
<1>10. t1 \notin T /\ t2 \notin T
  BY <1>2, <1>6, <1>7, <1>8, <1>9
<1>11. \A t \in U : t \in Unit \X Entry /\ Aligned(t[1], t[2]) /\ Ext(t) \subseteq Unit
  BY <1>1, <1>2, <1>4, <1>5 DEF Tiling
<1>12. \A s, t \in U : Ext(s) \cap Ext(t) # {} => s = t
  <2>1. ASSUME NEW s \in U, NEW t \in U, s # t PROVE Ext(s) \cap Ext(t) = {}
    <3>1. CASE s \in T \ {t0} /\ t \in T \ {t0}
      BY <2>1, <3>1 DEF Tiling
    <3>2. CASE s \in T \ {t0} /\ t \in {t1, t2}
      BY <1>9, <3>2
    <3>3. CASE s \in {t1, t2} /\ t \in T \ {t0}
      BY <1>9, <3>3
    <3>4. CASE s \in {t1, t2} /\ t \in {t1, t2}
      BY <2>1, <1>2, <3>4
    <3> QED
      BY <3>1, <3>2, <3>3, <3>4
  <2> QED
    BY <2>1
<1>13. \A u \in Unit : \E t \in U : u \in Ext(t)
  BY <1>2, <1>8 DEF Tiling
<1>14. Tiling(U)
  BY <1>11, <1>12, <1>13 DEF Tiling
<1> QED
  BY <1>1, <1>2, <1>3, <1>6, <1>10, <1>14 DEF t0, t1, t2

LEMMA MergeTiling ==
    ASSUME NEW T, Tiling(T), NEW a, NEW e \in Entry, e < ENTRIES - 1,
           NEW b, b = BuddyOf(a, e), NEW m, m = Min2(a, b),
           <<a, e>> \in T, <<b, e>> \in T
    PROVE  /\ Tiling((T \ {<<a, e>>, <<b, e>>}) \cup {<<m, e + 1>>})
           /\ <<m, e + 1>> \notin T
           /\ m \in Unit /\ e + 1 \in Entry
<1> DEFINE t0 == <<m, e + 1>>
           t1 == <<a, e>>
           t2 == <<b, e>>
           U == (T \ {t1, t2}) \cup {t0}
<1>1. /\ a \in Nat /\ b \in Nat /\ a \in Unit /\ e \in Nat /\ Aligned(a, e)
      /\ e + 1 \in Entry
  BY PoolIsBlock, BuddyAssumption DEF Tiling, Entry
<1>2. /\ m \in Nat /\ Aligned(m, e + 1)
      /\ \/ a = m /\ b = m + 2 ^ e
         \/ b = m /\ a = m + 2 ^ e
  BY <1>1, Buddies
<1>3. m \in Unit
  BY <1>2 DEF Tiling
<1>4. Ext(t0) = Ext(t1) \cup Ext(t2)
  <2>1. Block(m, e + 1) = Block(m, e) \cup Block(m + 2 ^ e, e)
    BY <1>1, <1>2, Halves
  <2> QED
    BY <2>1, <1>2 DEF Ext
<1>5. t0 # t1 /\ t0 # t2
  BY <1>1
<1>6. t0[1] = m /\ t0[2] = e + 1 /\ t0 \in Unit \X Entry
  BY <1>1, <1>3
<1> HIDE DEF t0, t1, t2
<1>7. t1 \in T /\ t2 \in T
  BY DEF t1, t2
<1>8. Ext(t0) \subseteq Unit /\ Ext(t0) # {} /\ Ext(t1) # {}
  <2>1. Ext(t1) \subseteq Unit /\ Ext(t2) \subseteq Unit /\ t1 \in Unit \X Entry
    BY <1>7 DEF Tiling
  <2>2. Ext(t1) # {}
    BY <2>1, EndInside
  <2> QED
    BY <2>1, <2>2, <1>4
<1>9. \A s \in T : s # t1 /\ s # t2 => Ext(s) \cap Ext(t0) = {}
  BY <1>4, <1>7 DEF Tiling
<1>10. t0 \notin T
  BY <1>5, <1>8, <1>9
<1>11. \A t \in U : t \in Unit \X Entry /\ Aligned(t[1], t[2]) /\ Ext(t) \subseteq Unit
  BY <1>2, <1>6, <1>8 DEF Tiling
<1>12. \A s, t \in U : Ext(s) \cap Ext(t) # {} => s = t
  <2>1. ASSUME NEW s \in U, NEW t \in U, s # t PROVE Ext(s) \cap Ext(t) = {}
    <3>1. CASE s \in T \ {t1, t2} /\ t \in T \ {t1, t2}
      BY <2>1, <3>1 DEF Tiling
    <3>2. CASE s \in T \ {t1, t2} /\ t = t0
      BY <1>9, <3>2
    <3>3. CASE s = t0 /\ t \in T \ {t1, t2}
      BY <1>9, <3>3
    <3> QED
      BY <2>1, <3>1, <3>2, <3>3
  <2> QED
    BY <2>1
<1>13. \A u \in Unit : \E t \in U : u \in Ext(t)
  BY <1>4, <1>7 DEF Tiling
<1>14. Tiling(U)
  BY <1>11, <1>12, <1>13 DEF Tiling
<1> QED
  BY <1>1, <1>3, <1>10, <1>14 DEF t0, t1, t2

\* The postamble where a buddy of the block would have its own is that of a
\* block that ends there; if it is as large, it is the buddy.
LEMMA BuddyPostamble ==
    ASSUME NEW T, Tiling(T), NEW a, NEW e \in Entry, e < ENTRIES - 1,
           NEW b, b = BuddyOf(a, e), <<a, e>> \in T
    PROVE  \E t \in T : /\ t # <<a, e>>
                        /\ End(t) = Last(b, e)
                        /\ t[2] = e => t = <<b, e>>
<1>1. a \in Nat /\ a \in Unit /\ e \in Nat /\ Aligned(a, e) /\ Block(a, e) \subseteq Unit
  BY PoolIsBlock DEF Tiling, Ext
<1>2. ENTRIES - 1 \in Nat
  BY BuddyAssumption
<1>3. a \in Block(a, e)
  BY <1>1, BlockIs
<1>4. Block(a, e) \cap Block(0, ENTRIES - 1) # {}
  BY <1>1, <1>3, PoolIsBlock
<1>5. /\ Block(b, e) \subseteq Unit
      /\ Block(a, e) \cap Block(b, e) = {}
  BY <1>1, <1>2, <1>4, BuddyWithin, PoolIsBlock
<1>6. b \in Nat /\ Aligned(b, e)
  BY <1>1, BuddyTwice
<1>7. Last(b, e) \in Block(b, e)
  BY <1>1, <1>6, BlockIs
<1>8. PICK t \in T : Last(b, e) \in Ext(t)
  BY <1>5, <1>7 DEF Tiling
<1>9. t[1] \in Nat /\ t[2] \in Nat /\ Aligned(t[1], t[2]) /\ t = <<t[1], t[2]>>
  BY PoolIsBlock DEF Tiling
<1>10. t # <<a, e>>
  BY <1>5, <1>7, <1>8 DEF Ext
<1>11. t[2] <= e
  <2>1. SUFFICES ASSUME e < t[2] PROVE FALSE
    BY <1>1, <1>9
  <2>2. Block(a, e) \subseteq Block(t[1], t[2])
    <3>1. Block(b, e) \cap Block(t[1], t[2]) # {}
      BY <1>7, <1>8 DEF Ext
    <3>2. BuddyOf(b, e) = a
      BY <1>1, BuddyTwice
    <3> QED
      BY <2>1, <3>1, <3>2, <1>1, <1>6, <1>9, BuddyWithin
  <2>3. Ext(t) \cap Ext(<<a, e>>) # {}
    BY <2>2, <1>3 DEF Ext
  <2> QED
    BY <2>3, <1>10 DEF Tiling
<1>12. Block(t[1], t[2]) \subseteq Block(b, e) /\ (t[2] = e => t[1] = b)
  BY <1>1, <1>6, <1>7, <1>8, <1>9, <1>11, BlocksNest DEF Ext
<1>13. End(t) = Last(b, e)
  <2>1. End(t) \in Block(t[1], t[2]) /\ End(t) = t[1] + 2 ^ t[2] - 1
    BY <1>9, BlockIs DEF End
  <2>2. Last(b, e) \in Block(t[1], t[2])
    BY <1>8 DEF Ext
  <2>3. Last(b, e) = b + 2 ^ e - 1 /\ 2 ^ e \in Nat /\ 2 ^ t[2] \in Nat
    BY <1>1, <1>6, <1>9, BlockIs, PowPositive
  <2>4. End(t) < b + 2 ^ e /\ Last(b, e) < t[1] + 2 ^ t[2]
    BY <2>1, <2>2, <1>1, <1>6, <1>9, <1>12, BlockIs
  <2> QED
    BY <2>1, <2>3, <2>4, <1>6, <1>9
<1> QED
  BY <1>9, <1>10, <1>12, <1>13

-----------------------------------------------------------------------------
(* The inductive invariant                                                 *)

MallocOp == [kind : {"malloc"}, entry : Entry, split_count : Nat, size : Sizes]

FreeOp == [kind : {"free"}, blt : Unit, entry : Entry, merge_count : Nat]

BuddyTypeOK ==
    /\ ptr \in [Entry -> SUBSET Unit]
    /\ count \in [Entry -> Int]
    /\ post \in [Unit -> Nat]
    /\ live \subseteq [addr : Unit, entry : Entry, size : Sizes]
    /\ op \in {Idle} \cup MallocOp \cup FreeOp
    /\ panicked \in BOOLEAN

\* The blocks on the lists, those in use, and the one that free has taken back
\* and not yet put on a list.
FreeTiles == {t \in Unit \X Entry : t[1] \in ptr[t[2]]}
LiveTiles == {<<b.addr, b.entry>> : b \in live}
HeldTiles == IF op.kind = "free" /\ op.merge_count = 0
             THEN {<<op.blt, op.entry>>} ELSE {}
Tiles == FreeTiles \cup LiveTiles \cup HeldTiles

\* The three kinds are apart, and a block is in use once.
Apart ==
    /\ FreeTiles \cap LiveTiles = {}
    /\ HeldTiles \cap (FreeTiles \cup LiveTiles) = {}
    /\ \A b, c \in live : b.addr = c.addr /\ b.entry = c.entry => b = c

Counted == \A e \in Entry : count[e] = Cardinality(ptr[e])

Marked ==
    /\ \A t \in FreeTiles : post[End(t)] = t[2]
    /\ \A t \in LiveTiles : post[End(t)] = USED

\* malloc splits the smallest block that is large enough: the lists from the
\* wanted entry up to it are empty.  A merged block is on its list.
UnderWay ==
    /\ op.kind = "malloc" =>
          /\ op.entry = EntryFor(op.size) + op.split_count
          /\ ptr[op.entry] # {}
          /\ \A f \in Entry :
                EntryFor(op.size) <= f /\ f < op.entry => ptr[f] = {}
    /\ op.kind = "free" /\ op.merge_count > 0 => op.blt \in ptr[op.entry]

\* No two buddies are both free, but for the two halves that a split left on a
\* list of their own and for the block that free is still merging.
Merged ==
    \A e \in Entry : e < ENTRIES - 1 =>
        \A a \in ptr[e] :
            BuddyOf(a, e) \in ptr[e] =>
                \/ /\ op.kind = "malloc" /\ op.entry = e
                   /\ ptr[e] = {a, BuddyOf(a, e)}
                \/ /\ op.kind = "free" /\ op.merge_count > 0 /\ op.entry = e
                   /\ op.blt \in {a, BuddyOf(a, e)}

BuddyInv ==
    /\ BuddyTypeOK
    /\ Tiling(Tiles)
    /\ Apart
    /\ Counted
    /\ Marked
    /\ UnderWay
    /\ Merged

LEMMA EntryForIs ==
    ASSUME NEW size \in Sizes
    PROVE  /\ EntryFor(size) \in Entry
           /\ size + 9 <= 2 ^ EntryFor(size) * MIN_BLK
<1> DEFINE T == {e \in Entry : size + 9 <= 2 ^ e * MIN_BLK}
           Good(e) == /\ size + 9 <= 2 ^ e * MIN_BLK
                      /\ \A f \in Entry : f < e => size + 9 > 2 ^ f * MIN_BLK
<1>1. ENTRIES - 1 \in T
  BY BuddyAssumption, PoolIsBlock
<1>2. PICK e \in T : \A f \in T : e <= f
  BY <1>1, PoolIsBlock, LeastNat
<1>3. ASSUME NEW f \in Entry, f < e PROVE size + 9 > 2 ^ f * MIN_BLK
  <2>1. f \notin T
    BY <1>2, <1>3, PoolIsBlock
  <2>2. PICK x \in Nat : x = 2 ^ f * MIN_BLK
    BY PowPositive, PoolIsBlock, BuddyAssumption
  <2>3. ~(size + 9 <= x)
    BY <2>1, <2>2
  <2>4. size \in Nat
    BY BuddyAssumption
  <2> QED
    BY <2>2, <2>3, <2>4
<1>4. e \in Entry /\ Good(e)
  BY <1>2, <1>3
<1>5. EntryFor(size) = CHOOSE x \in Entry : Good(x)
  BY DEF EntryFor
<1> HIDE DEF Good
<1>6. EntryFor(size) \in Entry /\ Good(EntryFor(size))
  BY <1>4, <1>5
<1> QED
  BY <1>6 DEF Good

LEMMA ListFinite ==
    ASSUME BuddyTypeOK, NEW e \in Entry
    PROVE  IsFiniteSet(ptr[e])
<1>1. IsFiniteSet(Unit)
  <2>1. 2 ^ (ENTRIES - 1) - 1 \in Int
    <3>1. ENTRIES - 1 \in Nat
      BY BuddyAssumption
    <3>2. 2 ^ (ENTRIES - 1) \in Nat
      BY <3>1, PowPositive
    <3> QED
      BY <3>2
  <2> QED
    BY <2>1, FS_Interval DEF Unit
<1>2. ptr[e] \in SUBSET Unit
  BY DEF BuddyTypeOK
<1> QED
  BY <1>1, <1>2, FS_Subset

LEMMA InitBuddyInv == Init => BuddyInv
<1> SUFFICES ASSUME Init PROVE BuddyInv
  OBVIOUS
<1> DEFINE E == ENTRIES - 1
           t0 == <<0, E>>
<1>1. E \in Entry /\ E \in Nat /\ Unit = Block(0, E) /\ Aligned(0, E) /\ 0 \in Unit
  <2>1. E \in Entry /\ E \in Nat /\ Unit = Block(0, E) /\ Aligned(0, E)
    BY PoolIsBlock
  <2> QED
    BY <2>1, BlockIs
<1>2. BuddyTypeOK
  <2>1. PICK v \in Fill : post = [u \in Unit |-> IF u = Last(0, E) THEN E ELSE v]
    BY DEF Init
  <2>2. post \in [Unit -> Nat]
    BY <2>1, <1>1, BuddyAssumption
  <2>3. ptr \in [Entry -> SUBSET Unit] /\ count \in [Entry -> Int]
    BY <1>1 DEF Init
  <2>4. live = {} /\ op = Idle /\ panicked = FALSE
    BY DEF Init
  <2> QED
    BY <2>2, <2>3, <2>4 DEF BuddyTypeOK
<1> HIDE DEF E
<1>3. FreeTiles = {t0}
  <2>1. ptr = [e \in Entry |-> IF e = E THEN {0} ELSE {}]
    BY DEF Init, E
  <2> QED
    BY <1>1, <2>1 DEF FreeTiles
<1>4. LiveTiles = {} /\ HeldTiles = {} /\ Tiles = {t0}
  BY <1>3 DEF LiveTiles, HeldTiles, Tiles, Init, Idle
<1>5. Tiling(Tiles)
  BY <1>1, <1>4 DEF Tiling, Ext
<1>6. Apart
  BY <1>4 DEF Apart, Init
<1>7. Counted
  BY <1>1, FS_EmptySet, FS_Singleton DEF Counted, Init, E
<1>8. Marked
  <2>1. post[End(t0)] = E
    <3>1. End(t0) = Last(0, E) /\ End(t0) \in Unit
      BY <1>1, BlockIs DEF End
    <3> QED
      BY <3>1 DEF Init, E
  <2> QED
    BY <2>1, <1>3, <1>4 DEF Marked
<1>9. UnderWay
  BY DEF UnderWay, Init, Idle
<1>10. Merged
  BY <1>1 DEF Merged, Init, E, Entry
<1> QED
  BY <1>2, <1>5, <1>6, <1>7, <1>8, <1>9, <1>10 DEF BuddyInv

LEMMA OpKinds ==
    ASSUME BuddyTypeOK
    PROVE  /\ op = Idle \/ op \in MallocOp \/ op \in FreeOp
           /\ op = Idle => op.kind = "idle"
           /\ op \in MallocOp => op.kind = "malloc"
           /\ op \in FreeOp => op.kind = "free"
BY DEF BuddyTypeOK, Idle, MallocOp, FreeOp

-----------------------------------------------------------------------------
(* The steps keep the invariant                                            *)

\* Nothing but op changes, and no free list has two buddies.
LEMMA MallocKeeps ==
    ASSUME BuddyInv, NEW size \in Sizes, malloc(size)
    PROVE  BuddyInv'
<1>1. op = Idle /\ op.kind = "idle"
  BY DEF malloc, Ready, Idle
<1>2. EntryFor(size) \in Entry /\ EntryFor(size) \in Nat /\ Entry \subseteq Nat
  BY EntryForIs, PoolIsBlock
<1>3. PICK e \in Entry :
          /\ e >= EntryFor(size)
          /\ count[e] # 0
          /\ \A f \in Entry : EntryFor(size) <= f /\ f < e => count[f] = 0
          /\ op' = [kind |-> "malloc", entry |-> e,
                    split_count |-> e - EntryFor(size), size |-> size]
  BY DEF malloc
<1>4. ptr' = ptr /\ count' = count /\ post' = post /\ live' = live /\ panicked' = panicked
  BY DEF malloc
<1>5. op' \in MallocOp /\ op'.kind = "malloc"
  BY <1>2, <1>3 DEF MallocOp
<1>6. BuddyTypeOK'
  BY <1>4, <1>5 DEF BuddyInv, BuddyTypeOK
<1>7. FreeTiles' = FreeTiles /\ LiveTiles' = LiveTiles /\ HeldTiles = {} /\ HeldTiles' = {}
  BY <1>1, <1>4, <1>5 DEF FreeTiles, LiveTiles, HeldTiles
<1>8. Tiling(Tiles)' /\ Apart' /\ Marked'
  BY <1>4, <1>7 DEF BuddyInv, Tiles, Tiling, Apart, Marked
<1>9. Counted'
  BY <1>4 DEF BuddyInv, Counted
<1>10. UnderWay'
  <2>1. \A f \in Entry : count[f] = Cardinality(ptr[f]) /\ IsFiniteSet(ptr[f])
    BY ListFinite DEF BuddyInv, Counted
  <2>2. \A f \in Entry : count[f] = 0 <=> ptr[f] = {}
    BY <2>1, FS_EmptySet
  <2>3. op'.entry = EntryFor(size) + op'.split_count
    BY <1>2, <1>3
  <2> QED
    BY <2>2, <2>3, <1>3, <1>4, <1>5 DEF UnderWay
<1>11. Merged'
  BY <1>1, <1>4 DEF BuddyInv, Merged
<1> QED
  BY <1>6, <1>8, <1>9, <1>10, <1>11 DEF BuddyInv

LEMMA MallocPanicKeeps ==
    ASSUME BuddyInv, NEW size \in Sizes, malloc_panic(size)
    PROVE  BuddyInv'
<1>1. /\ ptr' = ptr /\ count' = count /\ post' = post /\ live' = live /\ op' = op
      /\ panicked' = TRUE
  BY DEF malloc_panic
<1>2. BuddyTypeOK'
  BY <1>1 DEF BuddyInv, BuddyTypeOK
<1>3. FreeTiles' = FreeTiles /\ LiveTiles' = LiveTiles /\ HeldTiles' = HeldTiles
  BY <1>1 DEF FreeTiles, LiveTiles, HeldTiles
<1> QED
  BY <1>1, <1>2, <1>3 DEF BuddyInv, Tiles, Tiling, Apart, Counted, Marked, UnderWay, Merged

LEMMA FreeKeeps ==
    ASSUME BuddyInv, NEW b \in live, free(b)
    PROVE  BuddyInv'
<1>1. op = Idle /\ op.kind = "idle"
  BY DEF free, Ready, Idle
<1>2. /\ ptr' = ptr /\ count' = count /\ post' = post /\ panicked' = panicked
      /\ live' = live \ {b}
      /\ op' = [kind |-> "free", blt |-> b.addr, entry |-> b.entry, merge_count |-> 0]
  BY DEF free
<1>3. b.addr \in Unit /\ b.entry \in Entry
  BY DEF BuddyInv, BuddyTypeOK
<1>4. op' \in FreeOp /\ op'.kind = "free" /\ op'.merge_count = 0
  BY <1>2, <1>3 DEF FreeOp
<1>5. BuddyTypeOK'
  BY <1>2, <1>4 DEF BuddyInv, BuddyTypeOK
<1>6. PICK t : t = <<b.addr, b.entry>>
  OBVIOUS
<1>7. FreeTiles' = FreeTiles /\ HeldTiles = {} /\ HeldTiles' = {t}
  BY <1>1, <1>2, <1>4, <1>6 DEF FreeTiles, HeldTiles
<1>8. LiveTiles' = LiveTiles \ {t} /\ t \in LiveTiles
  <2>1. t \in LiveTiles
    BY <1>6 DEF LiveTiles
  <2>2. \A c \in live : c # b => <<c.addr, c.entry>> # t
    BY <1>6 DEF BuddyInv, Apart
  <2>3. LiveTiles' \subseteq LiveTiles \ {t}
    BY <1>2, <2>2 DEF LiveTiles
  <2>4. LiveTiles \ {t} \subseteq LiveTiles'
    BY <1>2, <1>6 DEF LiveTiles
  <2> QED
    BY <2>1, <2>3, <2>4
<1>9. Tiles' = Tiles
  BY <1>7, <1>8 DEF Tiles
<1>10. Tiling(Tiles)'
  BY <1>9 DEF BuddyInv, Tiling
<1>11. Apart' /\ Marked'
  BY <1>2, <1>7, <1>8 DEF BuddyInv, Apart, Marked
<1>12. Counted' /\ UnderWay'
  BY <1>2, <1>4 DEF BuddyInv, Counted, UnderWay
<1>13. Merged'
  BY <1>1, <1>2 DEF BuddyInv, Merged
<1> QED
  BY <1>5, <1>10, <1>11, <1>12, <1>13 DEF BuddyInv

LEMMA FreeMergedKeeps ==
    ASSUME BuddyInv, free_merged
    PROVE  BuddyInv'
<1>1. /\ op \in FreeOp /\ op.kind = "free" /\ op.merge_count > 0
      /\ ptr' = ptr /\ count' = count /\ post' = post /\ live' = live
      /\ panicked' = panicked /\ op' = Idle /\ ~Mergeable
  BY OpKinds DEF free_merged, BuddyInv
<1>2. op'.kind = "idle" /\ op.merge_count # 0 /\ op.entry \in Entry
  BY <1>1 DEF Idle, FreeOp
<1>3. BuddyTypeOK'
  BY <1>1 DEF BuddyInv, BuddyTypeOK
<1>4. FreeTiles' = FreeTiles /\ LiveTiles' = LiveTiles /\ HeldTiles = {} /\ HeldTiles' = {}
  BY <1>1, <1>2 DEF FreeTiles, LiveTiles, HeldTiles
<1>5. Tiling(Tiles)' /\ Apart' /\ Marked'
  BY <1>1, <1>4 DEF BuddyInv, Tiles, Tiling, Apart, Marked
<1>6. Counted' /\ UnderWay'
  BY <1>1, <1>2 DEF BuddyInv, Counted, UnderWay
<1>7. Merged'
  <2>1. SUFFICES ASSUME NEW e \in Entry, e < ENTRIES - 1, NEW a \in ptr[e],
                        BuddyOf(a, e) \in ptr[e]
                 PROVE  FALSE
    BY <1>1 DEF Merged
  <2>2. op.entry = e /\ op.blt \in {a, BuddyOf(a, e)}
    BY <2>1, <1>1 DEF BuddyInv, Merged
  <2>3. /\ <<a, e>> \in Tiles /\ a \in Unit
        /\ <<BuddyOf(a, e), e>> \in FreeTiles /\ <<a, e>> \in FreeTiles
    BY <2>1 DEF BuddyInv, BuddyTypeOK, FreeTiles, Tiles
  <2>4. Aligned(a, e) /\ a \in Nat /\ e \in Nat
    BY <2>3, PoolIsBlock DEF BuddyInv, Tiling
  <2>5. BuddyOf(BuddyOf(a, e), e) = a
    BY <2>4, BuddyTwice
  <2>6. <<BuddyOf(op.blt, e), e>> \in FreeTiles
    BY <2>2, <2>3, <2>5
  <2>7. post[Last(BuddyOf(op.blt, e), e)] = e
    BY <2>6 DEF BuddyInv, Marked, End
  <2>8. Mergeable
    BY <2>1, <2>2, <2>7, <1>2 DEF Mergeable
  <2> QED
    BY <2>8, <1>1
<1> QED
  BY <1>3, <1>5, <1>6, <1>7 DEF BuddyInv

LEMMA FreeAddKeeps ==
    ASSUME BuddyInv, free_add
    PROVE  BuddyInv'
<1>1. /\ op \in FreeOp /\ op.kind = "free" /\ op.merge_count = 0 /\ ~Mergeable
      /\ live' = live /\ panicked' = panicked /\ op' = Idle /\ op'.kind = "idle"
  BY OpKinds DEF free_add, BuddyInv, Idle
<1>2. PICK e \in Entry, a \in Unit : e = op.entry /\ a = op.blt
  BY <1>1 DEF FreeOp
<1>3. /\ ptr' = [ptr EXCEPT ![e] = @ \cup {a}]
      /\ count' = [count EXCEPT ![e] = @ + 1]
      /\ post' = [post EXCEPT ![Last(a, e)] = e]
  BY <1>2 DEF free_add
<1>4. /\ ptr \in [Entry -> SUBSET Unit] /\ count \in [Entry -> Int] /\ post \in [Unit -> Nat]
      /\ Entry \subseteq Nat /\ Unit \subseteq Nat
  BY PoolIsBlock DEF BuddyInv, BuddyTypeOK
<1>5. PICK t : t = <<a, e>>
  OBVIOUS
<1>6. HeldTiles = {t} /\ HeldTiles' = {} /\ LiveTiles' = LiveTiles
  BY <1>1, <1>2, <1>5 DEF HeldTiles, LiveTiles
<1>7. FreeTiles' = FreeTiles \cup {t} /\ t \notin FreeTiles /\ t \notin LiveTiles
  <2>1. FreeTiles' = FreeTiles \cup {t}
    BY <1>2, <1>3, <1>4, <1>5 DEF FreeTiles
  <2> QED
    BY <2>1, <1>6 DEF BuddyInv, Apart
<1>8. Tiles' = Tiles /\ t \in Tiles
  BY <1>6, <1>7 DEF Tiles
<1>9. Tiling(Tiles)'
  BY <1>8 DEF BuddyInv, Tiling
<1>10. End(t) = Last(a, e) /\ End(t) \in Unit /\ t[2] = e
  <2>1. t \in Unit \X Entry /\ Ext(t) \subseteq Unit
    BY <1>8 DEF BuddyInv, Tiling
  <2> QED
    BY <2>1, <1>5, EndInside DEF End
<1>11. BuddyTypeOK'
  <2>1. ptr' \in [Entry -> SUBSET Unit]
    BY <1>2, <1>3, <1>4
  <2>2. count' \in [Entry -> Int]
    BY <1>3, <1>4
  <2>3. post' \in [Unit -> Nat]
    BY <1>2, <1>3, <1>4
  <2> QED
    BY <2>1, <2>2, <2>3, <1>1 DEF BuddyInv, BuddyTypeOK
<1>12. Apart'
  BY <1>1, <1>6, <1>7 DEF BuddyInv, Apart
<1>13. Counted'
  <2>1. a \notin ptr[e]
    BY <1>2, <1>5, <1>7 DEF FreeTiles
  <2>2. Cardinality(ptr[e] \cup {a}) = Cardinality(ptr[e]) + 1
    BY <2>1, ListFinite, FS_AddElement DEF BuddyInv
  <2> QED
    BY <2>2, <1>2, <1>3, <1>4 DEF BuddyInv, Counted
<1>14. Marked'
  <2>1. \A s \in Tiles : s # t => End(s) # End(t)
    BY <1>8, EndsApart DEF BuddyInv
  <2>2. \A s \in Tiles : s # t => post'[End(s)] = post[End(s)]
    BY <2>1, <1>3, <1>4, <1>10
  <2>3. post'[End(t)] = t[2]
    BY <1>3, <1>4, <1>10
  <2> QED
    BY <2>2, <2>3, <1>6, <1>7 DEF BuddyInv, Marked, Tiles
<1>15. UnderWay'
  BY <1>1 DEF UnderWay
<1>16. Merged'
  <2>1. SUFFICES ASSUME NEW f \in Entry, f < ENTRIES - 1, NEW x \in ptr'[f],
                        BuddyOf(x, f) \in ptr'[f]
                 PROVE  FALSE
    BY DEF Merged
  <2>2. ~(x \in ptr[f] /\ BuddyOf(x, f) \in ptr[f])
    BY <2>1, <1>1 DEF BuddyInv, Merged
  <2>3. f = e /\ a \in {x, BuddyOf(x, e)}
    BY <2>1, <2>2, <1>2, <1>3, <1>4
  <2>4. x \in Nat /\ e \in Nat /\ Aligned(x, e)
    <3>1. <<x, e>> \in Tiles'
      BY <2>1, <2>3, <1>3, <1>4 DEF Tiles, FreeTiles
    <3> QED
      BY <3>1, <1>8, PoolIsBlock DEF BuddyInv, Tiling
  <2>5. BuddyOf(x, e) # x /\ BuddyOf(BuddyOf(x, e), e) = x
    BY <2>4, BuddyTwice
  <2>6. BuddyOf(a, e) \in ptr[e]
    BY <2>1, <2>3, <2>5, <1>2, <1>3, <1>4
  <2>7. <<BuddyOf(a, e), e>> \in FreeTiles
    BY <2>6, <1>2, <1>4 DEF FreeTiles
  <2>8. post[Last(BuddyOf(a, e), e)] = e
    BY <2>7 DEF BuddyInv, Marked, End
  <2>9. count[e] # 0
    BY <2>6, ListFinite, FS_EmptySet DEF BuddyInv, Counted
  <2>10. Mergeable
    BY <2>1, <2>3, <2>8, <2>9, <1>2 DEF Mergeable
  <2> QED
    BY <2>10, <1>1
<1> QED
  BY <1>9, <1>11, <1>12, <1>13, <1>14, <1>15, <1>16 DEF BuddyInv

LEMMA BuddySplitKeeps ==
    ASSUME BuddyInv, buddy_split
    PROVE  BuddyInv'
<1>1. /\ op \in MallocOp /\ op.kind = "malloc" /\ op.split_count > 0
      /\ live' = live /\ panicked' = panicked
  BY OpKinds DEF buddy_split, BuddyInv
<1>2. /\ ptr \in [Entry -> SUBSET Unit] /\ count \in [Entry -> Int] /\ post \in [Unit -> Nat]
      /\ Entry \subseteq Nat /\ Unit \subseteq Nat
      /\ op.entry \in Entry /\ op.size \in Sizes /\ op.split_count \in Nat
      /\ EntryFor(op.size) \in Entry
  BY <1>1, PoolIsBlock, EntryForIs DEF BuddyInv, BuddyTypeOK, MallocOp
<1>3. PICK e : e = op.entry - 1
  OBVIOUS
<1>4. e \in Entry /\ op.entry = e + 1 /\ EntryFor(op.size) <= e /\ ptr[e] = {}
  <2>1. op.entry = EntryFor(op.size) + op.split_count
    BY <1>1 DEF BuddyInv, UnderWay
  <2>2. e \in Entry /\ op.entry = e + 1 /\ EntryFor(op.size) <= e
    <3>1. PICK w \in Nat, k \in Nat : w = EntryFor(op.size) /\ k = op.split_count
      BY <1>2
    <3>2. op.entry \in Nat /\ op.entry = w + k /\ k > 0
      BY <3>1, <2>1, <1>1, <1>2
    <3>3. e \in Nat /\ op.entry = e + 1 /\ w <= e
      BY <3>1, <3>2, <1>3
    <3>4. e \in Entry
      BY <3>3, <1>2, BuddyAssumption DEF Entry
    <3> QED
      BY <3>1, <3>3, <3>4
  <2>3. ptr[e] = {}
    BY <2>2, <1>1, <1>2 DEF BuddyInv, UnderWay
  <2> QED
    BY <2>2, <2>3
<1>5. PICK a \in ptr[e + 1] :
         /\ ptr' = [ptr EXCEPT ![e + 1] = @ \ {a}, ![e] = @ \cup {a, a + 2 ^ e}]
         /\ count' = [count EXCEPT ![e + 1] = @ - 1, ![e] = @ + 2]
         /\ post' = [post EXCEPT ![Last(a, e)] = e, ![Last(a + 2 ^ e, e)] = e]
         /\ op' = [op EXCEPT !.entry = e, !.split_count = @ - 1]
  BY <1>3, <1>4 DEF buddy_split
<1>6. e # e + 1 /\ e + 1 \in Entry /\ a \in Unit
  BY <1>2, <1>4, <1>5
<1>7. PICK b : b = a + 2 ^ e
  OBVIOUS
<1>8. PICK t0, t1, t2 : t0 = <<a, e + 1>> /\ t1 = <<a, e>> /\ t2 = <<b, e>>
  OBVIOUS
<1>9. t0 \in FreeTiles /\ t0 \in Tiles
  BY <1>5, <1>6, <1>8 DEF FreeTiles, Tiles
<1>10. /\ Tiling((Tiles \ {t0}) \cup {t1, t2})
       /\ t1 \notin Tiles /\ t2 \notin Tiles /\ b \in Unit /\ t1 # t2
  BY <1>4, <1>6, <1>7, <1>8, <1>9, SplitTiling DEF BuddyInv
<1>11. /\ op' \in MallocOp /\ op'.kind = "malloc" /\ op'.entry = e /\ op'.size = op.size
       /\ op'.split_count = op.split_count - 1
  <2>1. op.split_count - 1 \in Nat
    BY <1>1, <1>2
  <2>2. op' = [kind |-> "malloc", entry |-> e, split_count |-> op.split_count - 1,
               size |-> op.size]
    BY <1>1, <1>5 DEF MallocOp
  <2> QED
    BY <2>1, <2>2, <1>2, <1>4 DEF MallocOp
<1>12. /\ ptr'[e + 1] = ptr[e + 1] \ {a} /\ ptr'[e] = {a, b}
       /\ \A f \in Entry : f # e /\ f # e + 1 => ptr'[f] = ptr[f]
  BY <1>2, <1>4, <1>5, <1>6, <1>7
<1>13. ptr' \in [Entry -> SUBSET Unit]
  BY <1>2, <1>4, <1>5, <1>6, <1>7, <1>10
<1>14. FreeTiles' = (FreeTiles \ {t0}) \cup {t1, t2}
  <2>1. ASSUME NEW t \in FreeTiles' PROVE t \in (FreeTiles \ {t0}) \cup {t1, t2}
    <3>1. t \in Unit \X Entry /\ t[1] \in ptr'[t[2]] /\ t = <<t[1], t[2]>>
      BY <2>1 DEF FreeTiles
    <3>2. CASE t[2] = e
      BY <3>1, <3>2, <1>8, <1>12
    <3>3. CASE t[2] = e + 1
      BY <3>1, <3>3, <1>8, <1>12 DEF FreeTiles
    <3>4. CASE t[2] # e /\ t[2] # e + 1
      BY <3>1, <3>4, <1>8, <1>12 DEF FreeTiles
    <3> QED
      BY <3>2, <3>3, <3>4
  <2>2. ASSUME NEW t \in FreeTiles, t # t0 PROVE t \in FreeTiles'
    <3>1. t \in Unit \X Entry /\ t[1] \in ptr[t[2]] /\ t = <<t[1], t[2]>>
      BY <2>2 DEF FreeTiles
    <3>2. t[2] # e
      BY <3>1, <1>4
    <3>3. t[1] \in ptr'[t[2]]
      BY <2>2, <3>1, <3>2, <1>8, <1>12
    <3> QED
      BY <3>1, <3>3 DEF FreeTiles
  <2>3. t1 \in FreeTiles' /\ t2 \in FreeTiles'
    BY <1>4, <1>6, <1>8, <1>10, <1>12 DEF FreeTiles
  <2> QED
    BY <2>1, <2>2, <2>3
<1>15. HeldTiles = {} /\ HeldTiles' = {} /\ LiveTiles' = LiveTiles /\ t0 \notin LiveTiles
  BY <1>1, <1>9, <1>11 DEF HeldTiles, LiveTiles, BuddyInv, Apart
<1>16. Tiles' = (Tiles \ {t0}) \cup {t1, t2}
  BY <1>14, <1>15 DEF Tiles
<1>17. Tiling(Tiles')
  BY <1>10, <1>16
<1>18. /\ End(t1) = Last(a, e) /\ End(t2) = Last(b, e) /\ t1[2] = e /\ t2[2] = e
       /\ End(t1) \in Unit /\ End(t2) \in Unit /\ t1 \in Tiles' /\ t2 \in Tiles'
  <2>1. t1 \in Tiles' /\ t2 \in Tiles'
    BY <1>16
  <2>2. /\ t1 \in Unit \X Entry /\ t2 \in Unit \X Entry
        /\ Ext(t1) \subseteq Unit /\ Ext(t2) \subseteq Unit
    BY <2>1, <1>17 DEF Tiling
  <2>3. End(t1) \in Unit /\ End(t2) \in Unit
    BY <2>2, EndInside
  <2> QED
    BY <2>1, <2>3, <1>8 DEF End
<1>19. BuddyTypeOK'
  <2>1. count' \in [Entry -> Int]
    <3>1. /\ count[e + 1] - 1 \in Int /\ count[e] + 2 \in Int
      BY <1>2, <1>4, <1>6
    <3>2. count' = [count EXCEPT ![e + 1] = count[e + 1] - 1, ![e] = count[e] + 2]
      BY <1>2, <1>4, <1>5, <1>6
    <3> QED
      BY <3>1, <3>2, <1>2
  <2>2. post' \in [Unit -> Nat]
    BY <1>2, <1>4, <1>5
  <2> QED
    BY <2>1, <2>2, <1>1, <1>11, <1>13 DEF BuddyInv, BuddyTypeOK
<1>20. Apart'
  <2>1. FreeTiles' \cap LiveTiles' = {}
    BY <1>10, <1>14, <1>15 DEF BuddyInv, Apart, Tiles
  <2> QED
    BY <2>1, <1>1, <1>15 DEF BuddyInv, Apart
<1>21. Counted'
  <2>1. Cardinality(ptr[e + 1] \ {a}) = Cardinality(ptr[e + 1]) - 1
    BY <1>5, <1>6, ListFinite, FS_RemoveElement DEF BuddyInv
  <2>2. Cardinality({a, b}) = 2 /\ Cardinality(ptr[e]) = 0
    <3>1. a # b
      BY <1>8, <1>10
    <3>2. {a, b} = {a} \cup {b} /\ b \notin {a} /\ IsFiniteSet({a}) /\ Cardinality({a}) = 1
      BY <3>1, FS_Singleton
    <3>3. Cardinality({a} \cup {b}) = Cardinality({a}) + 1
      BY <3>2, FS_AddElement, Zenon
    <3>4. Cardinality({a, b}) = 1 + 1
      BY <3>2, <3>3, Zenon
    <3> QED
      BY <3>4, <1>4, FS_EmptySet
  <2>3. /\ count'[e + 1] = count[e + 1] - 1 /\ count'[e] = count[e] + 2
        /\ \A f \in Entry : f # e /\ f # e + 1 => count'[f] = count[f]
    BY <1>2, <1>4, <1>5, <1>6
  <2>4. \A f \in Entry : count[f] = Cardinality(ptr[f])
    BY DEF BuddyInv, Counted
  <2>5. ASSUME NEW f \in Entry PROVE count'[f] = Cardinality(ptr'[f])
    <3>1. CASE f = e
      <4>1. count'[e] = 0 + 2 /\ Cardinality(ptr'[e]) = 2
        BY <2>2, <2>3, <2>4, <1>4, <1>12
      <4> QED
        BY <4>1, <3>1
    <3>2. CASE f = e + 1
      <4>1. count'[f] = Cardinality(ptr[f]) - 1
        BY <2>3, <2>4, <3>2
      <4>2. ptr'[f] = ptr[f] \ {a}
        BY <3>2, <1>12
      <4> QED
        BY <4>1, <4>2, <2>1, <3>2
    <3>3. CASE f # e /\ f # e + 1
      BY <3>3, <2>3, <2>4, <1>12
    <3> QED
      BY <3>1, <3>2, <3>3
  <2> QED
    BY <2>5 DEF Counted
<1>22. Marked'
  <2>1. \A s \in Tiles' : /\ s # t1 => End(s) # End(t1)
                          /\ s # t2 => End(s) # End(t2)
    BY <1>17, <1>18, EndsApart
  <2>2. \A s \in Tiles' : s # t1 /\ s # t2 => post'[End(s)] = post[End(s)]
    <3>1. \A s \in Tiles' : End(s) \in Unit
      BY <1>17, EndsInPool
    <3> QED
      BY <2>1, <3>1, <1>2, <1>5, <1>7, <1>18
  <2>3. post'[End(t1)] = e /\ post'[End(t2)] = e
    BY <1>2, <1>5, <1>7, <1>18
  <2>4. \A t \in FreeTiles' : post'[End(t)] = t[2]
    BY <2>2, <2>3, <1>14, <1>16, <1>18 DEF BuddyInv, Marked, Tiles
  <2>5. \A t \in LiveTiles' : t \in Tiles' /\ t # t1 /\ t # t2
    BY <1>10, <1>15 DEF Tiles
  <2>6. \A t \in LiveTiles' : post'[End(t)] = USED
    BY <2>2, <2>5, <1>15 DEF BuddyInv, Marked
  <2> QED
    BY <2>4, <2>6 DEF Marked
<1>23. UnderWay'
  <2>1. op'.entry = EntryFor(op'.size) + op'.split_count
    <3>1. e + 1 = EntryFor(op.size) + op.split_count
      BY <1>1, <1>4 DEF BuddyInv, UnderWay
    <3>2. e \in Nat /\ EntryFor(op.size) \in Nat
      BY <1>2, <1>4
    <3>3. e = EntryFor(op.size) + (op.split_count - 1)
      BY <3>1, <3>2, <1>2
    <3> QED
      BY <3>3, <1>11
  <2>2. \A f \in Entry : EntryFor(op'.size) <= f /\ f < e => ptr'[f] = {}
    <3>1. SUFFICES ASSUME NEW f \in Entry, EntryFor(op.size) <= f, f < e PROVE ptr'[f] = {}
      BY <1>11
    <3>2. f < op.entry /\ f # e /\ f # e + 1
      BY <3>1, <1>2, <1>4
    <3>3. ptr[f] = {}
      BY <3>1, <3>2, <1>1 DEF BuddyInv, UnderWay
    <3> QED
      BY <3>2, <3>3, <1>12
  <2> QED
    BY <2>1, <2>2, <1>11, <1>12 DEF UnderWay
<1>24. Merged'
  <2>1. SUFFICES ASSUME NEW f \in Entry, f < ENTRIES - 1, NEW x \in ptr'[f],
                        BuddyOf(x, f) \in ptr'[f]
                 PROVE  f = e /\ ptr'[f] = {x, BuddyOf(x, f)}
    BY <1>11 DEF Merged
  <2>2. CASE f = e
    <3>1. <<x, e>> \in Tiles'
      BY <2>1, <2>2, <1>13 DEF Tiles, FreeTiles
    <3>2. x \in Nat /\ e \in Nat /\ Aligned(x, e)
      BY <3>1, <1>17, PoolIsBlock DEF Tiling
    <3>3. BuddyOf(x, e) # x
      BY <3>2, BuddyTwice
    <3> QED
      BY <2>1, <2>2, <3>3, <1>12
  <2>3. CASE f = e + 1
    <3>1. x \in ptr[f] /\ BuddyOf(x, f) \in ptr[f] /\ x # a /\ BuddyOf(x, f) # a
      BY <2>1, <2>3, <1>12
    <3>2. ptr[f] = {x, BuddyOf(x, f)}
      BY <3>1, <2>1, <1>1 DEF BuddyInv, Merged
    <3> QED
      BY <3>1, <3>2, <2>3, <1>5
  <2>4. CASE f # e /\ f # e + 1
    <3>1. x \in ptr[f] /\ BuddyOf(x, f) \in ptr[f]
      BY <2>1, <2>4, <1>12
    <3> QED
      BY <3>1, <2>1, <2>4, <1>1, <1>4 DEF BuddyInv, Merged
  <2> QED
    BY <2>2, <2>3, <2>4
<1> QED
  BY <1>17, <1>19, <1>20, <1>21, <1>22, <1>23, <1>24 DEF BuddyInv

LEMMA MallocTakeKeeps ==
    ASSUME BuddyInv, malloc_take
    PROVE  BuddyInv'
<1>1. /\ op \in MallocOp /\ op.kind = "malloc"
      /\ op' = Idle /\ op'.kind = "idle" /\ panicked' = panicked
  BY OpKinds DEF malloc_take, BuddyInv, Idle
<1>2. /\ ptr \in [Entry -> SUBSET Unit] /\ count \in [Entry -> Int] /\ post \in [Unit -> Nat]
      /\ Entry \subseteq Nat /\ Unit \subseteq Nat
      /\ op.entry \in Entry /\ op.size \in Sizes
  BY <1>1, PoolIsBlock DEF BuddyInv, BuddyTypeOK, MallocOp
<1>0. PICK a \in ptr[op.entry], v \in Fill :
          /\ ptr' = [ptr EXCEPT ![op.entry] = @ \ {a}]
          /\ count' = [count EXCEPT ![op.entry] = @ - 1]
          /\ post' = [u \in Unit |-> IF u = Last(a, op.entry) THEN USED
                                     ELSE IF u \in Block(a, op.entry) THEN v
                                     ELSE post[u]]
          /\ live' = live \cup {[addr |-> a, entry |-> op.entry, size |-> op.size]}
  BY DEF malloc_take
<1>3. PICK e \in Entry : e = op.entry
  BY <1>2
<1>4. /\ a \in ptr[e]
      /\ ptr' = [ptr EXCEPT ![e] = @ \ {a}]
      /\ count' = [count EXCEPT ![e] = @ - 1]
      /\ post' = [u \in Unit |-> IF u = Last(a, e) THEN USED
                                 ELSE IF u \in Block(a, e) THEN v
                                 ELSE post[u]]
      /\ live' = live \cup {[addr |-> a, entry |-> e, size |-> op.size]}
  BY <1>0, <1>3
<1>5. a \in Unit
  BY <1>2, <1>4
<1>6. PICK t : t = <<a, e>>
  OBVIOUS
<1>7. t \in FreeTiles /\ t \in Tiles /\ t \notin LiveTiles /\ End(t) = Last(a, e)
      /\ Ext(t) = Block(a, e) /\ End(t) \in Unit
  <2>1. t \in FreeTiles /\ t \in Tiles
    BY <1>4, <1>5, <1>6 DEF FreeTiles, Tiles
  <2>2. t \notin LiveTiles
    BY <2>1 DEF BuddyInv, Apart
  <2>3. End(t) \in Unit
    BY <2>1, EndsInPool DEF BuddyInv
  <2> QED
    BY <2>1, <2>2, <2>3, <1>6 DEF End, Ext
<1>8. FreeTiles' = FreeTiles \ {t}
  BY <1>2, <1>4, <1>6 DEF FreeTiles
<1>9. LiveTiles' = LiveTiles \cup {t}
  <2>1. PICK r : r = [addr |-> a, entry |-> e, size |-> op.size]
    OBVIOUS
  <2>2. t = <<r.addr, r.entry>> /\ live' = live \cup {r}
    BY <2>1, <1>4, <1>6
  <2> QED
    BY <2>2 DEF LiveTiles
<1>10. HeldTiles = {} /\ HeldTiles' = {}
  BY <1>1 DEF HeldTiles
<1>11. Tiles' = Tiles /\ Tiling(Tiles)'
  BY <1>7, <1>8, <1>9, <1>10 DEF BuddyInv, Tiles, Tiling
<1>12. BuddyTypeOK'
  <2>1. ptr' \in [Entry -> SUBSET Unit]
    BY <1>2, <1>4
  <2>2. count' \in [Entry -> Int]
    BY <1>2, <1>4
  <2>3. post' \in [Unit -> Nat]
    <3>1. USED \in Nat /\ v \in Nat
      BY BuddyAssumption
    <3> QED
      BY <3>1, <1>2, <1>4
  <2>4. live' \subseteq [addr : Unit, entry : Entry, size : Sizes]
    BY <1>2, <1>3, <1>4, <1>5 DEF BuddyInv, BuddyTypeOK
  <2> QED
    BY <2>1, <2>2, <2>3, <2>4, <1>1 DEF BuddyInv, BuddyTypeOK
<1>13. Apart'
  <2>1. \A b \in live : <<b.addr, b.entry>> # t
    BY <1>7 DEF LiveTiles
  <2>2. \A b \in live : ~(b.addr = a /\ b.entry = e)
    BY <2>1, <1>6
  <2>3. \A b, c \in live' : b.addr = c.addr /\ b.entry = c.entry => b = c
    BY <2>2, <1>4 DEF BuddyInv, Apart
  <2>4. FreeTiles' \cap LiveTiles' = {}
    BY <1>8, <1>9 DEF BuddyInv, Apart
  <2> QED
    BY <2>3, <2>4, <1>10 DEF Apart
<1>14. Counted'
  <2>1. Cardinality(ptr[e] \ {a}) = Cardinality(ptr[e]) - 1
    BY <1>4, ListFinite, FS_RemoveElement DEF BuddyInv
  <2> QED
    BY <2>1, <1>2, <1>4 DEF BuddyInv, Counted
<1>15. Marked'
  <2>1. \A s \in Tiles : s # t => End(s) \notin Ext(t) /\ End(s) # End(t) /\ End(s) \in Unit
    BY <1>7, EndsApart, EndsInPool DEF BuddyInv
  <2>2. \A s \in Tiles : s # t => post'[End(s)] = post[End(s)]
    BY <2>1, <1>4, <1>7
  <2>3. post'[End(t)] = USED
    BY <1>4, <1>7
  <2> QED
    BY <2>2, <2>3, <1>8, <1>9 DEF BuddyInv, Marked, Tiles
<1>16. UnderWay'
  BY <1>1 DEF UnderWay
<1>17. Merged'
  <2>1. SUFFICES ASSUME NEW f \in Entry, f < ENTRIES - 1, NEW x \in ptr'[f],
                        BuddyOf(x, f) \in ptr'[f]
                 PROVE  FALSE
    BY DEF Merged
  <2>2. x \in ptr[f] /\ BuddyOf(x, f) \in ptr[f]
    BY <2>1, <1>2, <1>4
  <2>3. f = e /\ ptr[f] = {x, BuddyOf(x, f)}
    BY <2>1, <2>2, <1>1, <1>3 DEF BuddyInv, Merged
  <2>4. ptr'[e] = ptr[e] \ {a}
    BY <1>2, <1>4
  <2> QED
    BY <2>1, <2>3, <2>4, <1>4
<1> QED
  BY <1>11, <1>12, <1>13, <1>14, <1>15, <1>16, <1>17 DEF BuddyInv

\* The postamble test of buddy_try_merge finds the buddy: what it reads is the
\* postamble of a block, and only a free block of this entry has this one.
LEMMA BuddyIsFree ==
    ASSUME BuddyInv, op \in FreeOp, Mergeable
    PROVE  /\ op.entry \in Entry /\ op.entry < ENTRIES - 1
           /\ <<op.blt, op.entry>> \in Tiles
           /\ BuddyOf(op.blt, op.entry) \in ptr[op.entry]
           /\ BuddyOf(op.blt, op.entry) # op.blt
<1>1. PICK e \in Entry, a \in Unit : e = op.entry /\ a = op.blt
  BY DEF FreeOp
<1>2. e < ENTRIES - 1 /\ op.kind = "free" /\ op.merge_count \in Nat
  BY <1>1 DEF Mergeable, FreeOp
<1>3. <<a, e>> \in Tiles
  <2>1. CASE op.merge_count = 0
    BY <2>1, <1>1, <1>2 DEF Tiles, HeldTiles
  <2>2. CASE op.merge_count > 0
    <3>1. a \in ptr[e]
      BY <2>2, <1>1, <1>2 DEF BuddyInv, UnderWay
    <3> QED
      BY <3>1 DEF Tiles, FreeTiles
  <2> QED
    BY <2>1, <2>2, <1>2
<1>4. PICK b : b = BuddyOf(a, e)
  OBVIOUS
<1>5. PICK t \in Tiles : t # <<a, e>> /\ End(t) = Last(b, e) /\ (t[2] = e => t = <<b, e>>)
  BY <1>2, <1>3, <1>4, BuddyPostamble DEF BuddyInv
<1>6. post[End(t)] = e
  BY <1>1, <1>4, <1>5 DEF Mergeable
<1>7. t \notin LiveTiles
  <2>1. USED \notin Entry
    BY BuddyAssumption
  <2> QED
    BY <2>1, <1>6 DEF BuddyInv, Marked
<1>8. t \notin HeldTiles
  BY <1>1, <1>5 DEF HeldTiles
<1>9. t \in FreeTiles /\ t[2] = e /\ t = <<b, e>>
  BY <1>5, <1>6, <1>7, <1>8 DEF BuddyInv, Marked, Tiles
<1>10. b \in ptr[e] /\ b # a
  BY <1>5, <1>9 DEF FreeTiles
<1> QED
  BY <1>1, <1>2, <1>3, <1>4, <1>10

LEMMA BuddyMergeKeeps ==
    ASSUME BuddyInv, buddy_merge
    PROVE  BuddyInv'
<1>1. /\ op \in FreeOp /\ op.kind = "free" /\ Mergeable
      /\ live' = live /\ panicked' = panicked
  BY OpKinds DEF buddy_merge, BuddyInv
<1>2. /\ ptr \in [Entry -> SUBSET Unit] /\ count \in [Entry -> Int] /\ post \in [Unit -> Nat]
      /\ Entry \subseteq Nat /\ Unit \subseteq Nat /\ op.merge_count \in Nat
  BY <1>1, PoolIsBlock DEF BuddyInv, BuddyTypeOK, FreeOp
<1>3. PICK e \in Entry, a \in Unit : e = op.entry /\ a = op.blt
  BY <1>1 DEF FreeOp
<1>4. PICK b : b = BuddyOf(a, e)
  OBVIOUS
<1>5. PICK m : m = Min2(a, b)
  OBVIOUS
<1>6. e < ENTRIES - 1 /\ <<a, e>> \in Tiles /\ b \in ptr[e] /\ b # a
  BY <1>1, <1>3, <1>4, BuddyIsFree
<1>7. PICK gone : gone = IF op.merge_count > 0 THEN {a, b} ELSE {b}
  OBVIOUS
<1>8. /\ ptr' = [ptr EXCEPT ![e] = @ \ gone, ![e + 1] = @ \cup {m}]
      /\ count' = [count EXCEPT ![e] = @ - Cardinality(gone), ![e + 1] = @ + 1]
      /\ post' = [post EXCEPT ![Last(m, e + 1)] = e + 1]
      /\ op' = [op EXCEPT !.blt = m, !.entry = e + 1, !.merge_count = @ + 1]
  BY <1>3, <1>4, <1>5, <1>7 DEF buddy_merge
<1>9. PICK t0, t1, t2 : t0 = <<m, e + 1>> /\ t1 = <<a, e>> /\ t2 = <<b, e>>
  OBVIOUS
<1>10. t1 \in Tiles /\ t2 \in FreeTiles /\ t2 \in Tiles /\ t1 # t2
  BY <1>2, <1>6, <1>9 DEF FreeTiles, Tiles
<1>11. /\ Tiling((Tiles \ {t1, t2}) \cup {t0})
       /\ t0 \notin Tiles /\ m \in Unit /\ e + 1 \in Entry
  BY <1>4, <1>5, <1>6, <1>9, <1>10, MergeTiling DEF BuddyInv
<1>12. e # e + 1
  BY <1>2
<1>13. /\ op' \in FreeOp /\ op'.kind = "free" /\ op'.blt = m /\ op'.entry = e + 1
       /\ op'.merge_count > 0 /\ op'.merge_count # 0
  <2>1. op' = [kind |-> "free", blt |-> m, entry |-> e + 1,
               merge_count |-> op.merge_count + 1]
    BY <1>1, <1>8 DEF FreeOp
  <2> QED
    BY <2>1, <1>2, <1>11 DEF FreeOp
<1>14. /\ ptr'[e] = ptr[e] \ gone /\ ptr'[e + 1] = ptr[e + 1] \cup {m}
       /\ \A f \in Entry : f # e /\ f # e + 1 => ptr'[f] = ptr[f]
  BY <1>2, <1>8, <1>11, <1>12
<1>15. /\ count'[e] = count[e] - Cardinality(gone) /\ count'[e + 1] = count[e + 1] + 1
       /\ \A f \in Entry : f # e /\ f # e + 1 => count'[f] = count[f]
  BY <1>2, <1>8, <1>11, <1>12
<1>16. gone \subseteq ptr[e] /\ IsFiniteSet(gone) /\ Cardinality(gone) \in {1, 2}
       /\ b \in gone /\ gone \subseteq {a, b}
  <2>1. CASE op.merge_count > 0
    <3>1. a \in ptr[e]
      BY <2>1, <1>1, <1>3 DEF BuddyInv, UnderWay
    <3>2. gone = {b} \cup {a} /\ a \notin {b} /\ IsFiniteSet({b}) /\ Cardinality({b}) = 1
      BY <2>1, <1>6, <1>7, FS_Singleton
    <3>3. IsFiniteSet({b} \cup {a}) /\ Cardinality({b} \cup {a}) = 2
      BY <3>2, FS_AddElement
    <3> QED
      BY <3>1, <3>2, <3>3, <1>6
  <2>2. CASE ~(op.merge_count > 0)
    BY <2>2, <1>6, <1>7, FS_Singleton
  <2> QED
    BY <2>1, <2>2
<1>17. /\ FreeTiles' = (FreeTiles \ {t1, t2}) \cup {t0}
       /\ HeldTiles' = {} /\ LiveTiles' = LiveTiles
       /\ t1 \in FreeTiles \/ HeldTiles = {t1}
       /\ HeldTiles \subseteq {t1}
  <2>1. HeldTiles' = {} /\ LiveTiles' = LiveTiles
    BY <1>1, <1>13 DEF HeldTiles, LiveTiles
  <2>2. CASE op.merge_count > 0
    <3>1. gone = {a, b} /\ HeldTiles = {}
      BY <2>2, <1>2, <1>7 DEF HeldTiles
    <3>2. FreeTiles' = (FreeTiles \ {t1, t2}) \cup {t0}
      <4>1. ASSUME NEW t \in Unit \X Entry
            PROVE  t \in FreeTiles' <=> t \in (FreeTiles \ {t1, t2}) \cup {t0}
        <5>1. t = <<t[1], t[2]>> /\ t[1] \in Unit /\ t[2] \in Entry
          OBVIOUS
        <5>2. CASE t[2] = e
          BY <5>1, <5>2, <3>1, <1>9, <1>12, <1>14 DEF FreeTiles
        <5>3. CASE t[2] = e + 1
          BY <5>1, <5>3, <1>9, <1>12, <1>14 DEF FreeTiles
        <5>4. CASE t[2] # e /\ t[2] # e + 1
          BY <5>1, <5>4, <1>9, <1>14 DEF FreeTiles
        <5> QED
          BY <5>2, <5>3, <5>4
      <4>2. t0 \in Unit \X Entry
        BY <1>9, <1>11
      <4>3. FreeTiles' \subseteq Unit \X Entry /\ FreeTiles \subseteq Unit \X Entry
        BY DEF FreeTiles
      <4> QED
        BY <4>1, <4>2, <4>3
    <3>3. t1 \in FreeTiles
      BY <3>1, <1>9, <1>16 DEF FreeTiles
    <3> QED
      BY <2>1, <3>1, <3>2, <3>3
  <2>3. CASE ~(op.merge_count > 0)
    <3>1. gone = {b} /\ HeldTiles = {t1}
      BY <2>3, <1>1, <1>2, <1>3, <1>7, <1>9 DEF HeldTiles
    <3>2. t1 \notin FreeTiles
      BY <3>1 DEF BuddyInv, Apart
    <3>3. FreeTiles' = (FreeTiles \ {t1, t2}) \cup {t0}
      <4>1. ASSUME NEW t \in Unit \X Entry
            PROVE  t \in FreeTiles' <=> t \in (FreeTiles \ {t1, t2}) \cup {t0}
        <5>1. t = <<t[1], t[2]>> /\ t[1] \in Unit /\ t[2] \in Entry
          OBVIOUS
        <5>2. CASE t[2] = e
          BY <5>1, <5>2, <3>1, <3>2, <1>9, <1>12, <1>14 DEF FreeTiles
        <5>3. CASE t[2] = e + 1
          BY <5>1, <5>3, <1>9, <1>12, <1>14 DEF FreeTiles
        <5>4. CASE t[2] # e /\ t[2] # e + 1
          BY <5>1, <5>4, <1>9, <1>14 DEF FreeTiles
        <5> QED
          BY <5>2, <5>3, <5>4
      <4>2. t0 \in Unit \X Entry
        BY <1>9, <1>11
      <4>3. FreeTiles' \subseteq Unit \X Entry /\ FreeTiles \subseteq Unit \X Entry
        BY DEF FreeTiles
      <4> QED
        BY <4>1, <4>2, <4>3
    <3> QED
      BY <2>1, <3>1, <3>3
  <2> QED
    BY <2>2, <2>3
<1>18. t1 \notin LiveTiles /\ t2 \notin LiveTiles
  BY <1>10, <1>17 DEF BuddyInv, Apart
<1>19. Tiles' = (Tiles \ {t1, t2}) \cup {t0}
  BY <1>17, <1>18 DEF Tiles
<1>20. Tiling(Tiles')
  BY <1>11, <1>19
<1>21. BuddyTypeOK'
  <2>1. ptr' \in [Entry -> SUBSET Unit]
    BY <1>2, <1>8, <1>11
  <2>2. count' \in [Entry -> Int]
    <3>1. count[e] - Cardinality(gone) \in Int /\ count[e + 1] + 1 \in Int
      BY <1>2, <1>11, <1>16
    <3>2. count' = [count EXCEPT ![e] = count[e] - Cardinality(gone),
                                 ![e + 1] = count[e + 1] + 1]
      BY <1>2, <1>8, <1>11, <1>12
    <3> QED
      BY <3>1, <3>2, <1>2
  <2>3. post' \in [Unit -> Nat]
    BY <1>2, <1>8, <1>11
  <2> QED
    BY <2>1, <2>2, <2>3, <1>1, <1>13 DEF BuddyInv, BuddyTypeOK
<1>22. Apart'
  <2>1. FreeTiles' \cap LiveTiles' = {}
    BY <1>11, <1>17 DEF BuddyInv, Apart, Tiles
  <2> QED
    BY <2>1, <1>1, <1>17 DEF BuddyInv, Apart
<1>23. Counted'
  <2>1. \A f \in Entry : count[f] = Cardinality(ptr[f]) /\ IsFiniteSet(ptr[f])
    BY ListFinite DEF BuddyInv, Counted
  <2>2. Cardinality(ptr[e] \ gone) = Cardinality(ptr[e]) - Cardinality(gone)
    <3>1. ptr[e] \cap gone = gone
      BY <1>16
    <3>2. Cardinality(ptr[e] \ gone) = Cardinality(ptr[e]) - Cardinality(ptr[e] \cap gone)
      BY <2>1, FS_Difference
    <3> QED
      BY <3>1, <3>2
  <2>3. Cardinality(ptr[e + 1] \cup {m}) = Cardinality(ptr[e + 1]) + 1
    <3>1. m \notin ptr[e + 1]
      BY <1>9, <1>11 DEF Tiles, FreeTiles
    <3> QED
      BY <2>1, <3>1, <1>11, FS_AddElement
  <2>4. ASSUME NEW f \in Entry PROVE count'[f] = Cardinality(ptr'[f])
    <3>1. CASE f = e
      BY <3>1, <2>1, <2>2, <1>14, <1>15
    <3>2. CASE f = e + 1
      BY <3>2, <2>1, <2>3, <1>14, <1>15
    <3>3. CASE f # e /\ f # e + 1
      BY <3>3, <2>1, <1>14, <1>15
    <3> QED
      BY <3>1, <3>2, <3>3
  <2> QED
    BY <2>4 DEF Counted
<1>24. Marked'
  <2>1. End(t0) = Last(m, e + 1) /\ t0[2] = e + 1 /\ t0 \in Tiles' /\ End(t0) \in Unit
    <3>1. t0 \in Tiles'
      BY <1>19
    <3>2. End(t0) \in Unit
      BY <3>1, <1>20, EndsInPool
    <3> QED
      BY <3>1, <3>2, <1>9 DEF End
  <2>2. \A s \in Tiles' : End(s) \in Unit /\ (s # t0 => End(s) # End(t0))
    BY <2>1, <1>20, EndsApart, EndsInPool
  <2>3. \A s \in Tiles' : s # t0 => post'[End(s)] = post[End(s)]
    BY <2>1, <2>2, <1>2, <1>8
  <2>4. post'[End(t0)] = t0[2]
    BY <2>1, <1>2, <1>8
  <2>5. \A t \in FreeTiles' : post'[End(t)] = t[2]
    BY <2>3, <2>4, <1>17, <1>19 DEF BuddyInv, Marked, Tiles
  <2>6. \A t \in LiveTiles' : t \in Tiles' /\ t # t0
    BY <1>11, <1>17 DEF Tiles
  <2>7. \A t \in LiveTiles' : post'[End(t)] = USED
    BY <2>3, <2>6, <1>17 DEF BuddyInv, Marked
  <2> QED
    BY <2>5, <2>7 DEF Marked
<1>25. UnderWay'
  BY <1>13, <1>14 DEF UnderWay
<1>26. Merged'
  <2>1. SUFFICES ASSUME NEW f \in Entry, f < ENTRIES - 1, NEW x \in ptr'[f],
                        BuddyOf(x, f) \in ptr'[f]
                 PROVE  f = e + 1 /\ m \in {x, BuddyOf(x, f)}
    BY <1>13 DEF Merged
  <2>2. x \in ptr[f] /\ BuddyOf(x, f) \in ptr[f] =>
            op.merge_count > 0 /\ f = e /\ a \in {x, BuddyOf(x, f)}
    BY <2>1, <1>1, <1>3 DEF BuddyInv, Merged
  <2>3. CASE f = e
    <3>1. x \in ptr[f] /\ BuddyOf(x, f) \in ptr[f] /\ x \notin gone /\ BuddyOf(x, f) \notin gone
      BY <2>1, <2>3, <1>14
    <3> QED
      BY <3>1, <2>2, <1>7
  <2>4. CASE f = e + 1
    <3>1. ~(x \in ptr[f] /\ BuddyOf(x, f) \in ptr[f])
      BY <2>2, <2>4, <1>12
    <3> QED
      BY <3>1, <2>1, <2>4, <1>14
  <2>5. CASE f # e /\ f # e + 1
    BY <2>1, <2>2, <2>5, <1>14
  <2> QED
    BY <2>3, <2>4, <2>5
<1> QED
  BY <1>20, <1>21, <1>22, <1>23, <1>24, <1>25, <1>26 DEF BuddyInv

LEMMA NextBuddyInv == BuddyInv /\ [Next]_vars => BuddyInv'
<1> SUFFICES ASSUME BuddyInv, [Next]_vars PROVE BuddyInv'
  OBVIOUS
<1>1. CASE \E size \in Sizes : malloc(size)
  BY <1>1, MallocKeeps
<1>2. CASE \E size \in Sizes : malloc_panic(size)
  BY <1>2, MallocPanicKeeps
<1>3. CASE \E b \in live : free(b)
  BY <1>3, FreeKeeps
<1>4. CASE buddy_split
  BY <1>4, BuddySplitKeeps
<1>5. CASE malloc_take
  BY <1>5, MallocTakeKeeps
<1>6. CASE buddy_merge
  BY <1>6, BuddyMergeKeeps
<1>7. CASE free_add
  BY <1>7, FreeAddKeeps
<1>8. CASE free_merged
  BY <1>8, FreeMergedKeeps
<1>9. CASE UNCHANGED vars
  <2>1. /\ ptr' = ptr /\ count' = count /\ post' = post /\ live' = live /\ op' = op
        /\ panicked' = panicked
    BY <1>9 DEF vars
  <2>2. FreeTiles' = FreeTiles /\ LiveTiles' = LiveTiles /\ HeldTiles' = HeldTiles
    BY <2>1 DEF FreeTiles, LiveTiles, HeldTiles
  <2>3. BuddyTypeOK'
    BY <2>1 DEF BuddyInv, BuddyTypeOK
  <2> QED
    BY <2>1, <2>2, <2>3 DEF BuddyInv, Tiles, Tiling, Apart, Counted, Marked, UnderWay, Merged
<1> QED
  BY <1>1, <1>2, <1>3, <1>4, <1>5, <1>6, <1>7, <1>8, <1>9 DEF Next, Step

LEMMA BuddyInvariant == Spec => []BuddyInv
BY InitBuddyInv, NextBuddyInv, PTL DEF Spec

-----------------------------------------------------------------------------
(* The theorems                                                            *)

LEMMA InvPartition == BuddyInv => Partition
<1> SUFFICES ASSUME BuddyInv, op = Idle PROVE Partition
  BY DEF Partition
<1>1. HeldTiles = {} /\ Tiles = FreeTiles \cup LiveTiles
  BY DEF HeldTiles, Tiles, Idle
<1>2. ASSUME NEW u \in Unit
      PROVE  Cardinality({f \in FreeBlocks : IsFree(f) /\ u \in Block(f.addr, f.entry)})
             + Cardinality({b \in live : u \in Block(b.addr, b.entry)}) = 1
  <2> DEFINE F == {f \in FreeBlocks : IsFree(f) /\ u \in Block(f.addr, f.entry)}
             L == {b \in live : u \in Block(b.addr, b.entry)}
  <2>1. PICK t \in Tiles : u \in Ext(t) /\ \A s \in Tiles : u \in Ext(s) => s = t
    BY DEF BuddyInv, Tiling
  <2>2. \A f \in F : /\ <<f.addr, f.entry>> \in FreeTiles
                     /\ <<f.addr, f.entry>> = t
                     /\ f = [addr |-> f.addr, entry |-> f.entry]
    <3>1. SUFFICES ASSUME NEW f \in F
                   PROVE  /\ <<f.addr, f.entry>> \in FreeTiles
                          /\ <<f.addr, f.entry>> = t
                          /\ f = [addr |-> f.addr, entry |-> f.entry]
      OBVIOUS
    <3>2. PICK a \in Unit, e \in Entry : f = [addr |-> a, entry |-> e]
      BY DEF FreeBlocks
    <3>3. f.addr = a /\ f.entry = e /\ a \in ptr[e] /\ u \in Block(a, e)
      BY <3>2 DEF IsFree
    <3>4. <<a, e>> \in FreeTiles /\ u \in Ext(<<a, e>>)
      BY <3>3 DEF FreeTiles, Ext
    <3> QED
      BY <3>2, <3>3, <3>4, <2>1, <1>1
  <2>3. \A b \in L : <<b.addr, b.entry>> \in LiveTiles /\ <<b.addr, b.entry>> = t
    <3>1. \A b \in L : <<b.addr, b.entry>> \in LiveTiles /\ u \in Ext(<<b.addr, b.entry>>)
      BY DEF LiveTiles, Ext
    <3> QED
      BY <3>1, <2>1, <1>1
  <2>4. CASE t \in FreeTiles
    <3>1. L = {}
      BY <2>3, <2>4 DEF BuddyInv, Apart
    <3>2. PICK r : r = [addr |-> t[1], entry |-> t[2]]
      OBVIOUS
    <3>3. r \in F
      BY <3>2, <2>1, <2>4 DEF FreeTiles, FreeBlocks, IsFree, Ext
    <3>4. ASSUME NEW f \in F PROVE f = r
      <4>1. <<f.addr, f.entry>> = t /\ f = [addr |-> f.addr, entry |-> f.entry]
        BY <2>2
      <4>2. t[1] = f.addr /\ t[2] = f.entry
        BY <4>1
      <4> QED
        BY <3>2, <4>1, <4>2
    <3>5. F = {r}
      BY <3>3, <3>4
    <3> HIDE DEF F, L
    <3>6. Cardinality(F) = 1 /\ Cardinality(L) = 0
      BY <3>1, <3>5, FS_EmptySet, FS_Singleton
    <3>7. Cardinality(F) + Cardinality(L) = 1
      BY <3>6
    <3> QED
      BY <3>7 DEF F, L
  <2>5. CASE t \in LiveTiles
    <3>1. F = {}
      BY <2>2, <2>5 DEF BuddyInv, Apart
    <3>2. PICK b \in live : t = <<b.addr, b.entry>>
      BY <2>5 DEF LiveTiles
    <3>3. b \in L
      BY <3>2, <2>1 DEF Ext
    <3>4. \A c \in L : c.addr = b.addr /\ c.entry = b.entry
      BY <3>2, <2>3
    <3>5. \A c \in L : c = b
      BY <3>4 DEF BuddyInv, Apart
    <3>6. L = {b}
      BY <3>3, <3>5
    <3> HIDE DEF F, L
    <3>7. Cardinality(F) = 0 /\ Cardinality(L) = 1
      BY <3>1, <3>6, FS_EmptySet, FS_Singleton
    <3>8. Cardinality(F) + Cardinality(L) = 1
      BY <3>7
    <3> QED
      BY <3>8 DEF F, L
  <2> QED
    BY <2>4, <2>5, <1>1
<1>3. \A e \in Entry : count[e] = Cardinality(ptr[e])
  BY DEF BuddyInv, Counted
<1>4. \A f \in FreeBlocks : IsFree(f) => post[Last(f.addr, f.entry)] = f.entry
  <2>1. SUFFICES ASSUME NEW a \in Unit, NEW e \in Entry, a \in ptr[e]
                 PROVE  post[Last(a, e)] = e
    BY DEF FreeBlocks, IsFree
  <2>2. <<a, e>> \in FreeTiles
    BY <2>1 DEF FreeTiles
  <2> QED
    BY <2>2 DEF BuddyInv, Marked, End
<1>5. \A b \in live : post[Last(b.addr, b.entry)] = USED
  BY DEF BuddyInv, Marked, LiveTiles, End
<1> QED
  BY <1>2, <1>3, <1>4, <1>5 DEF Partition

\* Whatever sizes are asked for, in whatever order blocks are freed and
\* whatever callers write in them, malloc and free lose no memory and hand
\* none out twice: whenever mm_lock is free, every unit of the pool is in
\* exactly one block, every list has its count, and every postamble tells the
\* state of its block.
THEOREM BuddyPartition == Spec => []Partition
BY BuddyInvariant, InvPartition, PTL

\* Where no block of this entry or a larger one is free and nothing is in use,
\* the smallest free block has a free buddy.
LEMMA InvNoFalseOom == BuddyInv => NoFalseOom
<1> SUFFICES ASSUME BuddyInv, Ready, NEW size \in Sizes, NEW e, e = EntryFor(size),
                    NEW a \in Unit, a % 2 ^ e = 0,
                    \A b \in live : Block(b.addr, b.entry) \cap Block(a, e) = {},
                    \A f \in Entry : f >= e => count[f] = 0
             PROVE  FALSE
  BY EntryForIs DEF NoFalseOom
<1>1. e \in Entry /\ e \in Nat /\ a \in Nat /\ Unit \subseteq Nat /\ Entry \subseteq Nat
      /\ ENTRIES - 1 \in Nat /\ e <= ENTRIES - 1
  BY EntryForIs, PoolIsBlock, BuddyAssumption DEF Entry
<1>2. Aligned(a, e)
  <2>1. PICK p \in Nat \ {0} : p = 2 ^ e
    BY <1>1, PowPositive
  <2>2. PICK q \in Nat : a = q * p
    <3>1. a % p = 0
      BY <2>1
    <3>2. a = p * (a \div p) + (a % p) /\ a \div p \in Nat
      BY <1>1
    <3>3. PICK q \in Nat : q = a \div p
      BY <3>2
    <3>4. a = q * p
      BY <3>1, <3>2, <3>3
    <3> QED
      BY <3>4
  <2> QED
    BY <2>1, <2>2 DEF Aligned
<1>3. a \in Block(a, e) /\ Block(a, e) \subseteq Unit
  <2>1. a \in Block(a, e)
    BY <1>1, BlockIs
  <2>2. Block(a, e) \cap Block(0, ENTRIES - 1) # {}
    BY <2>1, PoolIsBlock
  <2> QED
    BY <2>1, <2>2, <1>1, <1>2, BlocksNest, PoolIsBlock
<1>4. HeldTiles = {} /\ op.kind = "idle"
  BY DEF HeldTiles, Ready, Idle
<1>5. ASSUME NEW t \in Tiles, Ext(t) \cap Block(a, e) # {}
      PROVE  t \in FreeTiles /\ t[2] < e
  <2>1. t \in FreeTiles
    BY <1>4, <1>5 DEF Tiles, LiveTiles, Ext
  <2>2. t[2] \in Entry /\ t[1] \in ptr[t[2]]
    BY <2>1 DEF FreeTiles
  <2>3. count[t[2]] # 0
    BY <2>2, ListFinite, FS_EmptySet DEF BuddyInv, Counted
  <2>4. ~(t[2] >= e)
    BY <2>2, <2>3
  <2>5. t[2] \in Nat
    BY <2>2, <1>1
  <2> QED
    BY <2>1, <2>4, <2>5, <1>1
<1> DEFINE G == {t[2] : t \in {s \in Tiles : Ext(s) \cap Block(a, e) # {}}}
<1>6. G # {} /\ G \subseteq Nat
  <2>1. PICK t \in Tiles : a \in Ext(t)
    BY DEF BuddyInv, Tiling
  <2>2. t[2] \in G
    BY <2>1, <1>3
  <2>3. \A s \in Tiles : s[2] \in Nat
    BY <1>1 DEF BuddyInv, Tiling
  <2> QED
    BY <2>2, <2>3
<1>7. PICK s \in Tiles : Ext(s) \cap Block(a, e) # {} /\ \A g \in G : s[2] <= g
  <2>1. PICK g \in G : \A h \in G : g <= h
    BY <1>6, LeastNat
  <2> QED
    BY <2>1
<1>8. PICK x \in Unit, g \in Entry : s = <<x, g>> /\ x \in ptr[g] /\ g < e
  BY <1>5, <1>7 DEF FreeTiles
<1>9. Aligned(x, g) /\ x \in Nat /\ g \in Nat
  BY <1>1, <1>7, <1>8 DEF BuddyInv, Tiling
<1>10. PICK b \in Nat : b = BuddyOf(x, g) /\ Aligned(b, g) /\ BuddyOf(b, g) = x
  BY <1>9, BuddyTwice
<1>11. Block(b, g) \subseteq Block(a, e)
  BY <1>1, <1>2, <1>7, <1>8, <1>9, <1>10, BuddyWithin DEF Ext
<1>12. b \in Block(b, g) /\ b \in Unit
  BY <1>3, <1>9, <1>10, <1>11, BlockIs
<1>13. PICK t \in Tiles : b \in Ext(t)
  BY <1>12 DEF BuddyInv, Tiling
<1>14. /\ t \in FreeTiles /\ t = <<t[1], t[2]>> /\ t[1] \in ptr[t[2]]
       /\ t[1] \in Nat /\ t[2] \in Nat /\ Aligned(t[1], t[2]) /\ g <= t[2]
  <2>1. Ext(t) \cap Block(a, e) # {}
    BY <1>11, <1>12, <1>13
  <2>2. t \in FreeTiles /\ t[2] \in G
    BY <2>1, <1>5
  <2>3. g <= t[2]
    BY <2>2, <1>7, <1>8
  <2>4. t \in Unit \X Entry /\ t[1] \in ptr[t[2]]
    BY <2>2 DEF FreeTiles
  <2>5. Aligned(t[1], t[2])
    BY DEF BuddyInv, Tiling
  <2>6. t = <<t[1], t[2]>> /\ t[1] \in Nat /\ t[2] \in Nat
    <3>1. t = <<t[1], t[2]>> /\ t[1] \in Unit /\ t[2] \in Entry
      BY <2>4
    <3> QED
      BY <3>1, <1>1
  <2> QED
    BY <2>2, <2>3, <2>4, <2>5, <2>6
<1>15. Block(b, g) \cap Block(t[1], t[2]) # {}
  BY <1>12, <1>13 DEF Ext
<1>16. t[2] = g
  <2>1. SUFFICES ASSUME g < t[2] PROVE FALSE
    BY <1>9, <1>14
  <2>2. Block(x, g) \subseteq Block(t[1], t[2])
    BY <2>1, <1>9, <1>10, <1>14, <1>15, BuddyWithin
  <2>3. x \in Block(x, g)
    BY <1>9, BlockIs
  <2>4. Ext(s) \cap Ext(t) # {}
    BY <2>2, <2>3, <1>8 DEF Ext
  <2>5. s = t
    BY <2>4 DEF BuddyInv, Tiling
  <2> QED
    BY <2>1, <2>5, <1>8, <1>9
<1>17. t[1] = b
  BY <1>9, <1>10, <1>14, <1>15, <1>16, BlocksNest
<1>18. x \in ptr[g] /\ BuddyOf(x, g) \in ptr[g] /\ g < ENTRIES - 1
  BY <1>1, <1>8, <1>9, <1>10, <1>14, <1>16, <1>17
<1> QED
  BY <1>4, <1>18 DEF BuddyInv, Merged

\* panic("out of memory") is never premature, for any pool and any history of
\* calls: a free aligned part of the pool of the size asked for is found,
\* because every pair of free buddies has been merged.
THEOREM BuddyNoFalseOom == Spec => []NoFalseOom
BY BuddyInvariant, InvNoFalseOom, PTL

\* A step of the allocator is a step of the abstract heap or changes nothing
\* there: malloc_take is its Malloc, free its Free.
LEMMA HeapStep ==
    ASSUME BuddyInv, [Next]_vars
    PROVE  [HeapOf!Next]_{[units |-> Block(b.addr, b.entry), size |-> b.size] : b \in live}
<1> DEFINE Of(b) == [units |-> Block(b.addr, b.entry), size |-> b.size]
           used == {Of(b) : b \in live}
<1>1. ASSUME live' = live PROVE used' = used
  BY <1>1
<1>2. CASE malloc_take
  <2>1. PICK a \in ptr[op.entry] :
           live' = live \cup {[addr |-> a, entry |-> op.entry, size |-> op.size]}
    BY <1>2 DEF malloc_take
  <2>2. op \in MallocOp /\ op.split_count = 0
    BY <1>2, OpKinds DEF malloc_take, BuddyInv
  <2>3. PICK e \in Entry, z \in Sizes : e = op.entry /\ z = op.size
    BY <2>2 DEF MallocOp
  <2>4. e = EntryFor(z)
    <3>1. e = EntryFor(z) + 0
      BY <2>2, <2>3 DEF BuddyInv, UnderWay, MallocOp
    <3>2. EntryFor(z) \in Nat
      BY EntryForIs, PoolIsBlock
    <3> QED
      BY <3>1, <3>2
  <2>5. PICK t : t = <<a, e>>
    OBVIOUS
  <2>6. t \in FreeTiles /\ t \in Tiles /\ a \in Unit /\ a \in Nat /\ e \in Nat
    BY <2>1, <2>3, <2>5, PoolIsBlock DEF BuddyInv, BuddyTypeOK, FreeTiles, Tiles
  <2>7. Block(a, e) \subseteq Unit /\ a \in Block(a, e)
    BY <2>5, <2>6, BlockIs DEF BuddyInv, Tiling, Ext
  <2>8. \A b \in live : Block(b.addr, b.entry) \cap Block(a, e) = {}
    <3>1. SUFFICES ASSUME NEW b \in live PROVE Block(b.addr, b.entry) \cap Block(a, e) = {}
      OBVIOUS
    <3>2. <<b.addr, b.entry>> \in LiveTiles
      BY DEF LiveTiles
    <3>3. <<b.addr, b.entry>> # t /\ <<b.addr, b.entry>> \in Tiles
      BY <3>2, <2>6 DEF BuddyInv, Apart, Tiles
    <3>4. Ext(<<b.addr, b.entry>>) \cap Ext(t) = {}
      BY <3>3, <2>6 DEF BuddyInv, Tiling
    <3> QED
      BY <3>4, <2>5 DEF Ext
  <2>9. HoldsData(Block(a, e), z)
    <3>1. 2 ^ e \in Nat \ {0}
      BY <2>6, PowPositive
    <3>2. Cardinality(Block(a, e)) = 2 ^ e
      <4>1. a + 2 ^ e - 1 \in Int /\ a <= a + 2 ^ e - 1
        BY <3>1, <2>6
      <4>2. Cardinality(a .. a + 2 ^ e - 1) = (a + 2 ^ e - 1) - a + 1
        BY <4>1, <2>6, FS_Interval
      <4> QED
        BY <4>2, <3>1, <2>6 DEF Block
    <3>3. z + 9 <= 2 ^ e * MIN_BLK /\ z \in Nat
      BY <2>4, EntryForIs, BuddyAssumption
    <3>4. PICK x \in Nat : x = 2 ^ e * MIN_BLK
      BY <3>1, BuddyAssumption
    <3>5. x >= z + 8 + 1
      BY <3>3, <3>4
    <3> QED
      BY <3>2, <3>4, <3>5 DEF HoldsData
  <2>10. used' = used \cup {[units |-> Block(a, e), size |-> z]}
    <3>1. PICK r : r = [addr |-> a, entry |-> e, size |-> z]
      OBVIOUS
    <3>2. live' = live \cup {r} /\ Of(r) = [units |-> Block(a, e), size |-> z]
      BY <3>1, <2>1, <2>3
    <3> QED
      BY <3>2
  <2>11. \A c \in used : c.units \cap Block(a, e) = {}
    BY <2>8
  <2>12. Block(a, e) \in (SUBSET Unit) \ {{}}
    BY <2>7
  <2>13. HeapOf!Malloc(Block(a, e), z)
    BY <2>9, <2>10, <2>11 DEF HeapOf!Malloc
  <2> QED
    BY <2>12, <2>13 DEF HeapOf!Next
<1>3. ASSUME NEW b \in live, free(b) PROVE HeapOf!Next
  <2>1. live' = live \ {b}
    BY <1>3 DEF free
  <2>2. Of(b) \in used
    OBVIOUS
  <2>3. \A c \in live : c # b => Of(c) # Of(b)
    <3>1. SUFFICES ASSUME NEW c \in live, c # b
                   PROVE  Block(c.addr, c.entry) # Block(b.addr, b.entry)
      OBVIOUS
    <3>2. PICK s, t : s = <<c.addr, c.entry>> /\ t = <<b.addr, b.entry>>
      OBVIOUS
    <3>3. s \in Tiles /\ t \in Tiles
      BY <3>2 DEF LiveTiles, Tiles
    <3>4. s # t
      BY <3>1, <3>2 DEF BuddyInv, Apart
    <3>5. t \in Unit \X Entry /\ Ext(s) \cap Ext(t) = {}
      BY <3>3, <3>4 DEF BuddyInv, Tiling
    <3>6. t[1] \in Ext(t)
      BY <3>5, EndInside
    <3> QED
      BY <3>2, <3>5, <3>6 DEF Ext
  <2>4. used' = used \ {Of(b)}
    <3>1. used' \subseteq used \ {Of(b)}
      BY <2>1, <2>3
    <3>2. used \ {Of(b)} \subseteq used'
      BY <2>1
    <3> QED
      BY <3>1, <3>2
  <2>5. HeapOf!Free(Of(b))
    BY <2>4 DEF HeapOf!Free
  <2> QED
    BY <2>2, <2>5 DEF HeapOf!Next
<1>4. CASE ~malloc_take /\ ~\E b \in live : free(b)
  <2>1. live' = live
    BY <1>4 DEF Next, Step, malloc, malloc_panic, buddy_split, buddy_merge, free_add,
                free_merged, vars
  <2> QED
    BY <2>1
<1> QED
  BY <1>2, <1>3, <1>4

\* The buddy system implements the abstract heap, for every pool: malloc
\* returns memory that no block in use overlaps and that holds what was asked
\* for with its preamble and postamble, and only free gives it back.
THEOREM BuddyImplementsHeap == Spec => ImplementsHeap
<1>1. Init => HeapOf!Init
  BY DEF Init, HeapOf!Init
<1>2. BuddyInv /\ [Next]_vars =>
      [HeapOf!Next]_{[units |-> Block(b.addr, b.entry), size |-> b.size] : b \in live}
  BY HeapStep
<1> QED
  BY <1>1, <1>2, BuddyInvariant, PTL DEF Spec, ImplementsHeap, HeapOf!Spec
=============================================================================
