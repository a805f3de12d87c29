--------------------------- MODULE MemoryProofs ----------------------------
(***************************************************************************)
(* What holds of the allocator of pages and of the file system in memory,  *)
(* for every value of the constants.  The two have nothing to do with each *)
(* other; their proofs share what is said of powers of 2 and of sets of    *)
(* natural numbers.                                                        *)
(*                                                                         *)
(* Whatever the order of allocations and frees, the blocks, free or in     *)
(* use, are a partition of the memory until a free merges with a buddy     *)
(* that is not free as a block of the same order, and that free always     *)
(* takes pages in use.                                                     *)
(*                                                                         *)
(* No call of the file system loses a node or memory, and its linked nodes *)
(* implement a tree that is changed under one path at a time.              *)
(***************************************************************************)
EXTENDS BuddyProps, RamFsProps, Integers, FiniteSetTheorems, SequenceTheorems,
        WellFoundedInduction, TLAPS

-----------------------------------------------------------------------------
(***************************************************************************)
(* Powers of 2.                                                            *)
(***************************************************************************)
\* Every set of natural numbers that is not empty has a least element.
LEMMA LeastExists ==
  ASSUME NEW S \in SUBSET Nat, S # {}
  PROVE  \E i \in S : \A j \in S : i <= j
<1> DEFINE Before == {ij \in Nat \X Nat : ij[1] < ij[2]}
<1>1. Before = OpToRel(<, Nat)
  BY DEF OpToRel
<1>2. IsWellFoundedOn(Before, Nat)
  BY <1>1, NatLessThanWellFounded
<1>3. \A a, b \in Nat : a < b => <<a, b>> \in Before
  OBVIOUS
<1> HIDE DEF Before
<1>4. PICK i \in S : \A j \in S : ~ (<<j, i>> \in Before)
  BY <1>2, WFMin
<1>5. ASSUME NEW j \in S
      PROVE  i <= j
  <2>1. i \in Nat /\ j \in Nat
    OBVIOUS
  <2>2. ~ (j < i)
    BY <2>1, <1>3, <1>4
  <2> QED BY <2>1, <2>2
<1> QED BY <1>5

\* Induction, for a property given as a set.
LEMMA NatInduct ==
  ASSUME NEW S, 0 \in S, \A n \in Nat : n \in S => n + 1 \in S
  PROVE  Nat \subseteq S
<1> DEFINE Others == {n \in Nat : n \notin S}
<1>1. ASSUME Others # {}
      PROVE  FALSE
  <2>1. PICK n \in Others : \A k \in Others : n <= k
    BY <1>1, LeastExists
  <2>2. n # 0 /\ n - 1 \in Nat /\ n - 1 \notin Others
    BY <2>1
  <2>3. n - 1 \in S /\ (n - 1) + 1 = n
    BY <2>2
  <2> QED BY <2>1, <2>2, <2>3
<1> QED BY <1>1

\* A set of k elements has 2^k subsets: what is known of powers of 2.
LEMMA PowerType ==
  ASSUME NEW k \in Nat
  PROVE  2^k \in Nat \ {0} /\ 2^0 = 1
<1>1. IsFiniteSet(1 .. k) /\ Cardinality(1 .. k) = k
  BY FS_Interval
<1>2. IsFiniteSet(SUBSET (1 .. k)) /\ Cardinality(SUBSET (1 .. k)) = 2^k
  BY <1>1, FS_SUBSET
<1>3. 2^k \in Nat
  BY <1>2, FS_CardinalityType
<1>4. 2^k # 0
  BY <1>2, FS_EmptySet
<1> QED BY <1>3, <1>4

LEMMA PowerNext ==
  ASSUME NEW k \in Nat
  PROVE  2^(k + 1) = 2^k + 2^k
<1> DEFINE A == SUBSET (1 .. k)
           B == {x \cup {k + 1} : x \in A}
           f == [x \in A |-> x \cup {k + 1}]
<1>1. /\ IsFiniteSet(1 .. k) /\ Cardinality(1 .. k) = k
      /\ IsFiniteSet(1 .. k + 1) /\ Cardinality(1 .. k + 1) = k + 1
  BY FS_Interval
<1>2. /\ IsFiniteSet(A) /\ Cardinality(A) = 2^k
      /\ Cardinality(SUBSET (1 .. k + 1)) = 2^(k + 1)
  BY <1>1, FS_SUBSET
<1>3. SUBSET (1 .. k + 1) = A \cup B
  <2>1. 1 .. k + 1 = (1 .. k) \cup {k + 1}
    OBVIOUS
  <2>2. ASSUME NEW y \in SUBSET (1 .. k + 1)
        PROVE  y \in A \cup B
    <3>1. CASE k + 1 \in y
      <4>1. y \ {k + 1} \in A /\ y = (y \ {k + 1}) \cup {k + 1}
        BY <2>1, <3>1
      <4> QED BY <4>1
    <3>2. CASE k + 1 \notin y
      BY <2>1, <3>2
    <3> QED BY <3>1, <3>2
  <2>3. ASSUME NEW y \in A \cup B
        PROVE  y \in SUBSET (1 .. k + 1)
    BY <2>1
  <2> QED BY <2>2, <2>3
<1>4. A \cap B = {}
  <2>1. \A x \in A : k + 1 \notin x
    OBVIOUS
  <2> QED BY <2>1
<1>5. ExistsBijection(A, B)
  <2>1. f \in Bijection(A, B)
    <3>1. \A x \in A : k + 1 \notin x
      OBVIOUS
    <3>2. ASSUME NEW x \in A, NEW y \in A, f[x] = f[y]
          PROVE  x = y
      BY <3>1, <3>2
    <3>3. f \in Surjection(A, B)
      BY DEF Surjection
    <3> QED BY <3>2, <3>3 DEF Bijection, Injection, IsInjective, Surjection
  <2> QED BY <2>1 DEF ExistsBijection
<1> HIDE DEF A, B, f
<1>6. IsFiniteSet(B) /\ Cardinality(B) = Cardinality(A)
  BY <1>2, <1>5, FS_Bijection
<1>7. Cardinality(A \cup B) = Cardinality(A) + Cardinality(B) - Cardinality({})
  BY <1>2, <1>4, <1>6, FS_Union
<1>8. Cardinality({}) = 0
  BY FS_EmptySet
<1>9. 2^k \in Nat
  BY PowerType
<1>10. Cardinality(A \cup B) = 2^k + 2^k
  BY <1>2, <1>6, <1>7, <1>8, <1>9
<1>11. Cardinality(A \cup B) = 2^(k + 1)
  BY <1>2, <1>3
<1> QED BY <1>10, <1>11

\* A larger power of 2 is a multiple of a smaller one.
LEMMA PowerMultiple ==
  ASSUME NEW k \in Nat, NEW m \in Nat, k <= m
  PROVE  \E q \in Nat \ {0} : 2^m = 2^k * q
<1> DEFINE S == {d \in Nat : \E q \in Nat \ {0} : 2^(k + d) = 2^k * q}
<1>1. 2^k \in Nat \ {0} /\ k + 0 = k
  BY PowerType
<1>2. 0 \in S
  <2>1. 2^(k + 0) = 2^k * 1 /\ 1 \in Nat \ {0}
    BY <1>1
  <2> QED BY <2>1
<1>3. ASSUME NEW d \in Nat, d \in S
      PROVE  d + 1 \in S
  <2>1. PICK q \in Nat \ {0} : 2^(k + d) = 2^k * q
    BY <1>3
  <2>2. 2^((k + d) + 1) = 2^(k + d) + 2^(k + d)
    BY PowerNext
  <2>3. 2^k * (q + q) = 2^k * q + 2^k * q /\ (k + d) + 1 = k + (d + 1)
    BY <1>1
  <2>4. 2^(k + (d + 1)) = 2^k * (q + q) /\ q + q \in Nat \ {0}
    BY <2>1, <2>2, <2>3
  <2>5. d + 1 \in Nat
    OBVIOUS
  <2> QED BY <2>4, <2>5
<1>4. m - k \in S
  <2> HIDE DEF S
  <2>1. Nat \subseteq S /\ m - k \in Nat
    BY <1>2, <1>3, NatInduct
  <2> QED BY <2>1
<1>5. k + (m - k) = m
  OBVIOUS
<1> QED BY <1>4, <1>5

LEMMA PowerOrder ==
  ASSUME NEW k \in Nat, NEW m \in Nat
  PROVE  /\ k <= m => 2^k <= 2^m
         /\ k < m => 2^k + 2^k <= 2^m
<1>1. ASSUME NEW i \in Nat, NEW j \in Nat, i <= j
      PROVE  2^i <= 2^j
  <2>1. PICK q \in Nat \ {0} : 2^j = 2^i * q
    BY <1>1, PowerMultiple
  <2>2. 2^i \in Nat \ {0}
    BY PowerType
  <2>3. 2^i * q >= 2^i
    BY <2>2
  <2> QED BY <2>1, <2>3
<1>2. ASSUME k < m
      PROVE  2^k + 2^k <= 2^m
  <2>1. k + 1 \in Nat /\ k + 1 <= m
    BY <1>2
  <2>2. 2^(k + 1) <= 2^m
    BY <1>1, <2>1
  <2> QED BY <2>2, PowerNext
<1> QED BY <1>1, <1>2

\* Every number is between two successive powers of 2.
LEMMA PowerBetween ==
  ASSUME NEW k \in Nat, NEW m \in Nat, NEW x \in Int, 2^k <= x, x < 2^m
  PROVE  \E j \in k .. m - 1 : 2^j <= x /\ x < 2^j + 2^j
<1> DEFINE S == {j \in Nat : x < 2^j}
<1>1. m \in S
  OBVIOUS
<1>2. PICK j \in S : \A i \in S : j <= i
  BY <1>1, LeastExists
<1>3. j > k
  <2>1. CASE j <= k
    <3>1. 2^j <= 2^k /\ 2^j \in Nat /\ 2^k \in Nat
      BY <2>1, PowerOrder, PowerType
    <3> QED BY <1>2, <3>1
  <2> QED BY <2>1
<1>4. j - 1 \in Nat /\ j - 1 \notin S /\ (j - 1) + 1 = j /\ j <= m
  BY <1>1, <1>2, <1>3
<1>5. 2^j = 2^(j - 1) + 2^(j - 1) /\ 2^(j - 1) \in Nat
  BY <1>4, PowerNext, PowerType
<1>6. 2^(j - 1) <= x /\ x < 2^(j - 1) + 2^(j - 1)
  BY <1>2, <1>4, <1>5
<1>7. j - 1 \in k .. m - 1
  BY <1>3, <1>4
<1> QED BY <1>6, <1>7

\* Multiples, and the remainder that tells them.
LEMMA MultipleIsFar ==
  ASSUME NEW N \in Nat \ {0}, NEW q \in Int, N * q < N, -N < N * q
  PROVE  q = 0
<1>1. CASE q >= 1
  <2>1. N * q >= N
    BY <1>1
  <2> QED BY <2>1
<1>2. CASE q <= -1
  <2>1. N * q <= -N
    BY <1>2
  <2> QED BY <2>1
<1> QED BY <1>1, <1>2

LEMMA Multiple ==
  ASSUME NEW N \in Nat \ {0}, NEW a \in Int
  PROVE  a % N = 0 <=> \E q \in Int : a = N * q
<1>1. a \div N \in Int /\ a = N * (a \div N) + (a % N) /\ a % N \in 0 .. N - 1
  OBVIOUS
<1>2. ASSUME a % N = 0
      PROVE  \E q \in Int : a = N * q
  BY <1>1, <1>2
<1>3. ASSUME NEW q \in Int, a = N * q
      PROVE  a % N = 0
  <2> DEFINE p == a \div N
             r == a % N
  <2>1. p \in Int /\ N * q = N * p + r /\ r \in 0 .. N - 1
    BY <1>1, <1>3
  <2> HIDE DEF p, r
  <2>2. N * (q - p) = N * q - N * p /\ N * p \in Int /\ N * q \in Int
    BY <2>1
  <2>3. N * (q - p) = r
    BY <2>1, <2>2
  <2>4. q - p \in Int /\ N * (q - p) < N /\ -N < N * (q - p)
    BY <2>1, <2>3
  <2>5. q - p = 0
    BY <2>4, MultipleIsFar
  <2>6. r = 0
    BY <2>1, <2>3, <2>5
  <2> QED BY <2>6 DEF r
<1> QED BY <1>2, <1>3

-----------------------------------------------------------------------------
(***************************************************************************)
(* Alignment and buddies.                                                  *)
(***************************************************************************)
\* A block can be split into aligned ones.
LEMMA AlignedBelow ==
  ASSUME NEW a \in Int, NEW k \in Nat, NEW m \in Nat, k <= m, Aligned(a, m)
  PROVE  Aligned(a, k)
<1>1. 2^k \in Nat \ {0} /\ 2^m \in Nat \ {0}
  BY PowerType
<1>2. PICK q \in Nat \ {0} : 2^m = 2^k * q
  BY PowerMultiple
<1>3. PICK p \in Int : a = 2^m * p
  BY <1>1, Multiple DEF Aligned
<1>4. a = 2^k * (q * p) /\ q * p \in Int
  <2>1. (2^k * q) * p = 2^k * (q * p) /\ q * p \in Int
    BY <1>1
  <2> QED BY <1>2, <1>3, <2>1
<1> QED BY <1>1, <1>4, Multiple DEF Aligned

LEMMA AlignedUpper ==
  ASSUME NEW a \in Int, NEW k \in Nat, Aligned(a, k)
  PROVE  Aligned(a + 2^k, k) /\ a + 2^k \in Int
<1>1. 2^k \in Nat \ {0}
  BY PowerType
<1>2. PICK p \in Int : a = 2^k * p
  BY <1>1, Multiple DEF Aligned
<1>3. a + 2^k = 2^k * (p + 1) /\ p + 1 \in Int
  BY <1>1, <1>2
<1>4. a + 2^k \in Int
  BY <1>1
<1> QED BY <1>1, <1>3, <1>4, Multiple DEF Aligned

\* The halves of a block are each other's buddies.
LEMMA Buddies ==
  ASSUME NEW a \in Int, NEW k \in Nat, Aligned(a, k + 1)
  PROVE  BuddyOf(a, k) = a + 2^k /\ BuddyOf(a + 2^k, k) = a
<1>1. /\ 2^k \in Nat \ {0} /\ 2^(k + 1) \in Nat \ {0}
      /\ 2^(k + 1) = 2^k + 2^k
  BY PowerType, PowerNext
<1>2. BuddyOf(a, k) = a + 2^k
  BY DEF Aligned, BuddyOf
<1>3. (a + 2^k) % 2^(k + 1) # 0
  <2> DEFINE M == 2^(k + 1)
             h == 2^k
  <2>1. M \in Nat \ {0} /\ h \in Nat \ {0} /\ M = h + h /\ a % M = 0
    BY <1>1 DEF Aligned
  <2> HIDE DEF M, h
  <2>2. PICK p \in Int : a = M * p
    BY <2>1, Multiple
  <2>3. ASSUME (a + h) % M = 0
        PROVE  FALSE
    <3>1. a + h \in Int
      BY <2>1
    <3>2. PICK q \in Int : a + h = M * q
      BY <2>1, <2>3, <3>1, Multiple
    <3>3. M * (q - p) = M * q - M * p /\ M * q \in Int /\ M * p \in Int
      BY <2>1
    <3>4. M * (q - p) = h /\ q - p \in Int
      BY <2>1, <2>2, <3>2, <3>3
    <3>5. q - p = 0
      BY <2>1, <3>4, MultipleIsFar
    <3>6. M * (q - p) = 0
      BY <2>1, <3>5
    <3> QED BY <2>1, <3>4, <3>6
  <2> QED BY <2>3 DEF M, h
<1>4. BuddyOf(a + 2^k, k) = a
  <2>1. BuddyOf(a + 2^k, k) = (a + 2^k) - 2^k
    BY <1>3 DEF BuddyOf
  <2> QED BY <1>1, <2>1
<1> QED BY <1>2, <1>4

\* An aligned block is where coalescing starts, whatever the order.
LEMMA MergedIs ==
  ASSUME NEW a \in Int, NEW k \in Nat, Aligned(a, k)
  PROVE  Merged(a, k) = a
BY DEF Aligned, Merged

-----------------------------------------------------------------------------
(***************************************************************************)
(* Recursive functions.                                                    *)
(***************************************************************************)
\* G[c] depends on values at numbers of a lower rank, and at 0.
Ranked(G, rank, N, S) ==
  \A c \in 1 .. N : \A f, g \in [0 .. N -> S] :
    /\ f[0] = g[0]
    /\ \A d \in 1 .. N : rank[d] < rank[c] => f[d] = g[d]
    => G[c][f] = G[c][g]

Solves(f, G, x, N, S) ==
  f \in [0 .. N -> S] /\ f[0] = x /\ \A c \in 1 .. N : f[c] = G[c][f]

\* A recursive function whose value at c is computed from those at numbers of
\* a lower rank, and at 0, exists.
LEMMA Defined ==
  ASSUME NEW S, NEW x \in S, NEW N \in Nat, NEW rank \in [1 .. N -> Nat],
         NEW G \in [1 .. N -> [[0 .. N -> S] -> S]], Ranked(G, rank, N, S)
  PROVE  \E f : Solves(f, G, x, N, S)
<1> DEFINE Upto(k, f) == f[0] = x /\ \A c \in 1 .. N : rank[c] < k => f[c] = G[c][f]
           Good == {k \in Nat : \E f \in [0 .. N -> S] : Upto(k, f)}
<1>1. 0 \in Good
  <2>1. [c \in 0 .. N |-> x] \in [0 .. N -> S] /\ Upto(0, [c \in 0 .. N |-> x])
    OBVIOUS
  <2> QED BY <2>1
<1>2. ASSUME NEW k \in Nat, k \in Good
      PROVE  k + 1 \in Good
  <2>1. PICK f \in [0 .. N -> S] : Upto(k, f)
    BY <1>2
  <2> DEFINE g == [c \in 0 .. N |-> IF c # 0 /\ rank[c] = k THEN G[c][f] ELSE f[c]]
  <2>2. g \in [0 .. N -> S] /\ g[0] = x
    <3>1. \A c \in 1 .. N : G[c][f] \in S
      OBVIOUS
    <3>2. \A c \in 0 .. N : c # 0 => c \in 1 .. N
      OBVIOUS
    <3> QED BY <2>1, <3>1, <3>2
  <2>3. \A c \in 1 .. N : g[c] = IF rank[c] = k THEN G[c][f] ELSE f[c]
    OBVIOUS
  <2> HIDE DEF g
  <2>4. ASSUME NEW c \in 1 .. N, rank[c] < k + 1
        PROVE  g[c] = G[c][g]
    <3>1. \A d \in 1 .. N : rank[d] < rank[c] => f[d] = g[d]
      BY <2>3, <2>4
    <3>2. G[c][f] = G[c][g]
      BY <2>1, <2>2, <3>1 DEF Ranked
    <3>3. rank[c] = k \/ rank[c] < k
      BY <2>4
    <3> QED BY <2>1, <2>3, <3>2, <3>3
  <2>5. Upto(k + 1, g)
    BY <2>2, <2>4
  <2> QED BY <2>2, <2>5
<1>3. \A k \in Nat : k \in Good
  <2> HIDE DEF Good
  <2> QED BY <1>1, <1>2, NatInduct
<1> DEFINE Above(n) == \E k \in Nat : \A c \in 1 .. n : c <= N => rank[c] < k
           Some == {n \in Nat : Above(n)}
<1>4. 0 \in Some
  <2>1. \A c \in 1 .. 0 : c <= N => rank[c] < 0
    OBVIOUS
  <2> QED BY <2>1
<1>5. ASSUME NEW n \in Nat, n \in Some
      PROVE  n + 1 \in Some
  <2>1. PICK k \in Nat : \A c \in 1 .. n : c <= N => rank[c] < k
    BY <1>5
  <2>2. CASE n + 1 <= N
    <3>1. n + 1 \in 1 .. N /\ rank[n + 1] \in Nat
      BY <2>2
    <3>2. PICK m \in Nat : m >= k /\ m > rank[n + 1]
      <4>1. k + rank[n + 1] + 1 \in Nat /\ k + rank[n + 1] + 1 >= k
              /\ k + rank[n + 1] + 1 > rank[n + 1]
        BY <3>1
      <4> QED BY <4>1
    <3>3. ASSUME NEW c \in 1 .. n + 1, c <= N
          PROVE  rank[c] < m
      <4>1. c \in 1 .. N /\ rank[c] \in Nat
        BY <3>3
      <4>2. c = n + 1 \/ c \in 1 .. n
        OBVIOUS
      <4> QED BY <2>1, <3>2, <3>3, <4>1, <4>2
    <3> QED BY <3>3
  <2>3. CASE ~ (n + 1 <= N)
    <3>1. \A c \in 1 .. n + 1 : c <= N => c \in 1 .. n
      BY <2>3
    <3>2. \A c \in 1 .. n + 1 : c <= N => rank[c] < k
      BY <2>1, <3>1
    <3> QED BY <3>2
  <2> QED BY <2>2, <2>3
<1>6. N \in Some
  <2> HIDE DEF Some
  <2> QED BY <1>4, <1>5, NatInduct
<1>7. PICK k \in Nat : \A c \in 1 .. N : rank[c] < k
  BY <1>6
<1>8. PICK f \in [0 .. N -> S] : Upto(k, f)
  BY <1>3
<1> QED BY <1>7, <1>8 DEF Solves

-----------------------------------------------------------------------------
(***************************************************************************)
(* Blocks.                                                                 *)
(***************************************************************************)
LEMMA TimesLess ==
  ASSUME NEW N \in Nat \ {0}, NEW u \in Int, NEW v \in Int, N * u < N * v
  PROVE  u < v
<1>1. CASE u >= v
  <2>1. PICK d \in Nat : u = v + d
    <3>1. u - v \in Nat /\ u = v + (u - v)
      BY <1>1
    <3> QED BY <3>1
  <2>2. N * u = N * v + N * d
    BY <2>1
  <2>3. N * d >= 0
    BY <2>1
  <2>4. N * v \in Int /\ N * d \in Int
    BY <2>1
  <2> QED BY <2>2, <2>3, <2>4
<1> QED BY <1>1

\* Blocks that have a page in common lie within each other.
LEMMA Nested ==
  ASSUME NEW a \in Int, NEW c \in Int, NEW j \in Nat, NEW m \in Nat, j <= m,
         Aligned(a, j), Aligned(c, m), Pages(a, j) \cap Pages(c, m) # {}
  PROVE  Pages(a, j) \subseteq Pages(c, m) /\ (j = m => a = c)
<1>1. 2^j \in Nat \ {0} /\ 2^m \in Nat \ {0}
  BY PowerType
<1>2. PICK q \in Nat \ {0} : 2^m = 2^j * q
  BY PowerMultiple
<1>3. PICK u \in Int : a = 2^j * u
  BY <1>1, Multiple DEF Aligned
<1>4. PICK p \in Int : c = 2^m * p
  BY <1>1, Multiple DEF Aligned
<1> DEFINE N == 2^j
           M == 2^m
           v == q * p
<1>5. N \in Nat \ {0} /\ M \in Nat \ {0} /\ v \in Int /\ v + q \in Int /\ u + 1 \in Int
  BY <1>1
<1>6. c = N * v /\ a = N * u
  <2>1. (N * q) * p = N * (q * p)
    BY <1>1
  <2> QED BY <1>2, <1>3, <1>4, <2>1
<1>7. c + M = N * (v + q) /\ a + N = N * (u + 1)
  <2>1. M = N * q
    BY <1>2
  <2> HIDE DEF N, M, v
  <2>2. N * v + N * q = N * (v + q) /\ N * u + N = N * (u + 1)
    BY <1>5
  <2> QED BY <1>6, <2>1, <2>2
<1>8. PICK x : x \in a .. a + N - 1 /\ x \in c .. c + M - 1
  BY DEF Pages
<1> HIDE DEF N, M, v
<1>9. a < c + M /\ c < a + N
  BY <1>5, <1>8
<1>10. u < v + q /\ v < u + 1
  <2>1. N * u < N * (v + q) /\ N * v < N * (u + 1)
    BY <1>6, <1>7, <1>9
  <2> QED BY <1>5, <2>1, TimesLess
<1>11. c <= a /\ a + N <= c + M
  <2>1. PICK d \in Nat : u = v + d
    <3>1. u - v \in Nat /\ u = v + (u - v)
      BY <1>5, <1>10
    <3> QED BY <3>1
  <2>2. PICK e \in Nat : v + q = (u + 1) + e
    <3>1. (v + q) - (u + 1) \in Nat /\ v + q = (u + 1) + ((v + q) - (u + 1))
      BY <1>5, <1>10
    <3> QED BY <3>1
  <2>3. /\ N * (v + d) = N * v + N * d /\ N * d >= 0
        /\ N * ((u + 1) + e) = N * (u + 1) + N * e /\ N * e >= 0
        /\ N * d \in Int /\ N * e \in Int /\ N * v \in Int /\ N * (u + 1) \in Int
    BY <1>5, <2>1, <2>2
  <2> QED BY <1>6, <1>7, <2>1, <2>2, <2>3
<1>12. a .. a + N - 1 \subseteq c .. c + M - 1
  BY <1>5, <1>11
<1>13. j = m => a = c
  BY <1>5, <1>11 DEF N, M
<1> QED BY <1>12, <1>13 DEF Pages, N, M

\* The block of order k that page a lies in.
LEMMA Region ==
  ASSUME NEW a \in Nat, NEW k \in Nat
  PROVE  Merged(a, k) \in Nat /\ Aligned(Merged(a, k), k) /\ a \in Pages(Merged(a, k), k)
<1> DEFINE N == 2^k
           r == a % N
           q == a \div N
<1>1. N \in Nat \ {0}
  BY PowerType
<1>2. r \in 0 .. N - 1 /\ q \in Int /\ a = N * q + r /\ r <= a
  <2> HIDE DEF N
  <2> QED BY <1>1
<1>3. N * q \in Int /\ a - r = N * q
  <2> HIDE DEF r, q, N
  <2> QED BY <1>1, <1>2
<1>4. Merged(a, k) = a - r
  BY DEF Merged
<1>5. a - r \in Nat /\ a \in (a - r) .. (a - r) + N - 1
  <2> HIDE DEF r, q, N
  <2> QED BY <1>1, <1>2
<1>6. Aligned(a - r, k)
  <2> HIDE DEF r, q
  <2> QED BY <1>1, <1>2, <1>3, <1>5, Multiple DEF Aligned
<1> QED BY <1>4, <1>5, <1>6 DEF Pages

\* A block and its buddy are the halves of the block of the next order.
LEMMA Pair ==
  ASSUME NEW a \in Nat, NEW k \in Nat, Aligned(a, k)
  PROVE  LET buddy == BuddyOf(a, k)
         IN  /\ buddy \in Int /\ buddy # a /\ Aligned(buddy, k) /\ BuddyOf(buddy, k) = a
             /\ Pages(Merged(a, k + 1), k + 1) = Pages(a, k) \cup Pages(buddy, k)
             /\ Pages(a, k) \cap Pages(buddy, k) = {}
<1> DEFINE e == Merged(a, k + 1)
           N == 2^k
           buddy == BuddyOf(a, k)
<1>1. k + 1 \in Nat /\ N \in Nat \ {0} /\ 2^(k + 1) = N + N
  BY PowerType, PowerNext
<1>2. e \in Nat /\ Aligned(e, k + 1) /\ a \in Pages(e, k + 1)
  BY <1>1, Region
<1>3. BuddyOf(e, k) = e + N /\ BuddyOf(e + N, k) = e
  BY <1>2, Buddies
<1>4. Aligned(e, k) /\ Aligned(e + N, k)
  BY <1>1, <1>2, AlignedBelow, AlignedUpper
<1>5. Pages(e, k + 1) = e .. e + (N + N) - 1
  BY <1>1 DEF Pages
<1>6. /\ Pages(e, k) = e .. e + N - 1
      /\ Pages(e + N, k) = e + N .. (e + N) + N - 1
      /\ Pages(a, k) = a .. a + N - 1
  BY DEF Pages
<1> HIDE DEF e
<1>7. a = e \/ a = e + N
  <2>1. N \in Int /\ a \in Int /\ e \in Int /\ e + N \in Int
    BY <1>1, <1>2
  <2>2. a \in Pages(a, k) /\ (a \in Pages(e, k) \/ a \in Pages(e + N, k))
    <3> HIDE DEF N
    <3> QED BY <1>1, <1>2, <1>5, <1>6
  <2>3. Pages(a, k) \cap Pages(e, k) # {} \/ Pages(a, k) \cap Pages(e + N, k) # {}
    BY <2>2
  <2>4. \A c \in Int : Aligned(c, k) /\ Pages(a, k) \cap Pages(c, k) # {} => a = c
    BY <2>1, Nested
  <2> QED BY <1>4, <2>1, <2>3, <2>4
<1>8. /\ Pages(e, k + 1) = Pages(e, k) \cup Pages(e + N, k)
      /\ Pages(e, k) \cap Pages(e + N, k) = {}
  <2> HIDE DEF N
  <2> QED BY <1>1, <1>2, <1>5, <1>6
<1>9. e \in Int /\ e + N \in Int /\ e # e + N
  <2> HIDE DEF N
  <2> QED BY <1>1, <1>2
<1>10. CASE a = e
  <2>1. buddy = e + N
    BY <1>3, <1>10
  <2> QED BY <1>3, <1>4, <1>8, <1>9, <1>10, <2>1 DEF e
<1>11. CASE a = e + N
  <2>1. buddy = e
    BY <1>3, <1>11
  <2> QED BY <1>3, <1>4, <1>8, <1>9, <1>11, <2>1 DEF e
<1> QED BY <1>7, <1>10, <1>11

\* Going up from page a, each block is the one before and its buddy.
LEMMA Climb ==
  ASSUME NEW a \in Nat, NEW k \in Nat
  PROVE  /\ Pages(Merged(a, k + 1), k + 1)
              = Pages(Merged(a, k), k) \cup Pages(MergedBuddy(a, k), k)
         /\ Pages(Merged(a, k), k) \cap Pages(MergedBuddy(a, k), k) = {}
         /\ MergedBuddy(a, k) \in Int /\ Aligned(MergedBuddy(a, k), k)
         /\ BuddyOf(MergedBuddy(a, k), k) = Merged(a, k)
<1> DEFINE b == Merged(a, k)
<1>1. k + 1 \in Nat /\ b \in Nat /\ Aligned(b, k) /\ a \in Pages(b, k)
  BY Region
<1>2. MergedBuddy(a, k) = BuddyOf(b, k)
  BY DEF MergedBuddy
<1>3. Merged(b, k + 1) = Merged(a, k + 1)
  <2> DEFINE u == Merged(b, k + 1)
             v == Merged(a, k + 1)
  <2>1. /\ u \in Nat /\ Aligned(u, k + 1) /\ v \in Nat /\ Aligned(v, k + 1)
        /\ a \in Pages(v, k + 1)
    BY <1>1, Region
  <2>2. Pages(b, k) \subseteq Pages(u, k + 1)
    BY <1>1, Pair
  <2>3. Pages(u, k + 1) \cap Pages(v, k + 1) # {} /\ u \in Int /\ v \in Int
    BY <1>1, <2>1, <2>2
  <2> HIDE DEF u, v
  <2>4. u = v
    BY <1>1, <2>1, <2>3, Nested
  <2> QED BY <2>4 DEF u, v
<1> HIDE DEF b
<1>4. /\ Pages(Merged(b, k + 1), k + 1) = Pages(b, k) \cup Pages(BuddyOf(b, k), k)
      /\ Pages(b, k) \cap Pages(BuddyOf(b, k), k) = {}
      /\ BuddyOf(b, k) \in Int /\ Aligned(BuddyOf(b, k), k) /\ BuddyOf(BuddyOf(b, k), k) = b
  BY <1>1, Pair
<1> QED BY <1>2, <1>3, <1>4 DEF b

-----------------------------------------------------------------------------
(***************************************************************************)
(* Sets of free blocks.                                                    *)
(***************************************************************************)
PagesOf(b) == Pages(b.addr, b.ord)
Covered(F) == UNION {PagesOf(b) : b \in F}

\* The upper halves that are cut off a block until one of order req is left,
\* and the free blocks after that.
Halves(b, req) == {[addr |-> b.addr + 2^k, ord |-> k] : k \in req .. b.ord - 1}
Lower(b, req) == [addr |-> b.addr, ord |-> req]
Split(F, b, req) == (F \ {b}) \cup Halves(b, req)

\* Free blocks F beside the pages U in use.  No block is free together with its
\* buddy of the same order: they would have been merged.
Twin(b) == [addr |-> BuddyOf(b.addr, b.ord), ord |-> b.ord]

Sound(F, U) ==
  /\ F \subseteq Block /\ U \subseteq Page
  /\ \A b \in F : /\ Aligned(b.addr, b.ord) /\ PagesOf(b) \subseteq Page
                  /\ PagesOf(b) \cap U = {}
  /\ \A b, c \in F : b # c => PagesOf(b) \cap PagesOf(c) = {}
  /\ Page \subseteq U \cup Covered(F)
  /\ \A b \in F : b.ord < MaxOrd => Twin(b) \notin F

LEMMA Types ==
  /\ MaxOrd \in Nat /\ Ord \subseteq Nat /\ Page \subseteq Nat
  /\ 2^MaxOrd \in Nat \ {0} /\ 0 \in Page
  /\ \A b \in Block : /\ b.addr \in Page /\ b.ord \in Ord /\ b.addr \in Nat /\ b.ord \in Nat
                      /\ b.ord <= MaxOrd /\ 2^b.ord \in Nat \ {0}
                      /\ b.addr \in PagesOf(b)
<1>1. MaxOrd \in Nat /\ 2^MaxOrd \in Nat \ {0}
  BY MaxOrdAssumption, PowerType
<1>2. /\ \A k \in Ord : k \in Nat /\ k <= MaxOrd
      /\ Page \subseteq Nat /\ 0 \in Page
  BY <1>1 DEF Ord, Page
<1>3. ASSUME NEW b \in Block
      PROVE  /\ b.addr \in Page /\ b.ord \in Ord /\ b.addr \in Nat /\ b.ord \in Nat
             /\ b.ord <= MaxOrd /\ 2^b.ord \in Nat \ {0}
             /\ b.addr \in PagesOf(b)
  <2>1. b.addr \in Page /\ b.ord \in Ord /\ b.addr \in Nat /\ b.ord \in Nat /\ b.ord <= MaxOrd
    <3>1. b.addr \in Page /\ b.ord \in Ord
      BY DEF Block
    <3> QED BY <1>2, <3>1
  <2>2. 2^b.ord \in Nat \ {0}
    BY <2>1, PowerType
  <2>3. b.addr \in b.addr .. b.addr + 2^b.ord - 1
    BY <2>1, <2>2
  <2> QED BY <2>1, <2>2, <2>3 DEF PagesOf, Pages
<1> QED BY <1>1, <1>2, <1>3

\* Where the parts of a block begin and end.
LEMMA Upper ==
  ASSUME NEW a \in Nat, NEW r \in Nat, NEW h \in Nat, NEW t \in Nat,
         r <= h, h + h <= t
  PROVE  /\ a + h .. a + (h + h) - 1 \subseteq a .. a + t - 1
         /\ (a + h .. a + (h + h) - 1) \cap (a .. a + r - 1) = {}
         /\ (a + h .. a + (h + h) - 1) \cap (a + t .. a + (t + t) - 1) = {}
OBVIOUS

\* A block is its lowest part and the upper halves that were cut off.
LEMMA HalvesAre ==
  ASSUME NEW b \in Block, Aligned(b.addr, b.ord), PagesOf(b) \subseteq Page,
         NEW req \in 0 .. b.ord
  PROVE  /\ PagesOf(b) = PagesOf(Lower(b, req)) \cup Covered(Halves(b, req))
         /\ Lower(b, req) \in Block /\ Aligned(b.addr, req)
         /\ \A c \in Halves(b, req) :
              /\ c \in Block /\ Aligned(c.addr, c.ord)
              /\ PagesOf(c) \cap PagesOf(Lower(b, req)) = {}
              /\ c.ord < b.ord /\ BuddyOf(c.addr, c.ord) = b.addr
         /\ \A c, d \in Halves(b, req) : c # d => PagesOf(c) \cap PagesOf(d) = {}
<1> DEFINE half(k) == [addr |-> b.addr + 2^k, ord |-> k]
<1>1. /\ b.addr \in Nat /\ b.addr \in Page /\ b.ord \in Nat /\ b.ord <= MaxOrd
      /\ req \in Nat /\ req <= b.ord /\ MaxOrd \in Nat
      /\ 2^b.ord \in Nat \ {0} /\ 2^req \in Nat \ {0}
  BY Types, PowerType
<1>2. ASSUME NEW k \in req .. b.ord - 1
      PROVE  /\ k \in Nat /\ k \in Ord /\ k < b.ord /\ 2^k \in Nat \ {0}
             /\ 2^req <= 2^k /\ 2^k + 2^k <= 2^b.ord
             /\ PagesOf(half(k)) = b.addr + 2^k .. b.addr + (2^k + 2^k) - 1
  <2>1. k \in Nat /\ k \in Ord /\ k < b.ord /\ req <= k
    BY <1>1 DEF Ord
  <2>2. 2^k \in Nat \ {0} /\ 2^req <= 2^k /\ 2^k + 2^k <= 2^b.ord
    BY <1>1, <2>1, PowerType, PowerOrder
  <2>3. PagesOf(half(k)) = b.addr + 2^k .. b.addr + 2^k + 2^k - 1
    BY DEF PagesOf, Pages
  <2>4. b.addr + 2^k + 2^k - 1 = b.addr + (2^k + 2^k) - 1
    BY <1>1, <2>2
  <2> QED BY <2>1, <2>2, <2>3, <2>4
<1>3. /\ PagesOf(b) = b.addr .. b.addr + 2^b.ord - 1
      /\ PagesOf(Lower(b, req)) = b.addr .. b.addr + 2^req - 1
  BY DEF PagesOf, Pages, Lower
<1>4. 2^req <= 2^b.ord
  BY <1>1, PowerOrder
<1>5. Lower(b, req) \in Block /\ Aligned(b.addr, req)
  <2>1. req \in Ord
    BY <1>1 DEF Ord
  <2>2. Aligned(b.addr, req)
    BY <1>1, AlignedBelow
  <2> QED BY <1>1, <2>1, <2>2 DEF Lower, Block
<1>6. Halves(b, req) = {half(k) : k \in req .. b.ord - 1}
  BY DEF Halves
<1> HIDE DEF half
<1>7. ASSUME NEW x \in PagesOf(b), x \notin PagesOf(Lower(b, req))
      PROVE  x \in Covered(Halves(b, req))
  <2>1. x \in Int /\ 2^req <= x - b.addr /\ x - b.addr < 2^b.ord /\ x - b.addr \in Int
    BY <1>1, <1>3, <1>7
  <2>2. PICK k \in req .. b.ord - 1 : 2^k <= x - b.addr /\ x - b.addr < 2^k + 2^k
    BY <1>1, <2>1, PowerBetween
  <2>3. x \in PagesOf(half(k))
    <3>1. 2^k \in Nat /\ PagesOf(half(k)) = b.addr + 2^k .. b.addr + (2^k + 2^k) - 1
      BY <1>2
    <3>2. \A a, y \in Int : \A m \in Nat :
            m <= y - a /\ y - a < m + m => y \in a + m .. a + (m + m) - 1
      OBVIOUS
    <3>3. b.addr \in Int /\ x \in Int
      BY <1>1, <2>1
    <3> QED BY <2>2, <3>1, <3>2, <3>3
  <2> QED BY <1>6, <2>3 DEF Covered
<1>8. ASSUME NEW k \in req .. b.ord - 1
      PROVE  /\ PagesOf(half(k)) \subseteq PagesOf(b)
             /\ PagesOf(half(k)) \cap PagesOf(Lower(b, req)) = {}
  <2>1. /\ 2^k \in Nat /\ 2^req \in Nat /\ 2^b.ord \in Nat
        /\ 2^req <= 2^k /\ 2^k + 2^k <= 2^b.ord
        /\ PagesOf(half(k)) = b.addr + 2^k .. b.addr + (2^k + 2^k) - 1
    BY <1>1, <1>2
  <2> DEFINE r == 2^req
             h == 2^k
             t == 2^b.ord
             base == b.addr
  <2>2. /\ PagesOf(half(k)) = base + h .. base + (h + h) - 1
        /\ PagesOf(b) = base .. base + t - 1
        /\ PagesOf(Lower(b, req)) = base .. base + r - 1
    BY <1>3, <2>1
  <2>3. /\ base \in Nat /\ r \in Nat /\ h \in Nat /\ t \in Nat
        /\ r <= h /\ h + h <= t
    BY <1>1, <2>1
  <2> HIDE DEF r, h, t, base
  <2>4. /\ base + h .. base + (h + h) - 1 \subseteq base .. base + t - 1
        /\ (base + h .. base + (h + h) - 1) \cap (base .. base + r - 1) = {}
    BY <2>3, Upper
  <2> QED BY <2>2, <2>4
<1>9. PagesOf(b) = PagesOf(Lower(b, req)) \cup Covered(Halves(b, req))
  <2>1. PagesOf(Lower(b, req)) \subseteq PagesOf(b)
    BY <1>1, <1>3, <1>4
  <2>2. Covered(Halves(b, req)) \subseteq PagesOf(b)
    BY <1>6, <1>8 DEF Covered
  <2> QED BY <1>7, <2>1, <2>2
<1>10. ASSUME NEW k \in req .. b.ord - 1
       PROVE  /\ half(k) \in Block /\ half(k).ord < b.ord
              /\ Aligned(half(k).addr, half(k).ord)
              /\ BuddyOf(half(k).addr, half(k).ord) = b.addr
  <2>1. half(k).addr = b.addr + 2^k /\ half(k).ord = k
    BY DEF half
  <2>2. Aligned(b.addr, k + 1) /\ Aligned(b.addr, k)
    <3>1. k + 1 \in Nat /\ k + 1 <= b.ord /\ k \in Nat /\ k <= b.ord
      BY <1>1
    <3> QED BY <1>1, <3>1, AlignedBelow
  <2>3. BuddyOf(b.addr + 2^k, k) = b.addr
    BY <1>1, <1>2, <2>2, Buddies
  <2>4. Aligned(b.addr + 2^k, k)
    BY <1>1, <1>2, <2>2, AlignedUpper
  <2>5. b.addr + 2^k \in Page
    <3>1. b.addr + 2^k \in PagesOf(half(k))
      BY <1>1, <1>2
    <3> QED BY <1>8, <3>1
  <2>6. half(k) \in Block
    BY <1>2, <2>5 DEF half, Block
  <2> QED BY <1>2, <2>1, <2>3, <2>4, <2>6
<1>11. ASSUME NEW j \in req .. b.ord - 1, NEW k \in req .. b.ord - 1, j # k
       PROVE  PagesOf(half(j)) \cap PagesOf(half(k)) = {}
  <2>1. ASSUME NEW i \in req .. b.ord - 1, NEW l \in req .. b.ord - 1, i < l
        PROVE  PagesOf(half(i)) \cap PagesOf(half(l)) = {}
    <3>1. 2^i + 2^i <= 2^l
      BY <1>2, <2>1, PowerOrder
    <3>2. /\ 2^i \in Nat /\ 2^l \in Nat
          /\ PagesOf(half(i)) = b.addr + 2^i .. b.addr + (2^i + 2^i) - 1
          /\ PagesOf(half(l)) = b.addr + 2^l .. b.addr + (2^l + 2^l) - 1
      BY <1>2
    <3> DEFINE h == 2^i
               t == 2^l
               base == b.addr
    <3>3. /\ base \in Nat /\ 0 \in Nat /\ h \in Nat /\ t \in Nat
          /\ 0 <= h /\ h + h <= t
      BY <1>1, <3>1, <3>2
    <3>4. /\ PagesOf(half(i)) = base + h .. base + (h + h) - 1
          /\ PagesOf(half(l)) = base + t .. base + (t + t) - 1
      BY <3>2
    <3> HIDE DEF h, t, base
    <3>5. (base + h .. base + (h + h) - 1) \cap (base + t .. base + (t + t) - 1) = {}
      BY <3>3, Upper
    <3> QED BY <3>4, <3>5
  <2>2. j < k \/ k < j
    BY <1>2, <1>11
  <2> QED BY <2>1, <2>2
<1> QED BY <1>5, <1>6, <1>8, <1>9, <1>10, <1>11

\* Cutting a block up keeps the free blocks sound, and what is handed out is
\* disjoint from what was in use.
LEMMA SplitSound ==
  ASSUME NEW F, NEW U, Sound(F, U), NEW b \in F, NEW req \in 0 .. b.ord
  PROVE  /\ Sound(Split(F, b, req), U \cup PagesOf(Lower(b, req)))
         /\ Covered(Split(F, b, req)) = Covered(F) \ PagesOf(Lower(b, req))
         /\ Covered(F) = Covered(Split(F, b, req)) \cup PagesOf(b)
         /\ PagesOf(Lower(b, req)) \subseteq PagesOf(b)
         /\ PagesOf(Lower(b, req)) \cap U = {}
<1> DEFINE a == Lower(b, req)
           H == Halves(b, req)
           G == Split(F, b, req)
<1>1. /\ F \subseteq Block /\ b \in Block /\ U \subseteq Page
      /\ \A c \in F : /\ Aligned(c.addr, c.ord) /\ PagesOf(c) \subseteq Page
                      /\ PagesOf(c) \cap U = {}
      /\ \A c, d \in F : c # d => PagesOf(c) \cap PagesOf(d) = {}
      /\ Page \subseteq U \cup Covered(F)
      /\ \A c \in F : c.ord < MaxOrd => Twin(c) \notin F
  BY DEF Sound
<1>2. /\ PagesOf(b) = PagesOf(a) \cup Covered(H)
      /\ a \in Block /\ Aligned(b.addr, req)
      /\ \A c \in H :
           /\ c \in Block /\ Aligned(c.addr, c.ord) /\ PagesOf(c) \cap PagesOf(a) = {}
           /\ c.ord < b.ord /\ BuddyOf(c.addr, c.ord) = b.addr
      /\ \A c, d \in H : c # d => PagesOf(c) \cap PagesOf(d) = {}
  BY <1>1, HalvesAre
<1>3. b.addr \in PagesOf(a)
  <2>1. a.addr = b.addr /\ a.addr \in PagesOf(a)
    BY <1>2, Types DEF Lower
  <2> QED BY <2>1
<1>4. G = (F \ {b}) \cup H
  BY DEF Split
<1> HIDE DEF a, H, G
<1>5. \A c \in H : PagesOf(c) \subseteq Covered(H)
  BY DEF Covered
<1>6. \A c \in F : PagesOf(c) \subseteq Covered(F)
  BY DEF Covered
<1>7. \A c \in F \ {b} : PagesOf(c) \cap PagesOf(b) = {}
  BY <1>1
<1>8. Covered(G) = Covered(F) \ PagesOf(a)
  <2>1. ASSUME NEW c \in G
        PROVE  PagesOf(c) \subseteq Covered(F) \ PagesOf(a)
    BY <1>2, <1>4, <1>5, <1>6, <1>7, <2>1
  <2>2. ASSUME NEW x \in Covered(F), x \notin PagesOf(a)
        PROVE  \E c \in G : x \in PagesOf(c)
    <3>1. PICK c \in F : x \in PagesOf(c)
      BY <2>2 DEF Covered
    <3>2. CASE c = b
      <4>1. x \in Covered(H)
        BY <1>2, <2>2, <3>1, <3>2
      <4>2. PICK d \in H : x \in PagesOf(d)
        BY <4>1 DEF Covered
      <4> QED BY <1>4, <4>2
    <3>3. CASE c # b
      BY <1>4, <3>1, <3>3
    <3> QED BY <3>2, <3>3
  <2>3. Covered(G) \subseteq Covered(F) \ PagesOf(a)
    BY <2>1 DEF Covered
  <2>4. \A x \in Covered(F) : x \notin PagesOf(a) => x \in Covered(G)
    BY <2>2 DEF Covered
  <2> QED BY <2>3, <2>4
<1>9. ASSUME NEW c \in G
      PROVE  /\ c \in Block /\ Aligned(c.addr, c.ord) /\ PagesOf(c) \subseteq Page
             /\ PagesOf(c) \cap (U \cup PagesOf(a)) = {}
  BY <1>1, <1>2, <1>4, <1>5, <1>7
<1>10. \A c, d \in G : c # d => PagesOf(c) \cap PagesOf(d) = {}
  BY <1>1, <1>2, <1>4, <1>5, <1>7
<1>11. ASSUME NEW c \in G, c.ord < MaxOrd
       PROVE  Twin(c) \notin G
  <2>1. /\ Twin(c).addr = BuddyOf(c.addr, c.ord) /\ Twin(c).ord = c.ord
        /\ c \in Block /\ c.addr \in Nat /\ c.ord \in Nat /\ c.addr \in PagesOf(c)
        /\ BuddyOf(BuddyOf(c.addr, c.ord), c.ord) = c.addr
    <3>1. c \in Block /\ c.addr \in Nat /\ c.ord \in Nat /\ c.addr \in PagesOf(c) /\ Aligned(c.addr, c.ord)
      BY <1>9, Types
    <3> QED BY <3>1, Pair DEF Twin
  <2>2. CASE c \in H
    <3>1. ASSUME Twin(c) \in G
          PROVE  FALSE
      <4>1. Twin(c).addr = b.addr
        BY <1>2, <2>1, <2>2
      <4>2. Twin(c).addr \in PagesOf(Twin(c)) /\ PagesOf(Twin(c)) \cap PagesOf(a) = {}
        BY <1>9, <3>1, Types
      <4> QED BY <1>3, <4>1, <4>2
    <3> QED BY <3>1
  <2>3. CASE c \in F /\ c # b
    <3>1. ASSUME Twin(c) \in H
          PROVE  FALSE
      <4>1. BuddyOf(Twin(c).addr, Twin(c).ord) = b.addr
        BY <1>2, <3>1
      <4>2. c.addr = b.addr
        BY <2>1, <4>1
      <4>3. b.addr \in PagesOf(b)
        BY <1>1, Types
      <4> QED BY <1>7, <2>1, <2>3, <4>2, <4>3
    <3>2. Twin(c) \notin F
      BY <1>1, <1>11, <2>3
    <3> QED BY <1>4, <3>1, <3>2
  <2> QED BY <1>4, <2>2, <2>3
<1>12. PagesOf(a) \subseteq PagesOf(b) /\ PagesOf(a) \cap U = {} /\ PagesOf(b) \subseteq Page
  BY <1>1, <1>2
<1>13. Covered(F) = Covered(G) \cup PagesOf(b)
  BY <1>6, <1>8, <1>12
<1>14. Sound(G, U \cup PagesOf(a))
  <2>1. U \cup PagesOf(a) \subseteq Page /\ G \subseteq Block
    BY <1>1, <1>9, <1>12
  <2>2. Page \subseteq (U \cup PagesOf(a)) \cup Covered(G)
    BY <1>1, <1>8
  <2> QED BY <1>9, <1>10, <1>11, <2>1, <2>2 DEF Sound
<1> QED BY <1>8, <1>12, <1>13, <1>14 DEF a, G

-----------------------------------------------------------------------------
(***************************************************************************)
(* Free lists.                                                             *)
(***************************************************************************)
\* Unlinking nothing that is in the list leaves the list.

\* Where all pages are free there is one free block: a smaller one would have
\* its buddy beside it.
LEMMA OneFreeBlock ==
  ASSUME NEW F, NEW U, Sound(F, U), NEW x \in Page, NEW k \in Ord,
         Aligned(x, k), Pages(x, k) \subseteq Covered(F)
  PROVE  \E c \in F : k <= c.ord /\ Pages(x, k) \subseteq PagesOf(c)
<1> DEFINE R == Pages(x, k)
           Small == {c \in F : c.ord < k /\ PagesOf(c) \cap R # {}}
           S == {c.ord : c \in Small}
<1>1. /\ x \in Nat /\ x \in Int /\ k \in Nat /\ k <= MaxOrd /\ MaxOrd \in Nat /\ F \subseteq Block
      /\ \A c \in F : /\ Aligned(c.addr, c.ord) /\ c.addr \in Nat /\ c.ord \in Nat
                      /\ c.addr \in Int /\ c.addr \in PagesOf(c)
      /\ \A c, d \in F : c # d => PagesOf(c) \cap PagesOf(d) = {}
      /\ \A c \in F : c.ord < MaxOrd => Twin(c) \notin F
  <2>1. x \in Nat /\ k \in Nat /\ k <= MaxOrd /\ MaxOrd \in Nat
    BY Types DEF Ord
  <2> QED BY <2>1, Types DEF Sound
<1>2. x \in R
  BY <1>1, PowerType DEF Pages
<1>3. ASSUME Small # {}
      PROVE  FALSE
  <2>1. S \in SUBSET Nat /\ S # {}
    BY <1>1, <1>3
  <2>2. PICK j \in S : \A i \in S : j <= i
    BY <2>1, LeastExists
  <2>3. PICK c \in Small : c.ord = j
    BY <2>2
  <2>4. /\ c \in F /\ j \in Nat /\ j < k /\ PagesOf(c) \cap R # {} /\ Aligned(c.addr, j)
        /\ c.addr \in Nat /\ c.addr \in Int /\ c.addr \in PagesOf(c)
        /\ PagesOf(c) = Pages(c.addr, j)
    BY <1>1, <2>3 DEF PagesOf
  <2> DEFINE y == BuddyOf(c.addr, j)
             e == Merged(c.addr, j + 1)
  <2>5. /\ y \in Int /\ Aligned(y, j) /\ y # c.addr
        /\ Pages(e, j + 1) = PagesOf(c) \cup Pages(y, j)
    BY <2>4, Pair
  <2>6. /\ j + 1 \in Nat /\ e \in Int /\ Aligned(e, j + 1) /\ j + 1 <= k
    <3>1. j + 1 \in Nat /\ j + 1 <= k
      BY <1>1, <2>4
    <3>2. e \in Nat /\ Aligned(e, j + 1)
      BY <2>4, <3>1, Region
    <3> QED BY <3>1, <3>2
  <2> HIDE DEF y, e
  <2>7. y \in Pages(y, j)
    <3>1. 2^j \in Nat \ {0}
      BY <2>4, PowerType
    <3> QED BY <2>5, <3>1 DEF Pages
  <2>8. Pages(e, j + 1) \subseteq R
    <3>1. Pages(e, j + 1) \cap Pages(x, k) # {}
      BY <2>4, <2>5
    <3> QED BY <1>1, <2>6, <3>1, Nested
  <2>9. PICK d \in F : y \in PagesOf(d)
    <3>1. y \in Covered(F)
      BY <2>5, <2>7, <2>8
    <3> QED BY <3>1 DEF Covered
  <2>10. /\ Aligned(d.addr, d.ord) /\ d.addr \in Int /\ d.ord \in Nat
         /\ PagesOf(d) = Pages(d.addr, d.ord)
    BY <1>1 DEF PagesOf
  <2>11. j <= d.ord
    <3>1. CASE d.ord < k
      <4>1. d \in Small
        BY <2>5, <2>7, <2>8, <2>9, <3>1
      <4> QED BY <2>2, <4>1
    <3>2. CASE ~(d.ord < k)
      BY <1>1, <2>4, <2>10, <3>2
    <3> QED BY <3>1, <3>2
  <2>12. CASE d.ord = j
    <3>1. y = d.addr
      BY <2>4, <2>5, <2>7, <2>9, <2>10, <2>12, Nested
    <3>2. d = [addr |-> d.addr, ord |-> d.ord]
      BY <1>1 DEF Block
    <3>3. d = Twin(c)
      BY <2>3, <2>12, <3>1, <3>2 DEF Twin, y
    <3> QED BY <1>1, <2>3, <2>4, <3>3
  <2>13. CASE d.ord # j
    <3>1. j + 1 <= d.ord
      BY <2>4, <2>10, <2>11, <2>13
    <3>2. Pages(e, j + 1) \cap Pages(d.addr, d.ord) # {}
      BY <2>5, <2>7, <2>9, <2>10
    <3>3. Pages(e, j + 1) \subseteq PagesOf(d)
      BY <2>6, <2>10, <3>1, <3>2, Nested
    <3>4. c.addr \in PagesOf(d)
      BY <2>4, <2>5, <3>3
    <3> QED BY <1>1, <2>3, <2>4, <2>13, <3>4
  <2> QED BY <2>12, <2>13
<1>4. PICK c \in F : x \in PagesOf(c)
  BY <1>2 DEF Covered
<1>5. c \notin Small
  BY <1>3
<1> HIDE DEF Small
<1>6. k <= c.ord
  <2>1. ~(c.ord < k)
    BY <1>2, <1>4, <1>5 DEF Small
  <2> QED BY <1>1, <2>1
<1>7. Pages(x, k) \subseteq Pages(c.addr, c.ord)
  <2>1. Pages(x, k) \cap Pages(c.addr, c.ord) # {}
    BY <1>2, <1>4 DEF PagesOf
  <2> QED BY <1>1, <1>6, <2>1, Nested
<1> QED BY <1>6, <1>7 DEF PagesOf

-----------------------------------------------------------------------------
(***************************************************************************)
(* Free lists.                                                             *)
(***************************************************************************)
\* Free lists without repetitions, as a set of blocks.
Lists(av) ==
  /\ av \in [Ord -> Seq(Page)]
  /\ \A k \in Ord : \A i, j \in 1 .. Len(av[k]) : av[k][i] = av[k][j] => i = j

Held(av) == UNION {{[addr |-> a, ord |-> k] : a \in ToSet(av[k])} : k \in Ord}

\* Allocating b takes a block of order m from av and leaves av2.
TakenAt(av, b, av2, m) ==
  /\ m \in b.ord .. MaxOrd
  /\ av[m] # << >> /\ b.addr = Head(av[m])
  /\ \A k \in b.ord .. m - 1 : av[k] = << >>
  /\ av2 = [k \in Ord |-> IF k = m THEN Tail(av[k])
                          ELSE IF k \in b.ord .. m - 1 THEN <<b.addr + 2^k>>
                          ELSE av[k]]

LEMMA HeldIs ==
  ASSUME NEW av \in [Ord -> Seq(Page)]
  PROVE  /\ Held(av) \subseteq Block
         /\ \A k \in Ord : \A i \in 1 .. Len(av[k]) :
              [addr |-> av[k][i], ord |-> k] \in Held(av)
         /\ \A b \in Block :
              b \in Held(av) <=> \E i \in 1 .. Len(av[b.ord]) : av[b.ord][i] = b.addr
<1>1. \A k \in Ord : av[k] \in Seq(Page) /\ DOMAIN av[k] = 1 .. Len(av[k])
  OBVIOUS
<1>2. ASSUME NEW k \in Ord, NEW i \in 1 .. Len(av[k])
      PROVE  [addr |-> av[k][i], ord |-> k] \in Held(av)
  <2>1. av[k][i] \in ToSet(av[k])
    BY <1>1 DEF ToSet
  <2>2. [addr |-> av[k][i], ord |-> k] \in {[addr |-> a, ord |-> k] : a \in ToSet(av[k])}
    BY <2>1
  <2> QED BY <2>2 DEF Held
<1>3. ASSUME NEW b \in Held(av)
      PROVE  b \in Block /\ \E i \in 1 .. Len(av[b.ord]) : av[b.ord][i] = b.addr
  <2>1. PICK k \in Ord : b \in {[addr |-> a, ord |-> k] : a \in ToSet(av[k])}
    BY DEF Held
  <2>2. PICK a \in ToSet(av[k]) : b = [addr |-> a, ord |-> k]
    BY <2>1
  <2>3. PICK i \in 1 .. Len(av[k]) : a = av[k][i]
    BY <1>1, <2>2 DEF ToSet
  <2>4. b.ord = k /\ b.addr = a /\ a \in Page
    BY <1>1, <2>2, <2>3
  <2> QED BY <2>2, <2>3, <2>4 DEF Block
<1>4. ASSUME NEW b \in Block, NEW i \in 1 .. Len(av[b.ord]), av[b.ord][i] = b.addr
      PROVE  b \in Held(av)
  <2>1. b = [addr |-> av[b.ord][i], ord |-> b.ord] /\ b.ord \in Ord
    BY <1>4 DEF Block
  <2> QED BY <1>2, <2>1
<1> QED BY <1>2, <1>3, <1>4

\* What is left of a list from which blocks are unlinked.
LEMMA WithoutIs ==
  ASSUME NEW s \in Seq(Page), NEW gone,
         \A i, j \in 1 .. Len(s) : s[i] = s[j] => i = j
  PROVE  LET t == Without(s, gone)
         IN  /\ t \in Seq(Page)
             /\ \A i, j \in 1 .. Len(t) : t[i] = t[j] => i = j
             /\ \A i \in 1 .. Len(t) : t[i] \notin gone /\ \E l \in 1 .. Len(s) : t[i] = s[l]
             /\ \A l \in 1 .. Len(s) : s[l] \notin gone => \E i \in 1 .. Len(t) : t[i] = s[l]
<1> DEFINE S == Seq(Page)
           N == Len(s)
           rank == [c \in 1 .. N |-> c]
           Kept(f, c) == IF s[c] \in gone THEN f[c - 1] ELSE Append(f[c - 1], s[c])
           G == [c \in 1 .. N |-> [f \in [0 .. N -> S] |-> Kept(f, c)]]
           Is(f) == f = [n \in 0 .. N |-> IF n = 0 THEN << >>
                                          ELSE IF s[n] \in gone THEN f[n - 1]
                                          ELSE Append(f[n - 1], s[n])]
           kept == CHOOSE f : Is(f)
           Some(f, n) == \A i \in 1 .. Len(f[n]) :
                            f[n][i] \notin gone /\ \E l \in 1 .. n : f[n][i] = s[l]
           All(f, n) == \A l \in 1 .. n : s[l] \notin gone => \E i \in 1 .. Len(f[n]) : f[n][i] = s[l]
           Once(f, n) == \A i, j \in 1 .. Len(f[n]) : f[n][i] = f[n][j] => i = j
           Good(n) == kept[n] \in S /\ Some(kept, n) /\ All(kept, n) /\ Once(kept, n)
           T == {n \in Nat : n <= N => Good(n)}
<1>1. N \in Nat /\ << >> \in S /\ \A c \in 1 .. N : s[c] \in Page
  OBVIOUS
<1>2. ASSUME NEW c \in 1 .. N, NEW f \in [0 .. N -> S]
      PROVE  Kept(f, c) \in S /\ c - 1 \in 0 .. N
  <2>1. c - 1 \in 0 .. N
    BY <1>1
  <2>2. f[c - 1] \in S /\ s[c] \in Page
    BY <1>1, <2>1
  <2> QED BY <2>1, <2>2
<1>3. \E f : Solves(f, G, << >>, N, S)
  <2>1. rank \in [1 .. N -> Nat]
    OBVIOUS
  <2>2. G \in [1 .. N -> [[0 .. N -> S] -> S]]
    BY <1>2
  <2>3. Ranked(G, rank, N, S)
    <3>1. ASSUME NEW c \in 1 .. N, NEW f \in [0 .. N -> S], NEW g \in [0 .. N -> S],
                 f[0] = g[0], \A d \in 1 .. N : rank[d] < rank[c] => f[d] = g[d]
          PROVE  G[c][f] = G[c][g]
      <4>1. f[c - 1] = g[c - 1]
        <5>1. CASE c = 1
          BY <3>1, <5>1
        <5>2. CASE c # 1
          <6>1. c - 1 \in 1 .. N /\ c - 1 < c
            BY <1>1, <5>2
          <6> QED BY <3>1, <6>1
        <5> QED BY <5>1, <5>2
      <4>2. G[c][f] = Kept(f, c) /\ G[c][g] = Kept(g, c)
        OBVIOUS
      <4> QED BY <4>1, <4>2
    <3> QED BY <3>1 DEF Ranked
  <2> HIDE DEF G, rank
  <2> QED BY <1>1, <2>1, <2>2, <2>3, Defined
<1>4. PICK g : Solves(g, G, << >>, N, S)
  BY <1>3
<1>5. Is(g)
  <2>1. g \in [0 .. N -> S] /\ g[0] = << >> /\ \A c \in 1 .. N : g[c] = G[c][g]
    BY <1>4 DEF Solves
  <2>2. \A c \in 1 .. N : G[c][g] = Kept(g, c)
    BY <2>1
  <2>3. \A n \in 0 .. N : g[n] = IF n = 0 THEN << >>
                                 ELSE IF s[n] \in gone THEN g[n - 1]
                                 ELSE Append(g[n - 1], s[n])
    <3>1. \A n \in 1 .. N : g[n] = Kept(g, n)
      BY <2>1, <2>2
    <3>2. \A n \in 0 .. N : n # 0 => n \in 1 .. N
      BY <1>1
    <3> HIDE DEF G, N
    <3> QED BY <2>1, <3>1, <3>2
  <2> HIDE DEF N
  <2> QED BY <2>1, <2>3
<1>6. Is(kept)
  <2> HIDE DEF Is
  <2> QED BY <1>5
<1>7. Without(s, gone) = kept[N]
  BY DEF Without
<1>8. kept[0] = << >> /\ \A n \in 1 .. N : kept[n] = Kept(kept, n)
  <2> HIDE DEF kept
  <2>1. \A n \in 0 .. N : kept[n] = IF n = 0 THEN << >>
                                    ELSE IF s[n] \in gone THEN kept[n - 1]
                                    ELSE Append(kept[n - 1], s[n])
    BY <1>6
  <2>2. 0 \in 0 .. N /\ \A n \in 1 .. N : n \in 0 .. N /\ n # 0
    BY <1>1
  <2> HIDE DEF N
  <2> QED BY <2>1, <2>2
<1> HIDE DEF kept
<1>9. 0 \in T
  <2>1. kept[0] \in S /\ Len(kept[0]) = 0
    BY <1>1, <1>8
  <2>2. Some(kept, 0) /\ Once(kept, 0)
    BY <2>1
  <2>3. All(kept, 0)
    OBVIOUS
  <2> QED BY <2>1, <2>2, <2>3
<1>10. ASSUME NEW n \in Nat, n \in T
       PROVE  n + 1 \in T
  <2> SUFFICES ASSUME n + 1 <= N
               PROVE  Good(n + 1)
    OBVIOUS
  <2> DEFINE k == kept[n]
             m == kept[n + 1]
  <2>1. Good(n) /\ n + 1 \in 1 .. N /\ (n + 1) - 1 = n
    BY <1>1, <1>10
  <2>2. k \in S /\ Len(k) \in Nat /\ s[n + 1] \in Page
    BY <1>1, <2>1
  <2>3. CASE s[n + 1] \in gone
    <3>1. m = k
      BY <1>8, <2>1, <2>3
    <3>2. Some(kept, n + 1) /\ Once(kept, n + 1)
      BY <2>1, <3>1
    <3>3. All(kept, n + 1)
      <4>1. \A l \in 1 .. n + 1 : s[l] \notin gone => l \in 1 .. n
        BY <2>3
      <4> QED BY <2>1, <3>1, <4>1
    <3> QED BY <2>2, <3>1, <3>2, <3>3
  <2>4. CASE s[n + 1] \notin gone
    <3>1. m = Append(k, s[n + 1])
      BY <1>8, <2>1, <2>4
    <3>2. /\ m \in S /\ Len(m) = Len(k) + 1 /\ m[Len(k) + 1] = s[n + 1]
          /\ \A i \in 1 .. Len(k) : m[i] = k[i]
      BY <2>2, <3>1
    <3>3. 1 .. Len(m) = 1 .. Len(k) \cup {Len(k) + 1}
      BY <2>2, <3>2
    <3>4. 1 .. n + 1 = 1 .. n \cup {n + 1}
      OBVIOUS
    <3> HIDE DEF k, m
    <3>5. \A i \in 1 .. Len(k) : k[i] \notin gone /\ \E l \in 1 .. n : k[i] = s[l]
      BY <2>1 DEF k
    <3>6. \A i \in 1 .. Len(m) : m[i] \notin gone /\ \E l \in 1 .. n + 1 : m[i] = s[l]
      BY <2>4, <3>2, <3>3, <3>4, <3>5
    <3>7. \A l \in 1 .. n : s[l] \notin gone => \E i \in 1 .. Len(k) : k[i] = s[l]
      BY <2>1 DEF k
    <3>8. \A l \in 1 .. n + 1 : s[l] \notin gone => \E i \in 1 .. Len(m) : m[i] = s[l]
      BY <3>2, <3>3, <3>4, <3>7
    <3>9. \A i \in 1 .. Len(k) : k[i] # s[n + 1]
      <4>1. \A l \in 1 .. n : s[l] # s[n + 1]
        <5>1. \A l \in 1 .. n : l \in 1 .. N /\ l # n + 1
          BY <1>1, <2>1
        <5> QED BY <2>1, <5>1
      <4> QED BY <3>5, <4>1
    <3>10. \A i, j \in 1 .. Len(k) : k[i] = k[j] => i = j
      BY <2>1 DEF k
    <3>11. \A i, j \in 1 .. Len(m) : m[i] = m[j] => i = j
      BY <3>2, <3>3, <3>9, <3>10
    <3> QED BY <3>2, <3>6, <3>8, <3>11 DEF m
  <2> QED BY <2>3, <2>4
<1>11. N \in T
  <2> HIDE DEF T
  <2>1. Nat \subseteq T
    BY <1>9, <1>10, NatInduct
  <2> QED BY <1>1, <2>1
<1> QED BY <1>1, <1>7, <1>11

\* What is left on the lists, list by list and as a set of blocks.
LEMMA TakenIs ==
  ASSUME NEW av, Lists(av), NEW b \in Block, NEW m \in Ord, NEW av2,
         TakenAt(av, b, av2, m),
         NEW U, Sound(Held(av), U)
  PROVE  LET big == [addr |-> b.addr, ord |-> m]
         IN  /\ big \in Held(av) /\ b.ord \in 0 .. big.ord /\ b = Lower(big, b.ord)
             /\ Lists(av2) /\ Held(av2) = Split(Held(av), big, b.ord)
<1> DEFINE big == [addr |-> b.addr, ord |-> m]
           req == b.ord
<1>1. /\ av \in [Ord -> Seq(Page)] /\ req \in Ord /\ req \in Nat /\ m \in Nat
      /\ m <= MaxOrd /\ req <= m /\ MaxOrd \in Nat /\ Ord = 0 .. MaxOrd
      /\ \A k \in Ord : \A i, j \in 1 .. Len(av[k]) : av[k][i] = av[k][j] => i = j
  BY Types DEF Lists, TakenAt, Ord
<1>2. /\ av[m] # << >> /\ b.addr = Head(av[m])
      /\ \A k \in req .. m - 1 : av[k] = << >>
      /\ av2 = [k \in Ord |-> IF k = m THEN Tail(av[k])
                              ELSE IF k \in req .. m - 1 THEN <<b.addr + 2^k>>
                              ELSE av[k]]
  BY DEF TakenAt
<1>3. /\ av[m] \in Seq(Page) /\ Len(av[m]) \in Nat /\ 1 \in 1 .. Len(av[m])
      /\ b.addr = av[m][1] /\ b.addr \in Page
      /\ Tail(av[m]) \in Seq(Page) /\ Len(Tail(av[m])) = Len(av[m]) - 1
      /\ \A i \in 1 .. Len(av[m]) - 1 : Tail(av[m])[i] = av[m][i + 1]
  BY <1>1, <1>2
<1>4. big \in Held(av) /\ big \in Block
  <2>1. big \in Held(av)
    BY <1>3, HeldIs, <1>1
  <2> QED BY <1>1, <2>1, HeldIs
<1>5. req \in 0 .. big.ord /\ b = Lower(big, req)
  BY <1>1 DEF Lower, Block
<1>6. /\ Aligned(big.addr, big.ord) /\ PagesOf(big) \subseteq Page
  BY <1>4 DEF Sound
<1>7. \A k \in req .. m - 1 : /\ [addr |-> b.addr + 2^k, ord |-> k] \in Halves(big, req)
                              /\ k \in Ord /\ b.addr + 2^k \in Page
  <2>1. \A c \in Halves(big, req) : c \in Block
    BY <1>4, <1>5, <1>6, HalvesAre
  <2>2. ASSUME NEW k \in req .. m - 1
        PROVE  /\ [addr |-> b.addr + 2^k, ord |-> k] \in Halves(big, req)
               /\ k \in Ord /\ b.addr + 2^k \in Page
    <3>1. [addr |-> b.addr + 2^k, ord |-> k] \in Halves(big, req)
      BY DEF Halves
    <3>2. [addr |-> b.addr + 2^k, ord |-> k] \in Block
      BY <2>1, <3>1
    <3> QED BY <3>1, <3>2 DEF Block
  <2> QED BY <2>2
<1>8. /\ av2[m] = Tail(av[m])
      /\ \A k \in req .. m - 1 : av2[k] = <<b.addr + 2^k>>
      /\ \A k \in Ord : k # m /\ k \notin req .. m - 1 => av2[k] = av[k]
  BY <1>1, <1>2, <1>7
<1>9. av2 \in [Ord -> Seq(Page)]
  <2>1. ASSUME NEW k \in Ord
        PROVE  av2[k] \in Seq(Page)
    <3>1. CASE k = m
      BY <1>3, <1>8, <3>1
    <3>2. CASE k \in req .. m - 1
      <4>1. av2[k] = <<b.addr + 2^k>> /\ b.addr + 2^k \in Page
        BY <1>7, <1>8, <3>2
      <4> QED BY <4>1
    <3>3. CASE k # m /\ k \notin req .. m - 1
      BY <1>1, <1>8, <3>3
    <3> QED BY <3>1, <3>2, <3>3
  <2> QED BY <1>2, <2>1
<1>10. Lists(av2)
  <2>1. ASSUME NEW k \in Ord, NEW i \in 1 .. Len(av2[k]), NEW j \in 1 .. Len(av2[k]),
               av2[k][i] = av2[k][j]
        PROVE  i = j
    <3>1. CASE k = m
      <4>1. /\ i \in 1 .. Len(av[m]) - 1 /\ j \in 1 .. Len(av[m]) - 1
            /\ av[m][i + 1] = av[m][j + 1]
        BY <1>3, <1>8, <2>1, <3>1
      <4>2. i + 1 \in 1 .. Len(av[m]) /\ j + 1 \in 1 .. Len(av[m])
        BY <1>3, <4>1
      <4>3. i + 1 = j + 1
        BY <1>1, <4>1, <4>2
      <4> QED BY <4>1, <4>3
    <3>2. CASE k \in req .. m - 1
      <4>1. av2[k] = <<b.addr + 2^k>>
        BY <1>8, <3>2
      <4>2. Len(av2[k]) = 1
        BY <4>1
      <4> QED BY <4>2
    <3>3. CASE k # m /\ k \notin req .. m - 1
      BY <1>1, <1>8, <2>1, <3>3
    <3> QED BY <3>1, <3>2, <3>3
  <2> QED BY <1>9, <2>1 DEF Lists
<1>11. ASSUME NEW c \in Held(av2)
       PROVE  c \in Split(Held(av), big, req)
  <2>1. c \in Block /\ c.ord \in Ord /\ c = [addr |-> c.addr, ord |-> c.ord]
    BY <1>9, HeldIs DEF Block
  <2>2. PICK i \in 1 .. Len(av2[c.ord]) : av2[c.ord][i] = c.addr
    BY <1>9, HeldIs
  <2>3. CASE c.ord = m
    <3>1. i \in 1 .. Len(av[m]) - 1 /\ c.addr = av[m][i + 1]
      BY <1>3, <1>8, <2>2, <2>3
    <3>2. i + 1 \in 1 .. Len(av[m]) /\ i + 1 # 1
      BY <1>3, <3>1
    <3>3. c \in Held(av)
      BY <1>1, <2>1, <2>3, <3>1, <3>2, HeldIs
    <3>4. c.addr # b.addr
      BY <1>1, <1>3, <3>1, <3>2
    <3>5. c # big
      BY <3>4
    <3> QED BY <3>3, <3>5 DEF Split
  <2>4. CASE c.ord \in req .. m - 1
    <3>1. c.addr = b.addr + 2^c.ord
      BY <1>8, <2>2, <2>4
    <3> QED BY <1>7, <2>1, <2>4, <3>1 DEF Split
  <2>5. CASE c.ord # m /\ c.ord \notin req .. m - 1
    <3>1. i \in 1 .. Len(av[c.ord]) /\ av[c.ord][i] = c.addr
      <4>1. av2[c.ord] = av[c.ord]
        BY <1>8, <2>1, <2>5
      <4> QED BY <2>2, <4>1
    <3>3. c \in Held(av)
      BY <1>1, <2>1, <3>1, HeldIs
    <3>2. c # big
      BY <2>5
    <3> QED BY <3>2, <3>3 DEF Split
  <2> QED BY <2>3, <2>4, <2>5
<1>12. ASSUME NEW c \in Split(Held(av), big, req)
       PROVE  c \in Held(av2)
  <2>1. CASE c \in Held(av) /\ c # big
    <3>1. c \in Block /\ c.ord \in Ord /\ c = [addr |-> c.addr, ord |-> c.ord]
      BY <1>1, <2>1, HeldIs DEF Block
    <3>2. PICK i \in 1 .. Len(av[c.ord]) : av[c.ord][i] = c.addr
      BY <1>1, <2>1, HeldIs
    <3>3. CASE c.ord = m
      <4>1. i # 1
        BY <1>3, <2>1, <3>1, <3>2, <3>3
      <4>2. i - 1 \in 1 .. Len(av[m]) - 1 /\ (i - 1) + 1 = i
        BY <1>3, <3>2, <3>3, <4>1
      <4>3. i - 1 \in 1 .. Len(av2[m]) /\ av2[m][i - 1] = c.addr
        BY <1>3, <1>8, <3>2, <3>3, <4>2
      <4> QED BY <1>9, <3>1, <3>3, <4>3, HeldIs
    <3>4. CASE c.ord \in req .. m - 1
      <4>1. av[c.ord] = << >>
        BY <1>2, <3>4
      <4>2. Len(av[c.ord]) = 0
        BY <4>1
      <4> QED BY <3>2, <4>2
    <3>5. CASE c.ord # m /\ c.ord \notin req .. m - 1
      BY <1>8, <1>9, <3>1, <3>2, <3>5, HeldIs
    <3> QED BY <3>3, <3>4, <3>5
  <2>2. CASE c \in Halves(big, req)
    <3>1. PICK k \in req .. m - 1 : c = [addr |-> b.addr + 2^k, ord |-> k]
      BY <2>2 DEF Halves
    <3>2. av2[k] = <<b.addr + 2^k>> /\ k \in Ord
      BY <1>7, <1>8
    <3>3. 1 \in 1 .. Len(av2[k]) /\ av2[k][1] = b.addr + 2^k
      BY <3>2
    <3> QED BY <1>9, <3>1, <3>2, <3>3, HeldIs
  <2> QED BY <2>1, <2>2 DEF Split
<1>13. Held(av2) = Split(Held(av), big, req)
  BY <1>11, <1>12
<1> QED BY <1>4, <1>5, <1>10, <1>13

\* Unlinking and pushing a block, list by list and as a set of blocks.
LEMMA PushedIs ==
  ASSUME NEW av, Lists(av), NEW n \in Page, NEW m \in Ord, NEW gone,
         [addr |-> n, ord |-> m] \notin Held(av), NEW av2,
         av2 = [k \in Ord |-> av2[k]], av2[m] = <<n>> \o Without(av[m], gone),
         \A k \in Ord : k # m => av2[k] = Without(av[k], gone)
  PROVE  /\ Lists(av2)
         /\ \A c : c \in Held(av2) <=> \/ c \in Held(av) /\ c.addr \notin gone
                                       \/ c = [addr |-> n, ord |-> m]
<1> DEFINE new == [addr |-> n, ord |-> m]
           rest == [k \in Ord |-> Without(av[k], gone)]
<1>1. /\ av \in [Ord -> Seq(Page)]
      /\ \A k \in Ord : \A i, j \in 1 .. Len(av[k]) : av[k][i] = av[k][j] => i = j
  BY DEF Lists
<1>2. ASSUME NEW k \in Ord
      PROVE  /\ rest[k] \in Seq(Page)
             /\ \A i, j \in 1 .. Len(rest[k]) : rest[k][i] = rest[k][j] => i = j
             /\ \A i \in 1 .. Len(rest[k]) : /\ rest[k][i] \notin gone
                                             /\ \E l \in 1 .. Len(av[k]) : rest[k][i] = av[k][l]
             /\ \A l \in 1 .. Len(av[k]) : av[k][l] \notin gone =>
                  \E i \in 1 .. Len(rest[k]) : rest[k][i] = av[k][l]
  <2>1. av[k] \in Seq(Page) /\ \A i, j \in 1 .. Len(av[k]) : av[k][i] = av[k][j] => i = j
    BY <1>1
  <2> DEFINE s == av[k]
             t == Without(s, gone)
  <2>2. rest[k] = t
    OBVIOUS
  <2> HIDE DEF rest, s
  <2>3. /\ t \in Seq(Page)
        /\ \A i, j \in 1 .. Len(t) : t[i] = t[j] => i = j
        /\ \A i \in 1 .. Len(t) : t[i] \notin gone /\ \E l \in 1 .. Len(s) : t[i] = s[l]
        /\ \A l \in 1 .. Len(s) : s[l] \notin gone => \E i \in 1 .. Len(t) : t[i] = s[l]
    <3>1. s \in Seq(Page) /\ \A i, j \in 1 .. Len(s) : s[i] = s[j] => i = j
      BY <2>1 DEF s
    <3> QED BY <3>1, WithoutIs
  <2> HIDE DEF t
  <2> QED BY <2>2, <2>3 DEF s
<1>3. av2[m] = <<n>> \o rest[m] /\ \A k \in Ord : k # m => av2[k] = rest[k]
  OBVIOUS
<1> HIDE DEF rest
<1>5. /\ av2[m] \in Seq(Page) /\ Len(av2[m]) = Len(rest[m]) + 1 /\ av2[m][1] = n
      /\ \A i \in 1 .. Len(rest[m]) : av2[m][i + 1] = rest[m][i]
      /\ Len(rest[m]) \in Nat
  <2>1. rest[m] \in Seq(Page)
    BY <1>2
  <2> DEFINE t == rest[m]
  <2> HIDE DEF t
  <2>2. t \in Seq(Page)
    BY <2>1 DEF t
  <2>3. /\ <<n>> \o t \in Seq(Page) /\ Len(<<n>> \o t) = Len(t) + 1 /\ (<<n>> \o t)[1] = n
        /\ \A i \in 1 .. Len(t) : (<<n>> \o t)[i + 1] = t[i]
        /\ Len(t) \in Nat
    BY <2>2
  <2>4. av2[m] = <<n>> \o t
    BY <1>3 DEF t
  <2> QED BY <2>3, <2>4 DEF t
<1>6. \A i \in 1 .. Len(rest[m]) : rest[m][i] # n
  <2>1. ASSUME NEW i \in 1 .. Len(rest[m]), rest[m][i] = n
        PROVE  FALSE
    <3>1. PICK l \in 1 .. Len(av[m]) : n = av[m][l]
      <4>1. \E l \in 1 .. Len(av[m]) : rest[m][i] = av[m][l]
        BY <1>2
      <4> QED BY <2>1, <4>1
    <3>2. new \in Held(av)
      BY <1>1, <3>1, HeldIs
    <3> QED BY <3>2
  <2> QED BY <2>1
<1>7. av2 \in [Ord -> Seq(Page)]
  <2>1. \A k \in Ord : av2[k] \in Seq(Page)
    BY <1>2, <1>3, <1>5
  <2> QED BY <2>1
<1>8. ASSUME NEW i \in 1 .. Len(av2[m]), i # 1
      PROVE  i - 1 \in 1 .. Len(rest[m]) /\ av2[m][i] = rest[m][i - 1]
  <2>1. i - 1 \in 1 .. Len(rest[m]) /\ (i - 1) + 1 = i
    BY <1>5, <1>8
  <2> QED BY <1>5, <2>1
<1>9. Lists(av2)
  <2>1. ASSUME NEW k \in Ord, NEW i \in 1 .. Len(av2[k]), NEW j \in 1 .. Len(av2[k]),
               av2[k][i] = av2[k][j]
        PROVE  i = j
    <3>1. CASE k # m
      <4>1. av2[k] = rest[k]
        BY <1>3, <3>1
      <4>2. \A x, y \in 1 .. Len(rest[k]) : rest[k][x] = rest[k][y] => x = y
        BY <1>2
      <4> QED BY <2>1, <4>1, <4>2
    <3>2. CASE k = m /\ i # 1 /\ j # 1
      <4>1. /\ i - 1 \in 1 .. Len(rest[m]) /\ j - 1 \in 1 .. Len(rest[m])
            /\ rest[m][i - 1] = rest[m][j - 1]
        BY <1>8, <2>1, <3>2
      <4>2. i - 1 = j - 1
        BY <1>2, <4>1
      <4> QED BY <4>1, <4>2
    <3>3. CASE k = m /\ i = 1 /\ j # 1
      BY <1>5, <1>6, <1>8, <2>1, <3>3
    <3>4. CASE k = m /\ i # 1 /\ j = 1
      BY <1>5, <1>6, <1>8, <2>1, <3>4
    <3> QED BY <3>1, <3>2, <3>3, <3>4
  <2> QED BY <1>7, <2>1 DEF Lists
<1>10. new \in Held(av2)
  <2>1. 1 \in 1 .. Len(av2[m])
    BY <1>5
  <2> QED BY <1>5, <1>7, <2>1, HeldIs
<1>11. ASSUME NEW c \in Held(av), c.addr \notin gone
       PROVE  c \in Held(av2)
  <2>1. c \in Block /\ c.ord \in Ord /\ c = [addr |-> c.addr, ord |-> c.ord]
    BY <1>1, HeldIs DEF Block
  <2>2. PICK l \in 1 .. Len(av[c.ord]) : av[c.ord][l] = c.addr
    BY <1>1, <2>1, HeldIs
  <2>3. PICK i \in 1 .. Len(rest[c.ord]) : rest[c.ord][i] = c.addr
    BY <1>2, <1>11, <2>1, <2>2
  <2>4. CASE c.ord = m
    <3>1. i + 1 \in 1 .. Len(av2[m]) /\ av2[m][i + 1] = c.addr
      BY <1>5, <2>3, <2>4
    <3> QED BY <1>7, <2>1, <2>4, <3>1, HeldIs
  <2>5. CASE c.ord # m
    <3>1. i \in 1 .. Len(av2[c.ord]) /\ av2[c.ord][i] = c.addr
      BY <1>3, <2>1, <2>3, <2>5
    <3> QED BY <1>7, <2>1, <3>1, HeldIs
  <2> QED BY <2>4, <2>5
<1>12. ASSUME NEW c \in Held(av2), c # new
       PROVE  c \in Held(av) /\ c.addr \notin gone
  <2>1. c \in Block /\ c.ord \in Ord /\ c = [addr |-> c.addr, ord |-> c.ord]
    BY <1>7, HeldIs DEF Block
  <2>2. PICK i \in 1 .. Len(av2[c.ord]) : av2[c.ord][i] = c.addr
    BY <1>7, <2>1, HeldIs
  <2>3. \E j \in 1 .. Len(rest[c.ord]) : rest[c.ord][j] = c.addr
    <3>1. CASE c.ord = m
      <4>1. i # 1
        BY <1>5, <1>12, <2>1, <2>2, <3>1
      <4> QED BY <1>8, <2>2, <3>1, <4>1
    <3>2. CASE c.ord # m
      BY <1>3, <2>1, <2>2, <3>2
    <3> QED BY <3>1, <3>2
  <2>4. PICK l \in 1 .. Len(av[c.ord]) : av[c.ord][l] = c.addr
    BY <1>2, <2>1, <2>3
  <2>5. c.addr \notin gone
    BY <1>2, <2>1, <2>3
  <2> QED BY <1>1, <2>1, <2>4, <2>5, HeldIs
<1> QED BY <1>9, <1>10, <1>11, <1>12

-----------------------------------------------------------------------------
(***************************************************************************)
(* The inductive invariant.  Until a free is misjudged, the blocks, free or*)
(* in use, are a partition of the memory, no free block lies beside its    *)
(* free buddy, and the bitmap marks the free ones.                         *)
(***************************************************************************)
Partition ==
  /\ Lists(avail) /\ Sound(Held(avail), Covered(inUse))
  /\ \A b, c \in inUse : b # c => PagesOf(b) \cap PagesOf(c) = {}
  /\ inUse # {} => bitmap = Covered(Held(avail))

IInv ==
  /\ TypeOK
  /\ ~misjudged => Partition
  /\ misjudged => Covered(inUse) \cap Covered(Held(avail)) # {}

LEMMA PageIsAll ==
  Page = Pages(0, MaxOrd) /\ Aligned(0, MaxOrd) /\ MaxOrd \in Ord /\ 0 \in Int
<1>1. 0 + 2^MaxOrd - 1 = 2^MaxOrd - 1 /\ 2^MaxOrd \in Nat \ {0} /\ MaxOrd \in Nat
  BY Types
<1>2. 0 = 2^MaxOrd * 0
  BY <1>1
<1>3. Aligned(0, MaxOrd)
  BY <1>1, <1>2, Multiple DEF Aligned
<1> QED BY <1>1, <1>3 DEF Page, Pages, Ord

\* With nothing in use there is one block.
LEMMA AllFree ==
  ASSUME NEW F, Sound(F, {})
  PROVE  F = {[addr |-> 0, ord |-> MaxOrd]}
<1>1. PICK c \in F : MaxOrd <= c.ord /\ Page \subseteq PagesOf(c)
  <2>1. Pages(0, MaxOrd) \subseteq Covered(F) /\ 0 \in Page
    BY PageIsAll, Types DEF Sound
  <2> QED BY <2>1, PageIsAll, OneFreeBlock
<1>2. /\ c \in Block /\ c.ord = MaxOrd /\ Aligned(c.addr, c.ord) /\ c.addr \in Int
      /\ MaxOrd \in Nat
  <2>1. c \in Block /\ Aligned(c.addr, c.ord)
    BY DEF Sound
  <2> QED BY <1>1, <2>1, Types
<1>3. c.addr = 0
  <2>1. Pages(c.addr, MaxOrd) \cap Pages(0, MaxOrd) # {}
    BY <1>1, <1>2, PageIsAll, Types DEF PagesOf
  <2> QED BY <1>2, <2>1, PageIsAll, Nested
<1>4. c = [addr |-> 0, ord |-> MaxOrd]
  BY <1>2, <1>3 DEF Block
<1>5. ASSUME NEW d \in F
      PROVE  d = c
  <2>1. d \in Block /\ PagesOf(d) \subseteq Page /\ d.addr \in PagesOf(d)
    BY Types DEF Sound
  <2> QED BY <1>1, <2>1 DEF Sound
<1> QED BY <1>4, <1>5

-----------------------------------------------------------------------------
(***************************************************************************)
(* The steps.                                                              *)
(***************************************************************************)
\* The lists before the first allocation.
Whole == [k \in Ord |-> IF k = MaxOrd THEN <<0>> ELSE << >>]

LEMMA WholeIs ==
  /\ Lists(Whole) /\ Held(Whole) = {[addr |-> 0, ord |-> MaxOrd]}
  /\ Sound(Held(Whole), {})
<1> DEFINE all == [addr |-> 0, ord |-> MaxOrd]
<1>1. /\ MaxOrd \in Ord /\ MaxOrd \in Nat /\ 0 \in Page
      /\ Whole[MaxOrd] = <<0>> /\ \A k \in Ord : k # MaxOrd => Whole[k] = << >>
  BY Types DEF Ord, Whole
<1>2. ASSUME NEW k \in Ord
      PROVE  Whole[k] \in Seq(Page) /\ Len(Whole[k]) <= 1
  <2>1. PICK one : one = <<0>> /\ one \in Seq(Page) /\ Len(one) = 1
    <3>1. <<0>> \in Seq(Page) /\ Len(<<0>>) = 1
      BY <1>1
    <3> QED BY <3>1, Zenon
  <2>2. << >> \in Seq(Page) /\ Len(<< >>) = 0
    OBVIOUS
  <2>3. CASE k = MaxOrd
    <3>1. Whole[k] = one
      BY <1>1, <2>1, <2>3
    <3> QED BY <2>1, <3>1
  <2>4. CASE k # MaxOrd
    <3>1. Whole[k] = << >>
      BY <1>1, <2>4
    <3> QED BY <2>2, <3>1
  <2> QED BY <2>3, <2>4
<1>3. Lists(Whole)
  <2>1. Whole \in [Ord -> Seq(Page)]
    BY <1>2 DEF Whole
  <2>2. ASSUME NEW k \in Ord, NEW i \in 1 .. Len(Whole[k]), NEW j \in 1 .. Len(Whole[k])
        PROVE  i = j
    <3>1. Len(Whole[k]) \in Nat /\ Len(Whole[k]) <= 1
      BY <1>2
    <3> QED BY <3>1
  <2> QED BY <2>1, <2>2 DEF Lists
<1>4. Held(Whole) = {all}
  <2>1. all \in Held(Whole)
    <3>1. Whole \in [Ord -> Seq(Page)] /\ 1 \in 1 .. Len(Whole[MaxOrd]) /\ Whole[MaxOrd][1] = 0
      BY <1>1, <1>3 DEF Lists
    <3> QED BY <1>1, <3>1, HeldIs
  <2>2. ASSUME NEW c \in Held(Whole)
        PROVE  c = all
    <3>1. c \in Block /\ \E i \in 1 .. Len(Whole[c.ord]) : Whole[c.ord][i] = c.addr
      BY <1>3, HeldIs DEF Lists
    <3>2. PICK i \in 1 .. Len(Whole[c.ord]) : Whole[c.ord][i] = c.addr
      BY <3>1
    <3>3. c.ord \in Ord /\ c = [addr |-> c.addr, ord |-> c.ord]
      BY <3>1 DEF Block
    <3>4. c.ord = MaxOrd
      <4>1. CASE c.ord # MaxOrd
        <5>1. Len(Whole[c.ord]) = 0
          BY <1>1, <3>3, <4>1
        <5> QED BY <3>2, <5>1
      <4> QED BY <4>1
    <3>5. c.addr = 0
      BY <1>1, <3>2, <3>4
    <3> QED BY <3>3, <3>4, <3>5
  <2> QED BY <2>1, <2>2
<1>5. all \in Block
  BY <1>1 DEF Block
<1>6. PagesOf(all) = Page
  <2>1. Pages(0, MaxOrd) = 0 .. 0 + 2^MaxOrd - 1
    BY DEF Pages
  <2>2. 0 + 2^MaxOrd - 1 = 2^MaxOrd - 1
    BY Types
  <2> QED BY <2>1, <2>2 DEF PagesOf, Page
<1>7. Aligned(0, MaxOrd)
  <2>1. 2^MaxOrd \in Nat \ {0}
    BY Types
  <2>2. 0 = 2^MaxOrd * 0
    BY <2>1
  <2> QED BY <2>1, <2>2, Multiple DEF Aligned
<1>8. Covered({all}) = Page
  BY <1>6 DEF Covered
<1>9. Sound({all}, {})
  <2>1. all.addr = 0 /\ all.ord = MaxOrd
    OBVIOUS
  <2> HIDE DEF all
  <2>2. \A c \in {all} : ~(c.ord < MaxOrd)
    BY <1>1, <2>1
  <2> QED BY <1>5, <1>6, <1>7, <1>8, <2>1, <2>2 DEF Sound
<1> QED BY <1>3, <1>4, <1>9

LEMMA InitInv ==
  ASSUME Init
  PROVE  IInv
<1>1. avail = Whole /\ bitmap = {} /\ inUse = {} /\ misjudged = FALSE
  BY DEF Init, Whole
<1>2. Lists(avail) /\ Sound(Held(avail), Covered(inUse))
  <2>1. Covered({}) = {}
    BY DEF Covered
  <2> QED BY <1>1, <2>1, WholeIs
<1>3. TypeOK
  <2>1. ASSUME NEW k \in Ord, NEW a \in ToSet(avail[k])
        PROVE  Aligned(a, k)
    <3>1. [addr |-> a, ord |-> k] \in {[addr |-> c, ord |-> k] : c \in ToSet(avail[k])}
      OBVIOUS
    <3>2. [addr |-> a, ord |-> k] \in Held(avail)
      BY <3>1 DEF Held
    <3> QED BY <1>2, <3>2 DEF Sound
  <2> QED BY <1>1, <1>2, <2>1 DEF TypeOK, Lists
<1> QED BY <1>1, <1>2, <1>3 DEF IInv, Partition

\* What buddy_alloc_raw does is taking a block.
LEMMA AllocTakes ==
  ASSUME Lists(avail),
         NEW req \in Orders, Alloc(req)
  PROVE  \E b \in Block, m \in Ord :
           LET big == [addr |-> b.addr, ord |-> m]
           IN  /\ TakenAt(avail, b, avail', m) /\ b.ord = req
               /\ inUse' = inUse \cup {b} /\ misjudged' = misjudged
               /\ bitmap' = (bitmap \ PagesOf(big)) \cup Covered(Halves(big, req))
<1> DEFINE m == SmallestFitting(req)
           ret == Head(avail[m])
           rem == Remainders(ret, req, m)
           b == [addr |-> ret, ord |-> req]
           big == [addr |-> b.addr, ord |-> m]
<1>1. /\ Ord \subseteq Nat /\ MaxOrd \in Nat /\ Ord = 0 .. MaxOrd
      /\ req \in Ord /\ req \in Nat
      /\ avail \in [Ord -> Seq(Page)]
  BY Types, OrdersAssumption DEF Ord, Lists
<1>2. /\ m \in Fitting(req) /\ \A k \in Fitting(req) : m <= k
  <2>1. Fitting(req) # {} /\ Fitting(req) \in SUBSET Nat
    BY <1>1 DEF Alloc, Fitting
  <2> QED BY <2>1, LeastExists DEF SmallestFitting
<1>3. /\ m \in req .. MaxOrd /\ m \in Ord /\ m \in Nat /\ avail[m] # << >>
      /\ \A k \in req .. m - 1 : avail[k] = << >>
  <2>1. m \in req .. MaxOrd /\ avail[m] # << >>
    BY <1>2 DEF Fitting
  <2>2. m \in Ord /\ m \in Nat
    BY <1>1, <2>1
  <2>3. ASSUME NEW k \in req .. m - 1
        PROVE  avail[k] = << >>
    <3>1. k \in req .. MaxOrd /\ ~(m <= k)
      BY <1>1, <2>1, <2>2
    <3> QED BY <1>2, <3>1 DEF Fitting
  <2> QED BY <2>1, <2>2, <2>3
<1>4. /\ avail' = [k \in Ord |->
                     IF k = m THEN Tail(avail[k])
                     ELSE IF k \in DOMAIN rem THEN <<rem[k]>> \o avail[k]
                     ELSE avail[k]]
      /\ bitmap' = (bitmap \ Pages(ret, m)) \cup UNION {Pages(rem[k], k) : k \in DOMAIN rem}
      /\ inUse' = inUse \cup {b} /\ misjudged' = misjudged
  BY DEF Alloc
<1> HIDE DEF m
<1>5. rem = [k \in req .. m - 1 |-> ret + 2^k]
  BY DEF Remainders
<1> HIDE DEF rem, ret
<1>6. avail' = [k \in Ord |-> IF k = m THEN Tail(avail[k])
                              ELSE IF k \in req .. m - 1 THEN <<ret + 2^k>>
                              ELSE avail[k]]
  <2>1. ASSUME NEW k \in req .. m - 1
        PROVE  <<rem[k]>> \o avail[k] = <<ret + 2^k>>
    <3>1. avail[k] = << >> /\ rem[k] = ret + 2^k
      BY <1>3, <1>5
    <3> QED BY <3>1
  <2>2. DOMAIN rem = req .. m - 1
    BY <1>5
  <2> QED BY <1>4, <2>1, <2>2
<1>7. b \in Block
  <2>1. ret \in Page
    BY <1>1, <1>3 DEF ret
  <2> QED BY <1>1, <2>1 DEF Block
<1>8. TakenAt(avail, b, avail', m) /\ b.ord = req
  BY <1>1, <1>3, <1>6 DEF TakenAt, ret
<1>9. bitmap' = (bitmap \ PagesOf(big)) \cup Covered(Halves(big, req))
  <2>1. PagesOf(big) = Pages(ret, m)
    BY DEF PagesOf
  <2>2. UNION {Pages(rem[k], k) : k \in DOMAIN rem} = Covered(Halves(big, req))
    <3>1. \A k \in req .. m - 1 : Pages(rem[k], k) = PagesOf([addr |-> ret + 2^k, ord |-> k])
      BY <1>5 DEF PagesOf
    <3>2. Halves(big, req) = {[addr |-> ret + 2^k, ord |-> k] : k \in req .. m - 1}
      BY DEF Halves
    <3>3. DOMAIN rem = req .. m - 1
      BY <1>5
    <3>4. {Pages(rem[k], k) : k \in DOMAIN rem} = {PagesOf(c) : c \in Halves(big, req)}
      <4>1. \A k \in DOMAIN rem : Pages(rem[k], k) \in {PagesOf(c) : c \in Halves(big, req)}
        BY <3>1, <3>2, <3>3
      <4>2. \A c \in Halves(big, req) : PagesOf(c) \in {Pages(rem[k], k) : k \in DOMAIN rem}
        BY <3>1, <3>2, <3>3
      <4> QED BY <4>1, <4>2
    <3> QED BY <3>4 DEF Covered
  <2> QED BY <1>4, <2>1, <2>2
<1> QED BY <1>3, <1>4, <1>7, <1>8, <1>9

LEMMA AllocInv ==
  ASSUME IInv, ~misjudged, NEW req \in Orders, Alloc(req)
  PROVE  IInv'
<1> DEFINE U == Covered(inUse)
           F == Held(avail)
           G == Held(avail')
<1>1. /\ TypeOK /\ Lists(avail) /\ Sound(F, U)
      /\ \A c, d \in inUse : c # d => PagesOf(c) \cap PagesOf(d) = {}
      /\ inUse # {} => bitmap = Covered(F)
  BY DEF IInv, Partition
<1>2. PICK b \in Block, m \in Ord :
        LET big == [addr |-> b.addr, ord |-> m]
        IN  /\ TakenAt(avail, b, avail', m) /\ b.ord = req
            /\ inUse' = inUse \cup {b} /\ misjudged' = misjudged
            /\ bitmap' = (bitmap \ PagesOf(big)) \cup Covered(Halves(big, req))
  BY <1>1, AllocTakes
<1> DEFINE big == [addr |-> b.addr, ord |-> m]
<1>3. /\ big \in F /\ req \in 0 .. big.ord /\ b = Lower(big, req)
      /\ Lists(avail') /\ G = Split(F, big, req)
  BY <1>1, <1>2, TakenIs
<1>4. /\ inUse' = inUse \cup {b} /\ misjudged' = misjudged
      /\ bitmap' = (bitmap \ PagesOf(big)) \cup Covered(Halves(big, req))
  BY <1>2
<1> HIDE DEF big, F, G, U
<1>5. /\ Sound(G, U \cup PagesOf(b)) /\ Covered(G) = Covered(F) \ PagesOf(b)
      /\ PagesOf(b) \subseteq PagesOf(big) /\ PagesOf(b) \cap U = {}
  BY <1>1, <1>3, SplitSound
<1>6. /\ big \in Block /\ Aligned(big.addr, big.ord) /\ PagesOf(big) \subseteq Page
      /\ PagesOf(big) \subseteq Covered(F)
  BY <1>1, <1>3 DEF Sound, Covered
<1>7. /\ PagesOf(big) = PagesOf(b) \cup Covered(Halves(big, req))
      /\ PagesOf(b) \cap Covered(Halves(big, req)) = {}
      /\ Aligned(b.addr, b.ord)
  <2>1. /\ PagesOf(big) = PagesOf(b) \cup Covered(Halves(big, req))
        /\ \A c \in Halves(big, req) : PagesOf(c) \cap PagesOf(b) = {}
        /\ Aligned(big.addr, req)
    BY <1>3, <1>6, HalvesAre
  <2>2. Aligned(b.addr, b.ord)
    BY <1>2, <2>1 DEF big
  <2> QED BY <2>1, <2>2 DEF Covered
<1>8. Covered(inUse') = U \cup PagesOf(b)
  BY <1>4 DEF U, Covered
<1>9. bitmap' = Covered(G)
  <2>1. CASE inUse # {}
    BY <1>1, <1>4, <1>5, <1>6, <1>7, <2>1
  <2>2. CASE inUse = {}
    <3>1. U = {}
      BY <2>2 DEF U, Covered
    <3>2. F = {big}
      BY <1>1, <1>3, <3>1, AllFree
    <3>3. Covered(F) = PagesOf(big)
      BY <3>2 DEF Covered
    <3>4. bitmap \subseteq PagesOf(big)
      BY <1>1, <3>1, <3>3 DEF Sound, TypeOK
    <3> QED BY <1>4, <1>5, <1>7, <3>3, <3>4
  <2> QED BY <2>1, <2>2
<1>10. \A c, d \in inUse' : c # d => PagesOf(c) \cap PagesOf(d) = {}
  <2>1. \A c \in inUse : PagesOf(c) \subseteq U
    BY DEF U, Covered
  <2> QED BY <1>1, <1>4, <1>5, <2>1
<1>11. Partition'
  <2>1. Held(avail)' = G
    BY DEF Held, G
  <2>2. Covered(Held(avail))' = Covered(G) /\ Covered(inUse)' = Covered(inUse')
    BY <2>1 DEF Covered, PagesOf
  <2>3. Lists(avail)'
    BY <1>3 DEF Lists
  <2>4. Sound(G, Covered(inUse'))
    BY <1>5, <1>8
  <2>5. Sound(Held(avail), Covered(inUse))'
    BY <2>1, <2>2, <2>4 DEF Sound, Covered, PagesOf, Twin
  <2>6. (\A c, d \in inUse : c # d => PagesOf(c) \cap PagesOf(d) = {})'
    BY <1>10 DEF PagesOf
  <2> QED BY <1>9, <2>2, <2>3, <2>5, <2>6 DEF Partition
<1>12. TypeOK'
  <2>1. ASSUME NEW k \in Ord, NEW a \in ToSet(avail'[k])
        PROVE  Aligned(a, k)
    <3>1. [addr |-> a, ord |-> k] \in {[addr |-> c, ord |-> k] : c \in ToSet(avail'[k])}
      OBVIOUS
    <3>2. [addr |-> a, ord |-> k] \in G
      BY <3>1 DEF Held, G
    <3> QED BY <1>5, <3>2 DEF Sound
  <2>2. bitmap' \subseteq Page
    <3>1. \A c \in G : PagesOf(c) \subseteq Page
      BY <1>5 DEF Sound
    <3> QED BY <1>9, <3>1 DEF Covered
  <2> QED BY <1>1, <1>3, <1>4, <1>7, <2>1, <2>2 DEF TypeOK, Lists
<1> QED BY <1>4, <1>11, <1>12 DEF IInv

\* What coalescing reaches when block b is freed: the block and every buddy it
\* was merged with, and no other page.
LEMMA Coalescing ==
  ASSUME NEW b \in Block, Aligned(b.addr, b.ord)
  PROVE  LET final == FinalOrd(b.addr, b.ord)
             all == [addr |-> Merged(b.addr, final), ord |-> final]
         IN  /\ final \in b.ord .. MaxOrd /\ ~Coalesces(b.addr, final)
             /\ all \in Block /\ Aligned(all.addr, final) /\ PagesOf(all) \subseteq Page
             /\ PagesOf(b) \subseteq PagesOf(all)
             /\ \A k \in b.ord .. final - 1 :
                  /\ Coalesces(b.addr, k) /\ k \in Ord
                  /\ MergedBuddy(b.addr, k) \in Page
                  /\ Pages(MergedBuddy(b.addr, k), k) \subseteq PagesOf(all)
                  /\ Pages(MergedBuddy(b.addr, k), k) \cap PagesOf(b) = {}
             /\ \A x \in PagesOf(all) : x \notin PagesOf(b) =>
                  \E k \in b.ord .. final - 1 : x \in Pages(MergedBuddy(b.addr, k), k)
<1> DEFINE a == b.addr
           o == b.ord
           final == FinalOrd(a, o)
           all == [addr |-> Merged(a, final), ord |-> final]
           Up(k) == Pages(Merged(a, k), k)
<1>1. /\ a \in Nat /\ a \in Page /\ o \in Nat /\ o <= MaxOrd /\ MaxOrd \in Nat
      /\ Page \subseteq Nat /\ Ord = 0 .. MaxOrd /\ Aligned(a, o) /\ PagesOf(b) = Pages(a, o)
  BY Types DEF Ord, PagesOf
<1> HIDE DEF a, o
<1>2. /\ final \in o .. MaxOrd /\ ~Coalesces(a, final)
      /\ \A j \in o .. final - 1 : Coalesces(a, j)
  <2> DEFINE Stops == {k \in o .. MaxOrd : ~Coalesces(a, k)}
  <2>1. MaxOrd \in Stops /\ Stops \in SUBSET Nat
    BY <1>1 DEF Coalesces
  <2>2. PICK k \in Stops : \A j \in Stops : k <= j
    <3> HIDE DEF Stops
    <3> QED BY <2>1, LeastExists
  <2>3. k \in o .. MaxOrd /\ ~Coalesces(a, k) /\ \A j \in o .. k - 1 : Coalesces(a, j)
    <3>1. \A j \in o .. k - 1 : j \in o .. MaxOrd /\ ~(k <= j)
      BY <1>1, <2>2
    <3> QED BY <2>2, <3>1
  <2> QED BY <2>3 DEF FinalOrd
<1> HIDE DEF final
<1>3. final \in Nat /\ final \in Ord /\ final <= MaxOrd /\ o <= final
  BY <1>1, <1>2
<1>4. ASSUME NEW i \in Nat, NEW k \in Nat, i <= k
      PROVE  Up(i) \subseteq Up(k)
  <2>1. /\ Merged(a, i) \in Nat /\ Aligned(Merged(a, i), i) /\ a \in Up(i)
        /\ Merged(a, k) \in Nat /\ Aligned(Merged(a, k), k) /\ a \in Up(k)
    BY <1>1, Region
  <2> DEFINE u == Merged(a, i)
             v == Merged(a, k)
  <2>2. u \in Int /\ v \in Int /\ Aligned(u, i) /\ Aligned(v, k) /\ Pages(u, i) \cap Pages(v, k) # {}
    BY <2>1
  <2> HIDE DEF u, v
  <2>3. Pages(u, i) \subseteq Pages(v, k)
    BY <1>4, <2>2, Nested
  <2> QED BY <2>3 DEF u, v
<1>5. Up(o) = PagesOf(b)
  BY <1>1, MergedIs
<1>6. Up(final) \subseteq Page
  <2>1. /\ Merged(a, final) \in Nat /\ Aligned(Merged(a, final), final) /\ a \in Up(final)
    BY <1>1, <1>3, Region
  <2> DEFINE u == Merged(a, final)
  <2>2. u \in Int /\ Pages(u, final) \cap Pages(0, MaxOrd) # {} /\ Aligned(u, final)
    BY <1>1, <2>1, PageIsAll
  <2> HIDE DEF u
  <2>3. Pages(u, final) \subseteq Pages(0, MaxOrd)
    BY <1>1, <1>3, <2>2, PageIsAll, Nested
  <2> QED BY <2>3, PageIsAll DEF u
<1>7. all \in Block /\ Aligned(all.addr, final) /\ PagesOf(all) = Up(final)
  <2>1. Merged(a, final) \in Nat /\ Aligned(Merged(a, final), final)
    BY <1>1, <1>3, Region
  <2>2. Merged(a, final) \in Up(final)
    BY <1>3, <2>1, PowerType DEF Pages
  <2> QED BY <1>3, <1>6, <2>1, <2>2 DEF Block, PagesOf
<1>8. ASSUME NEW k \in o .. final - 1
      PROVE  /\ k \in Ord /\ k \in Nat /\ Coalesces(a, k)
             /\ MergedBuddy(a, k) \in Page
             /\ Pages(MergedBuddy(a, k), k) \subseteq Up(final)
             /\ Pages(MergedBuddy(a, k), k) \cap PagesOf(b) = {}
             /\ Up(k + 1) = Up(k) \cup Pages(MergedBuddy(a, k), k)
  <2>1. /\ k \in Ord /\ k \in Nat /\ k + 1 \in Nat /\ k + 1 <= final /\ o <= k
    BY <1>1, <1>3
  <2>2. /\ Up(k + 1) = Up(k) \cup Pages(MergedBuddy(a, k), k)
        /\ Up(k) \cap Pages(MergedBuddy(a, k), k) = {}
        /\ MergedBuddy(a, k) \in Int
    BY <1>1, <2>1, Climb
  <2>3. Up(k + 1) \subseteq Up(final)
    BY <1>3, <1>4, <2>1
  <2>4. PagesOf(b) \subseteq Up(k)
    BY <1>1, <1>4, <1>5, <2>1
  <2>5. MergedBuddy(a, k) \in Pages(MergedBuddy(a, k), k)
    BY <2>1, <2>2, PowerType DEF Pages
  <2> QED BY <1>2, <1>6, <2>1, <2>2, <2>3, <2>4, <2>5
<1>9. ASSUME NEW x \in Up(final), x \notin PagesOf(b)
      PROVE  \E k \in o .. final - 1 : x \in Pages(MergedBuddy(a, k), k)
  <2> DEFINE S == {k \in o .. final : x \in Up(k)}
  <2>1. final \in S /\ S \in SUBSET Nat
    BY <1>1, <1>3
  <2>2. PICK k \in S : \A j \in S : k <= j
    <3> HIDE DEF S
    <3> QED BY <2>1, LeastExists
  <2>3. k # o
    BY <1>5, <1>9, <2>2
  <2>4. k - 1 \in o .. final - 1 /\ (k - 1) + 1 = k /\ k - 1 \in o .. final /\ ~(k <= k - 1)
    BY <1>1, <1>3, <2>2, <2>3
  <2>5. x \notin Up(k - 1)
    BY <2>2, <2>4
  <2>6. Up(k) = Up(k - 1) \cup Pages(MergedBuddy(a, k - 1), k - 1)
    <3> DEFINE j == k - 1
    <3>1. j \in o .. final - 1 /\ j + 1 = k
      BY <2>4
    <3> HIDE DEF j
    <3>2. Up(j + 1) = Up(j) \cup Pages(MergedBuddy(a, j), j)
      BY <1>8, <3>1
    <3>3. Up(k) = Up(j) \cup Pages(MergedBuddy(a, j), j)
      BY <3>1, <3>2
    <3> QED BY <3>3 DEF j
  <2> QED BY <2>2, <2>4, <2>5, <2>6
<1>10. PagesOf(b) \subseteq Up(final)
  BY <1>1, <1>3, <1>4, <1>5
<1> HIDE DEF Up, all
<1> QED BY <1>2, <1>6, <1>7, <1>8, <1>9, <1>10 DEF a, o, final, all

\* The buddy that is merged with is the first page of a free block that is no
\* larger than what was merged so far.
LEMMA BuddyIsFree ==
  ASSUME Partition, NEW b \in inUse, b \in Block, Aligned(b.addr, b.ord),
         NEW k \in b.ord .. FinalOrd(b.addr, b.ord) - 1
  PROVE  \E c \in Held(avail) : c.ord <= k /\ c.addr = MergedBuddy(b.addr, k)
<1> DEFINE a == b.addr
           F == Held(avail)
           U == Covered(inUse)
           p == MergedBuddy(a, k)
<1>1. k \in Ord /\ k \in Nat /\ k + 1 \in Nat /\ a \in Nat /\ b.ord \in Nat /\ Coalesces(a, k)
  <2>1. k \in Ord /\ Coalesces(a, k)
    BY Coalescing
  <2> QED BY <2>1, Types
<1>2. /\ Sound(F, U) /\ bitmap = Covered(F) /\ PagesOf(b) \subseteq U /\ a \in PagesOf(b)
  BY Types DEF Partition, Covered
<1>3. p \in Covered(F)
  BY <1>1, <1>2 DEF Coalesces
<1>4. PICK c \in F : p \in PagesOf(c)
  BY <1>3 DEF Covered
<1>5. /\ c \in Block /\ Aligned(c.addr, c.ord) /\ PagesOf(c) \cap U = {}
      /\ c.addr \in Int /\ c.ord \in Nat /\ PagesOf(c) = Pages(c.addr, c.ord)
  <2>1. c \in Block /\ Aligned(c.addr, c.ord) /\ PagesOf(c) \cap U = {}
    BY <1>2 DEF Sound
  <2> QED BY <2>1, Types DEF PagesOf
<1>6. /\ p \in Int /\ Aligned(p, k)
      /\ Pages(Merged(a, k + 1), k + 1) = Pages(Merged(a, k), k) \cup Pages(p, k)
      /\ a \in Pages(Merged(a, k), k)
      /\ Merged(a, k + 1) \in Int /\ Aligned(Merged(a, k + 1), k + 1)
  <2>1. Merged(a, k + 1) \in Nat /\ Aligned(Merged(a, k + 1), k + 1)
    BY <1>1, Region
  <2>2. a \in Pages(Merged(a, k), k)
    BY <1>1, Region
  <2>3. /\ p \in Int /\ Aligned(p, k)
        /\ Pages(Merged(a, k + 1), k + 1) = Pages(Merged(a, k), k) \cup Pages(p, k)
    <3> HIDE DEF a
    <3> QED BY <1>1, Climb
  <2> QED BY <2>1, <2>2, <2>3
<1> HIDE DEF p, F, U, a
<1>7. p \in Pages(p, k) /\ p \in Pages(p, c.ord)
  BY <1>1, <1>5, <1>6, PowerType DEF Pages
<1>8. c.ord <= k
  <2>1. ASSUME k + 1 <= c.ord
        PROVE  FALSE
    <3> DEFINE e == Merged(a, k + 1)
    <3>1. Pages(e, k + 1) \cap Pages(c.addr, c.ord) # {} /\ e \in Int /\ Aligned(e, k + 1)
      BY <1>4, <1>5, <1>6, <1>7
    <3>2. a \in Pages(e, k + 1)
      BY <1>6
    <3> HIDE DEF e
    <3>3. Pages(e, k + 1) \subseteq Pages(c.addr, c.ord)
      BY <1>1, <1>5, <2>1, <3>1, Nested
    <3> QED BY <1>2, <1>5, <3>2, <3>3
  <2> QED BY <1>1, <1>5, <2>1
<1>9. c.addr = p
  <2>1. Aligned(p, c.ord)
    BY <1>1, <1>5, <1>6, <1>8, AlignedBelow
  <2>2. Pages(p, c.ord) \cap Pages(c.addr, c.ord) # {}
    BY <1>4, <1>5, <1>7
  <2>3. c.ord <= c.ord
    BY <1>5
  <2> QED BY <1>5, <1>6, <2>1, <2>2, <2>3, Nested
<1> QED BY <1>8, <1>9 DEF p, F, a

\* The free blocks and the bitmap after block b was freed.
LEMMA FreeLists ==
  ASSUME IInv, ~misjudged, NEW b \in inUse, Free(b)
  PROVE  LET final == FinalOrd(b.addr, b.ord)
             all == [addr |-> Merged(b.addr, final), ord |-> final]
         IN  /\ b \in Block /\ Aligned(b.addr, b.ord) /\ PagesOf(b) \subseteq Covered(inUse)
             /\ all \notin Held(avail)
             /\ Lists(avail')
             /\ \A c : c \in Held(avail') <=> c = all \/ (c \in Held(avail) /\ c.addr \notin Gone(b))
             /\ bitmap' = bitmap \cup PagesOf(all) /\ inUse' = inUse \ {b}
             /\ misjudged' = \E k \in b.ord .. final - 1 : MergedBuddy(b.addr, k) \notin ToSet(avail[k])
<1> DEFINE final == FinalOrd(b.addr, b.ord)
           all == [addr |-> Merged(b.addr, final), ord |-> final]
           rest == [k \in Ord |-> Without(avail[k], Gone(b))]
<1>1. b \in Block /\ Aligned(b.addr, b.ord) /\ Lists(avail) /\ Sound(Held(avail), Covered(inUse))
  BY DEF IInv, TypeOK, Partition
<1>2. /\ avail' = [rest EXCEPT ![final] = <<Merged(b.addr, final)>> \o @]
      /\ bitmap' = bitmap \cup PagesOf(all) /\ inUse' = inUse \ {b}
      /\ misjudged' = \E k \in b.ord .. final - 1 : MergedBuddy(b.addr, k) \notin ToSet(avail[k])
  BY DEF Free, MarkedAfterFree, PagesOf, MergedOrds
<1>3. all \in Block /\ PagesOf(b) \subseteq PagesOf(all)
  BY <1>1, Coalescing
<1>4. PagesOf(b) \subseteq Covered(inUse) /\ b.addr \in PagesOf(b)
  BY <1>1, Types DEF Covered
<1> HIDE DEF final
<1>5. all \notin Held(avail)
  <2> HIDE DEF all
  <2> QED BY <1>1, <1>3, <1>4 DEF Sound
<1>6. final \in Ord /\ Merged(b.addr, final) \in Page
  BY <1>3 DEF Block
<1>7. /\ Lists(avail')
      /\ \A c : c \in Held(avail') <=> c = all \/ (c \in Held(avail) /\ c.addr \notin Gone(b))
  <2> DEFINE n == Merged(b.addr, final)
  <2>1. n \in Page /\ [addr |-> n, ord |-> final] \notin Held(avail)
    BY <1>5, <1>6
  <2>2. /\ avail' = [k \in Ord |-> avail'[k]] /\ avail'[final] = <<n>> \o Without(avail[final], Gone(b))
        /\ \A k \in Ord : k # final => avail'[k] = Without(avail[k], Gone(b))
    BY <1>2, <1>6
  <2> HIDE DEF n
  <2>3. /\ Lists(avail')
        /\ \A c : c \in Held(avail') <=> \/ c \in Held(avail) /\ c.addr \notin Gone(b)
                                         \/ c = [addr |-> n, ord |-> final]
    BY <1>1, <1>6, <2>1, <2>2, PushedIs
  <2> QED BY <2>3 DEF n
<1> QED BY <1>1, <1>2, <1>4, <1>5, <1>7 DEF final

\* Merging with buddies that are free as blocks of the same order keeps the
\* partition.
LEMMA FreeKeeps ==
  ASSUME IInv, ~misjudged, NEW b \in inUse, Free(b), ~misjudged'
  PROVE  Partition'
<1> DEFINE final == FinalOrd(b.addr, b.ord)
           all == [addr |-> Merged(b.addr, final), ord |-> final]
           buddy(k) == [addr |-> MergedBuddy(b.addr, k), ord |-> k]
           F == Held(avail)
           G == Held(avail')
           U == Covered(inUse)
           V == Covered(inUse \ {b})
<1>1. /\ b \in Block /\ Aligned(b.addr, b.ord) /\ PagesOf(b) \subseteq U
      /\ all \notin F /\ Lists(avail') /\ \A c : c \in G <=> c = all \/ (c \in F /\ c.addr \notin Gone(b))
      /\ bitmap' = bitmap \cup PagesOf(all) /\ inUse' = inUse \ {b}
      /\ \A k \in b.ord .. final - 1 : MergedBuddy(b.addr, k) \in ToSet(avail[k])
  BY FreeLists
<1>2. /\ Lists(avail) /\ Sound(F, U) /\ bitmap = Covered(F)
      /\ \A c, d \in inUse : c # d => PagesOf(c) \cap PagesOf(d) = {}
  BY DEF IInv, Partition
<1>3. /\ F \subseteq Block /\ U \subseteq Page /\ Page \subseteq U \cup Covered(F)
      /\ \A c \in F : /\ Aligned(c.addr, c.ord) /\ PagesOf(c) \subseteq Page
                      /\ PagesOf(c) \cap U = {} /\ c.addr \in PagesOf(c)
      /\ \A c, d \in F : c # d => PagesOf(c) \cap PagesOf(d) = {}
      /\ \A c \in F : c.ord < MaxOrd => Twin(c) \notin F
  BY <1>2, Types DEF Sound
<1>4. /\ final \in b.ord .. MaxOrd /\ ~Coalesces(b.addr, final)
      /\ all \in Block /\ Aligned(all.addr, final) /\ PagesOf(all) \subseteq Page
      /\ PagesOf(b) \subseteq PagesOf(all)
      /\ \A k \in b.ord .. final - 1 :
           k \in Ord /\ Pages(MergedBuddy(b.addr, k), k) \subseteq PagesOf(all)
      /\ \A x \in PagesOf(all) : x \notin PagesOf(b) =>
           \E k \in b.ord .. final - 1 : x \in Pages(MergedBuddy(b.addr, k), k)
  BY <1>1, Coalescing
<1>5. all.ord = final /\ all.addr = Merged(b.addr, final) /\ final \in Nat /\ b.addr \in Nat /\ MaxOrd \in Nat
  BY <1>1, <1>4, Types
<1>6. Gone(b) = {MergedBuddy(b.addr, k) : k \in b.ord .. final - 1}
  BY DEF Gone, MergedOrds
<1> HIDE DEF final, all, F, G, U, V
<1>7. ASSUME NEW k \in b.ord .. final - 1
      PROVE  /\ buddy(k) \in F /\ PagesOf(buddy(k)) = Pages(MergedBuddy(b.addr, k), k)
             /\ PagesOf(buddy(k)) \subseteq PagesOf(all)
             /\ MergedBuddy(b.addr, k) \in PagesOf(buddy(k))
  <2>1. k \in Ord /\ MergedBuddy(b.addr, k) \in ToSet(avail[k])
    BY <1>1, <1>4
  <2>2. buddy(k) \in {[addr |-> p, ord |-> k] : p \in ToSet(avail[k])}
    BY <2>1
  <2>3. buddy(k) \in F
    BY <2>1, <2>2 DEF Held, F
  <2>4. PagesOf(buddy(k)) = Pages(MergedBuddy(b.addr, k), k)
    BY DEF PagesOf
  <2> QED BY <1>3, <1>4, <2>3, <2>4
<1>8. ASSUME NEW c \in F
      PROVE  c.addr \in Gone(b) <=> \E k \in b.ord .. final - 1 : c = buddy(k)
  <2>1. ASSUME NEW k \in b.ord .. final - 1, c.addr = MergedBuddy(b.addr, k)
        PROVE  c = buddy(k)
    <3> DEFINE d == buddy(k)
    <3>1. d \in F /\ c.addr \in PagesOf(d)
      BY <1>7, <2>1
    <3> HIDE DEF d
    <3>2. c = d
      BY <1>3, <3>1
    <3> QED BY <3>2 DEF d
  <2> QED BY <1>6, <2>1
<1>9. ASSUME NEW c \in G
      PROVE  c = all \/ (c \in F /\ \A k \in b.ord .. final - 1 : c # buddy(k))
  BY <1>1, <1>8
<1>10. ASSUME NEW c \in F, c \in G
       PROVE  PagesOf(c) \cap PagesOf(all) = {}
  <2>1. \A k \in b.ord .. final - 1 : c # buddy(k)
    BY <1>1, <1>9, <1>10
  <2>2. \A k \in b.ord .. final - 1 :
          PagesOf(c) \cap Pages(MergedBuddy(b.addr, k), k) = {}
    <3>1. ASSUME NEW k \in b.ord .. final - 1
          PROVE  PagesOf(c) \cap Pages(MergedBuddy(b.addr, k), k) = {}
      <4> DEFINE d == buddy(k)
      <4>1. d \in F /\ c # d /\ PagesOf(d) = Pages(MergedBuddy(b.addr, k), k)
        BY <1>7, <2>1
      <4> HIDE DEF d
      <4> QED BY <1>3, <1>10, <4>1
    <3> QED BY <3>1
  <2>3. PagesOf(c) \cap PagesOf(b) = {}
    BY <1>1, <1>3
  <2> QED BY <1>4, <2>2, <2>3
<1>11. Covered(G) = Covered(F) \cup PagesOf(b)
  <2>1. all \in G
    BY <1>1
  <2>2. ASSUME NEW x \in Covered(G)
        PROVE  x \in Covered(F) \cup PagesOf(b)
    <3>1. PICK c \in G : x \in PagesOf(c)
      BY <2>2 DEF Covered
    <3>2. CASE c \in F
      BY <3>1, <3>2 DEF Covered
    <3>3. CASE c = all /\ x \notin PagesOf(b)
      <4>1. PICK k \in b.ord .. final - 1 : x \in PagesOf(buddy(k))
        BY <1>4, <1>7, <3>1, <3>3
      <4> QED BY <1>7, <4>1 DEF Covered
    <3> QED BY <1>9, <3>2, <3>3
  <2>3. ASSUME NEW x \in Covered(F)
        PROVE  x \in Covered(G)
    <3>1. PICK c \in F : x \in PagesOf(c)
      BY <2>3 DEF Covered
    <3>2. CASE c.addr \in Gone(b)
      <4>1. PICK k \in b.ord .. final - 1 : c = buddy(k)
        BY <1>8, <3>2
      <4>2. x \in PagesOf(all)
        BY <1>7, <3>1, <4>1
      <4> QED BY <2>1, <4>2 DEF Covered
    <3>3. CASE c.addr \notin Gone(b)
      <4>1. c \in G
        BY <1>1, <3>3
      <4> QED BY <3>1, <4>1 DEF Covered
    <3> QED BY <3>2, <3>3
  <2>4. PagesOf(b) \subseteq Covered(G)
    BY <1>4, <2>1 DEF Covered
  <2> QED BY <2>2, <2>3, <2>4
<1>12. bitmap' = Covered(G)
  <2>1. PagesOf(all) \subseteq Covered(G)
    BY <1>1 DEF Covered
  <2>2. PagesOf(all) \subseteq Covered(F) \cup PagesOf(b)
    BY <1>11, <2>1
  <2> QED BY <1>1, <1>2, <1>4, <1>11, <2>1
<1>13. U = V \cup PagesOf(b) /\ V \cap PagesOf(b) = {} /\ V \subseteq U
  <2>1. \A x \in U : x \in V \/ x \in PagesOf(b)
    BY DEF U, V, Covered
  <2>2. \A x \in V : x \in U /\ x \notin PagesOf(b)
    BY <1>2 DEF U, V, Covered
  <2> QED BY <1>1, <2>1, <2>2
<1>14. ASSUME NEW c \in G, c.ord < MaxOrd
       PROVE  Twin(c) \notin G
  <2>1. ASSUME NEW d \in F, d.ord = final, d.addr = MergedBuddy(b.addr, final), final < MaxOrd
        PROVE  FALSE
    <3>1. MergedBuddy(b.addr, final) \in bitmap
      BY <1>2, <1>3, <2>1 DEF Covered
    <3> QED BY <1>4, <2>1, <3>1 DEF Coalesces
  <2>2. Twin(c).addr = BuddyOf(c.addr, c.ord) /\ Twin(c).ord = c.ord
    BY DEF Twin
  <2>3. CASE c = all
    <3>1. Twin(c).ord = final /\ Twin(c).addr = MergedBuddy(b.addr, final) /\ final < MaxOrd
      BY <1>5, <1>14, <2>2, <2>3 DEF MergedBuddy
    <3>2. Twin(c) \notin F
      BY <2>1, <3>1
    <3>3. Twin(c) # c
      <4>1. all.addr \in Nat /\ BuddyOf(all.addr, final) # all.addr
        BY <1>4, <1>5, Types, Pair
      <4> QED BY <1>5, <2>2, <2>3, <4>1
    <3> QED BY <1>9, <2>3, <3>2, <3>3
  <2>4. CASE c \in F
    <3>1. Twin(c) \notin F
      BY <1>3, <1>14, <2>4
    <3>2. ASSUME Twin(c) = all
          PROVE  FALSE
      <4>1. c.addr \in Nat /\ c.ord \in Nat /\ Aligned(c.addr, c.ord)
        BY <1>3, <2>4, Types
      <4>2. BuddyOf(BuddyOf(c.addr, c.ord), c.ord) = c.addr
        BY <4>1, Pair
      <4>3. c.ord = final /\ BuddyOf(all.addr, final) = c.addr
        BY <1>5, <2>2, <3>2, <4>2
      <4>4. c.addr = MergedBuddy(b.addr, final)
        BY <1>5, <4>3 DEF MergedBuddy
      <4> QED BY <1>14, <2>1, <2>4, <4>3, <4>4
    <3> QED BY <1>9, <3>1, <3>2
  <2> QED BY <1>9, <2>3, <2>4
<1>15. Sound(G, V)
  <2>1. \A c \in G : /\ c \in Block /\ Aligned(c.addr, c.ord) /\ PagesOf(c) \subseteq Page
                     /\ PagesOf(c) \cap V = {}
    <3>1. ASSUME NEW c \in G
          PROVE  /\ c \in Block /\ Aligned(c.addr, c.ord) /\ PagesOf(c) \subseteq Page
                 /\ PagesOf(c) \cap V = {}
      <4>1. CASE c = all
        <5>1. PagesOf(all) \cap V = {}
          <6>1. Covered(F) \cap U = {}
            BY <1>3 DEF Covered
          <6>2. PagesOf(all) \subseteq Covered(F) \cup PagesOf(b)
            BY <1>1, <1>11 DEF Covered
          <6> QED BY <1>13, <6>1, <6>2
        <5> QED BY <1>4, <1>5, <4>1, <5>1
      <4>2. CASE c \in F
        BY <1>3, <1>13, <4>2
      <4> QED BY <1>9, <4>1, <4>2
    <3> QED BY <3>1
  <2>2. \A c, d \in G : c # d => PagesOf(c) \cap PagesOf(d) = {}
    BY <1>3, <1>9, <1>10
  <2>3. V \subseteq Page /\ Page \subseteq V \cup Covered(G)
    BY <1>3, <1>11, <1>13
  <2> QED BY <1>14, <2>1, <2>2, <2>3 DEF Sound
<1>16. Covered(inUse)' = V /\ Held(avail)' = G /\ Covered(Held(avail))' = Covered(G)
  <2>1. Held(avail)' = G
    BY DEF Held, G
  <2>2. Covered(inUse)' = Covered(inUse')
    BY DEF Covered, PagesOf
  <2>3. Covered(Held(avail))' = Covered(G)
    BY <2>1 DEF Covered, PagesOf
  <2> QED BY <1>1, <2>1, <2>2, <2>3 DEF V
<1>17. Sound(Held(avail), Covered(inUse))'
  BY <1>15, <1>16 DEF Sound, Covered, PagesOf, Twin
<1>18. (\A c, d \in inUse : c # d => PagesOf(c) \cap PagesOf(d) = {})'
  BY <1>1, <1>2 DEF PagesOf
<1>19. Lists(avail)'
  BY <1>1 DEF Lists
<1> QED BY <1>12, <1>16, <1>17, <1>18, <1>19 DEF Partition

\* Merging with a buddy that is not free as a block of the same order takes
\* pages that are in use: were all of its pages free, they would be one block.
LEMMA FreeTakes ==
  ASSUME IInv, ~misjudged, NEW b \in inUse, Free(b), misjudged'
  PROVE  Covered(inUse') \cap Covered(Held(avail')) # {}
<1> DEFINE final == FinalOrd(b.addr, b.ord)
           all == [addr |-> Merged(b.addr, final), ord |-> final]
           F == Held(avail)
           U == Covered(inUse)
<1>1. /\ b \in Block /\ Aligned(b.addr, b.ord)
      /\ all \in Held(avail') /\ inUse' = inUse \ {b}
      /\ \E k \in b.ord .. final - 1 : MergedBuddy(b.addr, k) \notin ToSet(avail[k])
  BY FreeLists
<1>2. Partition /\ avail \in [Ord -> Seq(Page)] /\ Sound(F, U)
  BY DEF IInv, TypeOK, Partition
<1>3. PICK k \in b.ord .. final - 1 : MergedBuddy(b.addr, k) \notin ToSet(avail[k])
  BY <1>1
<1> DEFINE p == MergedBuddy(b.addr, k)
<1>4. PICK c \in F : c.ord <= k /\ c.addr = p
  BY <1>1, <1>2, <1>3, BuddyIsFree
<1>5. /\ k \in Ord /\ p \in Page /\ Pages(p, k) \subseteq PagesOf(all)
      /\ Pages(p, k) \cap PagesOf(b) = {} /\ PagesOf(all) \subseteq Page
  BY <1>1, <1>3, Coalescing
<1>6. /\ c \in Block /\ c.ord \in Ord /\ c.ord \in Nat /\ c.addr \in PagesOf(c)
      /\ k \in Nat /\ b.addr \in Nat
  BY <1>1, <1>2, <1>5, Types DEF Sound
<1>7. Aligned(p, k) /\ p \in Int
  BY <1>3, <1>6, Climb
<1> HIDE DEF final, all, F, U, p
<1>8. c.ord < k
  <2>1. CASE c.ord = k
    <3>1. PICK i \in 1 .. Len(avail[k]) : avail[k][i] = p
      BY <1>2, <1>4, <1>6, <2>1, HeldIs DEF F
    <3>2. p \in ToSet(avail[k])
      <4>1. avail[k] \in Seq(Page)
        BY <1>2, <1>5
      <4>2. i \in DOMAIN avail[k]
        BY <3>1, <4>1
      <4> QED BY <3>1, <4>2 DEF ToSet
    <3> QED BY <1>3, <3>2 DEF p
  <2> QED BY <1>4, <1>6, <2>1
<1>9. PICK x \in Pages(p, k) : x \notin Covered(F)
  <2>1. ASSUME Pages(p, k) \subseteq Covered(F)
        PROVE  FALSE
    <3>1. PICK d \in F : k <= d.ord /\ Pages(p, k) \subseteq PagesOf(d)
      BY <1>2, <1>5, <1>7, <2>1, OneFreeBlock
    <3>2. p \in Pages(p, k)
      BY <1>6, <1>7, PowerType DEF Pages
    <3>3. d.ord \in Nat
      BY <1>2, Types DEF Sound
    <3>4. d = c
      BY <1>2, <1>4, <1>6, <3>1, <3>2 DEF Sound
    <3> QED BY <1>6, <1>8, <3>1, <3>3, <3>4
  <2> QED BY <2>1
<1>10. x \in PagesOf(all) /\ x \notin PagesOf(b) /\ x \in U
  BY <1>2, <1>5, <1>9 DEF Sound
<1>11. PICK d \in inUse : x \in PagesOf(d)
  BY <1>10 DEF U, Covered
<1>12. x \in Covered(inUse')
  BY <1>1, <1>10, <1>11 DEF Covered
<1>13. x \in Covered(Held(avail'))
  BY <1>1, <1>10 DEF Covered
<1> QED BY <1>12, <1>13

LEMMA FreeInv ==
  ASSUME IInv, ~misjudged, NEW b \in inUse, Free(b)
  PROVE  IInv'
<1> DEFINE final == FinalOrd(b.addr, b.ord)
           all == [addr |-> Merged(b.addr, final), ord |-> final]
<1>1. /\ b \in Block /\ Aligned(b.addr, b.ord)
      /\ Lists(avail')
      /\ \A c : c \in Held(avail') <=> c = all \/ (c \in Held(avail) /\ c.addr \notin Gone(b))
      /\ bitmap' = bitmap \cup PagesOf(all) /\ inUse' = inUse \ {b}
      /\ misjudged' \in BOOLEAN
  BY FreeLists
<1>2. all \in Block /\ Aligned(all.addr, all.ord) /\ PagesOf(all) \subseteq Page
  BY <1>1, Coalescing
<1> HIDE DEF all
<1>3. TypeOK /\ Sound(Held(avail), Covered(inUse))
  BY DEF IInv, Partition
<1>4. TypeOK'
  <2>1. ASSUME NEW k \in Ord, NEW a \in ToSet(avail'[k])
        PROVE  Aligned(a, k)
    <3> DEFINE c == [addr |-> a, ord |-> k]
    <3>1. c \in {[addr |-> d, ord |-> k] : d \in ToSet(avail'[k])}
      OBVIOUS
    <3>2. c \in Held(avail')
      BY <3>1 DEF Held
    <3>3. c.addr = a /\ c.ord = k
      OBVIOUS
    <3> HIDE DEF c
    <3>4. c = all \/ c \in Held(avail)
      BY <1>1, <3>2
    <3> QED BY <1>2, <1>3, <3>3, <3>4 DEF Sound
  <2> QED BY <1>1, <1>2, <1>3, <2>1 DEF TypeOK, Lists
<1>5. CASE misjudged'
  <2>1. Covered(inUse') \cap Covered(Held(avail')) # {}
    BY <1>5, FreeTakes
  <2>2. Covered(inUse)' = Covered(inUse') /\ Covered(Held(avail))' = Covered(Held(avail'))
    BY DEF Covered, PagesOf, Held
  <2> QED BY <1>4, <1>5, <2>1, <2>2 DEF IInv
<1>6. CASE ~misjudged'
  BY <1>4, <1>6, FreeKeeps DEF IInv
<1> QED BY <1>5, <1>6

LEMMA NextInv ==
  ASSUME IInv, [Next]_vars
  PROVE  IInv'
<1>1. ASSUME NEW req \in Orders, ~misjudged, Alloc(req)
      PROVE  IInv'
  BY <1>1, AllocInv
<1>2. ASSUME NEW b \in inUse, ~misjudged, Free(b)
      PROVE  IInv'
  BY <1>2, FreeInv
<1>3. CASE UNCHANGED vars
  <2>1. avail' = avail /\ bitmap' = bitmap /\ inUse' = inUse /\ misjudged' = misjudged
    BY <1>3 DEF vars
  <2>2. Held(avail)' = Held(avail) /\ Covered(inUse)' = Covered(inUse)
    BY <2>1 DEF Held, Covered, PagesOf
  <2>3. Covered(Held(avail))' = Covered(Held(avail))
    BY <2>2 DEF Covered, PagesOf
  <2>4. TypeOK'
    BY <2>1 DEF IInv, TypeOK
  <2>5. ASSUME Partition
        PROVE  Partition'
    <3>1. Lists(avail)'
      BY <2>1, <2>5 DEF Partition, Lists
    <3>2. Sound(Held(avail), Covered(inUse))'
      BY <2>2, <2>3, <2>5 DEF Partition, Sound, PagesOf, Twin, Covered
    <3>3. (\A b, c \in inUse : b # c => PagesOf(b) \cap PagesOf(c) = {})'
      BY <2>1, <2>5 DEF Partition, PagesOf
    <3> QED BY <2>1, <2>3, <2>5, <3>1, <3>2, <3>3 DEF Partition
  <2> QED BY <2>1, <2>2, <2>3, <2>4, <2>5 DEF IInv
<1> QED BY <1>1, <1>2, <1>3 DEF Next

-----------------------------------------------------------------------------
(***************************************************************************)
(* What callers rely on, and what they get.                                *)
(***************************************************************************)
LEMMA AlwaysInv == Spec => []IInv
<1>1. Init => IInv
  BY InitInv
<1>2. IInv /\ [Next]_vars => IInv'
  BY NextInv
<1> QED BY <1>1, <1>2, PTL DEF Spec

LEMMA SameNames ==
  /\ InUsePages = Covered(inUse) /\ FreeBlocks = Held(avail)
  /\ FreePages = Covered(Held(avail))
BY DEF InUsePages, FreeBlocks, Held, FreePages, Covered, PagesOf

\* In whatever order blocks are allocated and freed, buddy_alloc_raw and
\* buddy_free_raw keep the free lists and the bitmap a description of the memory
\* that is not in use, one block again when all was freed, until a free merges
\* with a buddy that is not free as a block of the same order.
THEOREM FreeListsAlwaysCorrect == Spec => []FreeListsCorrect
<1>1. ASSUME IInv
      PROVE  FreeListsCorrect
  <2> SUFFICES ASSUME ~misjudged
               PROVE  PagesAccounted /\ BitmapMarksFree /\ OnlyEntriesUnlinked /\ WholeAgain
    BY <1>1 DEF FreeListsCorrect, IInv
  <2>1. Partition /\ TypeOK
    BY <1>1 DEF IInv
  <2>2. /\ Sound(Held(avail), Covered(inUse))
        /\ \A b, c \in inUse : b # c => PagesOf(b) \cap PagesOf(c) = {}
        /\ inUse # {} => bitmap = Covered(Held(avail))
    BY <2>1 DEF Partition
  <2>3. PagesAccounted
    <3>1. FreePages \subseteq Page
      <4>1. \A b \in Held(avail) : PagesOf(b) \subseteq Page
        BY <2>2 DEF Sound
      <4> QED BY <4>1, SameNames DEF Covered
    <3>2. InUsePages \subseteq Page /\ Page \subseteq InUsePages \cup FreePages
      BY <2>2, SameNames DEF Sound
    <3>3. \A b, c \in FreeBlocks :
            b # c => Pages(b.addr, b.ord) \cap Pages(c.addr, c.ord) = {}
      BY <2>2, SameNames DEF Sound, PagesOf
    <3>4. \A b, c \in inUse : b # c => Pages(b.addr, b.ord) \cap Pages(c.addr, c.ord) = {}
      BY <2>2 DEF PagesOf
    <3> QED BY <3>1, <3>2, <3>3, <3>4 DEF PagesAccounted
  <2>4. BitmapMarksFree
    BY <2>2, SameNames DEF BitmapMarksFree
  <2>5. OnlyEntriesUnlinked
    <3>1. ASSUME NEW b \in inUse, NEW p \in Gone(b)
          PROVE  \E k \in Ord : p \in ToSet(avail[k])
      <4>1. b \in Block /\ Aligned(b.addr, b.ord)
        BY <2>1 DEF TypeOK
      <4>2. PICK k \in b.ord .. FinalOrd(b.addr, b.ord) - 1 : p = MergedBuddy(b.addr, k)
        BY DEF Gone, MergedOrds
      <4>3. PICK c \in Held(avail) : c.addr = p
        BY <2>1, <4>1, <4>2, BuddyIsFree
      <4> QED BY <4>3 DEF Held
    <3> QED BY <3>1 DEF OnlyEntriesUnlinked
  <2>6. WholeAgain
    <3>1. ASSUME inUse = {}
          PROVE  FreeBlocks = {[addr |-> 0, ord |-> MaxOrd]}
      <4>1. Covered(inUse) = {}
        BY <3>1 DEF Covered
      <4> QED BY <2>2, <4>1, AllFree, SameNames
    <3> QED BY <3>1 DEF WholeAgain
  <2> QED BY <2>3, <2>4, <2>5, <2>6
<1> QED BY <1>1, AlwaysInv, PTL

\* Pages that callers hold are on a free list exactly when a free was misjudged:
\* the first misjudged free always takes such pages, and nothing else does.
THEOREM OnlyMisjudgedFreesTake == Spec => []InUseTakenByMisjudged
<1>1. ASSUME IInv
      PROVE  InUseTakenByMisjudged
  <2>1. ASSUME ~misjudged
        PROVE  InUsePages \cap FreePages = {}
    <3>1. Sound(Held(avail), Covered(inUse))
      BY <1>1, <2>1 DEF IInv, Partition
    <3> QED BY <3>1, SameNames DEF Sound, Covered
  <2> QED BY <1>1, <2>1, SameNames DEF IInv, TypeOK, InUseTakenByMisjudged
<1> QED BY <1>1, AlwaysInv, PTL

-----------------------------------------------------------------------------
(***************************************************************************)
(* The file system: paths.                                                 *)
(***************************************************************************)
AllPaths == Seq(Name)
Top == << >>
Sub(s, e) == Append(s, e)      \* the path of an entry
Cat(s, t) == s \o t
From(p, i) == SubSeq(p, i, Len(p))

LEMMA TopIs ==
  Top \in AllPaths /\ Len(Top) = 0
  BY EmptySeq DEF Top, AllPaths

LEMMA SubIs ==
  ASSUME NEW s \in AllPaths, NEW e \in Name
  PROVE  /\ Sub(s, e) \in AllPaths /\ Sub(s, e) # Top
         /\ Len(Sub(s, e)) = Len(s) + 1 /\ Len(s) \in Nat
         /\ Sub(s, e)[1] = IF s = Top THEN e ELSE s[1]
<1> USE DEF AllPaths, Top, Sub
<1>1. /\ Append(s, e) \in Seq(Name) /\ Append(s, e) # << >>
      /\ Len(Append(s, e)) = Len(s) + 1 /\ Len(s) \in Nat
      /\ \A i \in 1 .. Len(s) : Append(s, e)[i] = s[i]
      /\ Append(s, e)[Len(s) + 1] = e
  BY AppendProperties, LenProperties
<1>2. s # << >> => Len(s) \in Nat \ {0}
  BY EmptySeq
<1>3. s = << >> => Len(s) = 0
  BY EmptySeq
<1> QED BY <1>1, <1>2, <1>3

LEMMA SubDiffers ==
  ASSUME NEW s \in AllPaths, NEW t \in AllPaths, NEW e \in Name, NEW f \in Name,
         Sub(s, e) = Sub(t, f)
  PROVE  s = t /\ e = f
<1>1. Append(s, e) = Append(t, f) <=> s = t /\ e = f
  BY AppendInjective DEF AllPaths
<1> QED BY <1>1 DEF Sub

LEMMA IsSub ==
  ASSUME NEW s \in AllPaths, s # Top
  PROVE  \E t \in AllPaths, e \in Name : s = Sub(t, e)
  BY SequenceEmptyOrAppend DEF AllPaths, Top, Sub

LEMMA CatIs ==
  ASSUME NEW s \in AllPaths, NEW t \in AllPaths
  PROVE  /\ Cat(s, t) \in AllPaths /\ Len(Cat(s, t)) = Len(s) + Len(t)
         /\ Cat(s, t) = Top <=> s = Top /\ t = Top
         /\ Cat(s, t) = s <=> t = Top
         /\ Cat(s, Top) = s /\ Cat(Top, t) = t
<1> USE DEF AllPaths, Top, Cat
<1>1. s \o t \in Seq(Name) /\ Len(s \o t) = Len(s) + Len(t)
  BY ConcatProperties
<1>2. s \o t = << >> <=> s = << >> /\ t = << >>
  BY ConcatEqualIffEmpty
<1>3. s \o t = s <=> t = << >>
  BY ConcatEqualIffEmpty
<1>4. s \o << >> = s /\ << >> \o t = t
  BY ConcatEmptySeq
<1> QED BY <1>1, <1>2, <1>3, <1>4

LEMMA CatAssociates ==
  ASSUME NEW s \in AllPaths, NEW t \in AllPaths, NEW u \in AllPaths
  PROVE  Cat(Cat(s, t), u) = Cat(s, Cat(t, u))
<1>1. (s \o t) \o u = s \o (t \o u)
  BY ConcatAssociative DEF AllPaths
<1> QED BY <1>1 DEF Cat

LEMMA Single ==
  ASSUME NEW e \in Name
  PROVE  \E u \in AllPaths : u = << e >>
<1>1. << e >> \in Seq(Name)
  OBVIOUS
<1> QED BY <1>1 DEF AllPaths

LEMMA CatSub ==
  ASSUME NEW s \in AllPaths, NEW t \in AllPaths, NEW e \in Name
  PROVE  Cat(s, Sub(t, e)) = Sub(Cat(s, t), e)
<1>1. PICK u \in AllPaths : u = <<e>>
  BY Single
<1>2. Cat(s, t) \in AllPaths /\ Cat(Cat(s, t), u) = Cat(s, Cat(t, u))
  BY CatIs, CatAssociates
<1>3. PICK v \in AllPaths : v = Cat(s, t)
  BY <1>2
<1>4. Append(t, e) = t \o <<e>> /\ Append(v, e) = v \o <<e>>
  BY AppendIsConcat DEF AllPaths
<1> QED BY <1>1, <1>2, <1>3, <1>4 DEF Cat, Sub

\* Taking the first name of what follows.
LEMMA FromIs ==
  ASSUME NEW p \in AllPaths, NEW i \in 1 .. Len(p)
  PROVE  /\ From(p, i) \in AllPaths /\ From(p, i) # Top /\ From(p, i)[1] = p[i]
         /\ p[i] \in Name
         /\ i = Len(p) => \A s \in AllPaths : Cat(s, From(p, i)) = Sub(s, p[i])
         /\ i < Len(p) => \A s \in AllPaths :
              Cat(s, From(p, i)) = Cat(Sub(s, p[i]), From(p, i + 1))
<1> USE DEF AllPaths
<1>1. Len(p) \in Nat /\ \A j \in 1 .. Len(p) : p[j] \in Name
  BY LenProperties, ElementOfSeq
<1>2. /\ SubSeq(p, i, Len(p)) \in Seq(Name)
      /\ Len(SubSeq(p, i, Len(p))) = Len(p) - i + 1
      /\ SubSeq(p, i, Len(p))[1] = p[i + 1 - 1]
  <2>1. \A j \in i .. Len(p) : p[j] \in Name
    BY <1>1
  <2>2. i <= Len(p) /\ 1 \in 1 .. Len(p) - i + 1
    BY <1>1
  <2> QED BY <1>1, <2>1, <2>2, SubSeqProperties
<1>3. From(p, i) \in AllPaths /\ From(p, i) # Top /\ From(p, i)[1] = p[i]
  <2>1. Len(p) - i + 1 # 0 /\ i + 1 - 1 = i
    BY <1>1
  <2> QED BY <1>2, <2>1, TopIs DEF From
<1>4. SubSeq(p, i, Len(p)) = << p[i] >> \o SubSeq(p, i + 1, Len(p))
  <2>1. Len(p) \in i .. Len(p)
    BY <1>1
  <2>2. i \in 1 .. Len(p)
    OBVIOUS
  <2> QED BY <2>1, SubSeqRecursiveFirst
<1>5. ASSUME NEW s \in AllPaths, i = Len(p)
      PROVE  Cat(s, From(p, i)) = Sub(s, p[i])
  <2>1. SubSeq(p, i + 1, Len(p)) = << >>
    BY <1>1, <1>5, SubSeqEmpty
  <2>2. PICK u \in Seq(Name) : u = << p[i] >>
    BY <1>1, Single
  <2>3. SubSeq(p, i, Len(p)) = u
    <3>1. u \o << >> = u
      BY ConcatEmptySeq
    <3> QED BY <1>4, <2>1, <2>2, <3>1
  <2>4. PICK e \in Name : e = p[i]
    BY <1>1
  <2>5. Append(s, e) = s \o <<e>>
    BY AppendIsConcat
  <2> QED BY <2>2, <2>3, <2>4, <2>5 DEF Cat, From, Sub
<1>6. ASSUME NEW s \in AllPaths, i < Len(p)
      PROVE  Cat(s, From(p, i)) = Cat(Sub(s, p[i]), From(p, i + 1))
  <2>1. PICK u \in AllPaths, e \in Name : u = << e >> /\ e = p[i]
    BY <1>1, Single
  <2>2. From(p, i + 1) \in AllPaths
    <3>1. \A j \in i + 1 .. Len(p) : p[j] \in Name
      BY <1>1
    <3> QED BY <1>1, <3>1, SubSeqProperties DEF From
  <2>3. PICK v \in AllPaths : v = From(p, i + 1)
    BY <2>2
  <2>4. Cat(Cat(s, u), v) = Cat(s, Cat(u, v))
    BY CatAssociates
  <2>5. Append(s, e) = s \o <<e>>
    BY AppendIsConcat
  <2> QED BY <1>4, <2>1, <2>3, <2>4, <2>5 DEF Cat, From, Sub
<1> QED BY <1>1, <1>3, <1>5, <1>6

LEMMA FromFirst ==
  ASSUME NEW p \in AllPaths
  PROVE  From(p, 1) = p
  BY SubSeqFull DEF AllPaths, From

LEMMA PrefixIs ==
  ASSUME NEW p \in AllPaths
  PROVE  /\ Prefix(p, 0) = Top /\ Prefix(p, Len(p)) = p
         /\ \A n \in 0 .. Len(p) : Prefix(p, n) \in AllPaths /\ Len(Prefix(p, n)) = n
         /\ \A n \in 1 .. Len(p) : Prefix(p, n) = Sub(Prefix(p, n - 1), p[n])
<1> USE DEF AllPaths
<1>1. Len(p) \in Nat /\ \A j \in 1 .. Len(p) : p[j] \in Name
  BY LenProperties, ElementOfSeq
<1>2. Prefix(p, 0) = Top
  BY SubSeqEmpty DEF Prefix, Top
<1>3. Prefix(p, Len(p)) = p
  BY SubSeqFull DEF Prefix
<1>4. ASSUME NEW n \in 0 .. Len(p)
      PROVE  Prefix(p, n) \in AllPaths /\ Len(Prefix(p, n)) = n
  <2>1. \A j \in 1 .. n : p[j] \in Name
    BY <1>1
  <2>2. /\ SubSeq(p, 1, n) \in Seq(Name)
        /\ Len(SubSeq(p, 1, n)) = IF 1 <= n THEN n - 1 + 1 ELSE 0
    BY <1>1, <2>1, SubSeqProperties
  <2> QED BY <1>1, <2>2 DEF Prefix
<1>5. ASSUME NEW n \in 1 .. Len(p)
      PROVE  Prefix(p, n) = Sub(Prefix(p, n - 1), p[n])
  <2>1. SubSeq(p, 1, n) = SubSeq(p, 1, n - 1) \o << p[n] >>
    <3>1. 1 \in 1 .. Len(p)
      BY <1>1
    <3> QED BY <1>1, <3>1, SubSeqRecursiveSecond
  <2>2. n - 1 \in 0 .. Len(p)
    BY <1>1
  <2>3. PICK s \in Seq(Name), e \in Name : s = SubSeq(p, 1, n - 1) /\ e = p[n]
    BY <1>1, <1>4, <2>2 DEF Prefix
  <2>4. Append(s, e) = s \o <<e>>
    BY AppendIsConcat
  <2> QED BY <2>1, <2>3, <2>4 DEF Prefix, Sub
<1> QED BY <1>2, <1>3, <1>4, <1>5

-----------------------------------------------------------------------------
(***************************************************************************)
(* The file system: the tree of the nodes.                                 *)
(***************************************************************************)
Node == [name : Name \cup {""}, type : {"DIR", "FILE"}, first : Nat, next : Nat,
         buf : Seq(Byte \cup {Garbage}), len : Nat]

\* up[n] is the directory that node n is an entry of.  Its entries have
\* different names, and are linked in the order in which they were made.
Shape(ns, up) ==
  /\ ns \in Seq(Node) /\ Len(ns) >= 1
  /\ up \in [1 .. Len(ns) -> 0 .. Len(ns)]
  /\ \A n \in 2 .. Len(ns) :
       ns[n].name \in Name /\ up[n] \in 1 .. n - 1 /\ ns[up[n]].type = "DIR"
  /\ \A m, n \in 2 .. Len(ns) : up[m] = up[n] /\ ns[m].name = ns[n].name => m = n
  /\ \A d \in 1 .. Len(ns) :
       ns[d].first # 0 => ns[d].first \in 2 .. Len(ns) /\ up[ns[d].first] = d
  /\ \A c \in 1 .. Len(ns) :
       ns[c].next # 0 => c # 1 /\ ns[c].next \in c + 1 .. Len(ns) /\ up[ns[c].next] = up[c]
  /\ \A n \in 2 .. Len(ns) : ns[up[n]].first \in 1 .. n
  /\ \A c, n \in 2 .. Len(ns) : up[c] = up[n] /\ c < n => ns[c].next \in 1 .. n

\* at[n] is the path of node n.
PathsAre(ns, up, at) ==
  /\ at \in [1 .. Len(ns) -> AllPaths]
  /\ at[1] = Top
  /\ \A n \in 2 .. Len(ns) : at[n] = Sub(at[up[n]], ns[n].name)

LEMMA PathsExist ==
  ASSUME NEW ns, NEW up, Shape(ns, up)
  PROVE  \E at : PathsAre(ns, up, at)
<1> DEFINE N == Len(ns)
           S == AllPaths
           Value(c, f) == IF c = 1 THEN Top ELSE Sub(f[up[c]], ns[c].name)
           G == [c \in 1 .. N |-> [f \in [0 .. N -> S] |-> Value(c, f)]]
           rank == [c \in 1 .. N |-> c]
<1>1. N \in Nat /\ N >= 1 /\ Top \in S /\ rank \in [1 .. N -> Nat]
  BY TopIs DEF Shape
<1>2. \A n \in 2 .. N : ns[n].name \in Name /\ up[n] \in 1 .. n - 1
  BY DEF Shape
<1> HIDE DEF N
<1>3. ASSUME NEW c \in 1 .. N, NEW f \in [0 .. N -> S]
      PROVE  Value(c, f) \in S
  <2>1. CASE c = 1
    BY <1>1, <2>1
  <2>2. CASE c # 1
    <3>1. c \in 2 .. N /\ up[c] \in 0 .. N
      BY <1>1, <1>2, <2>2
    <3> QED BY <1>2, <2>2, <3>1, SubIs
  <2> QED BY <2>1, <2>2
<1>4. G \in [1 .. N -> [[0 .. N -> S] -> S]]
  <2> HIDE DEF Value, S
  <2> QED BY <1>3
<1>5. ASSUME NEW c \in 1 .. N, NEW f \in [0 .. N -> S], NEW g \in [0 .. N -> S],
             \A d \in 1 .. N : rank[d] < rank[c] => f[d] = g[d]
      PROVE  G[c][f] = G[c][g]
  <2>1. c # 1 => up[c] \in 1 .. N /\ up[c] < c
    BY <1>1, <1>2
  <2>2. c # 1 => f[up[c]] = g[up[c]]
    BY <1>5, <2>1
  <2>3. Value(c, f) = Value(c, g)
    BY <2>2
  <2> HIDE DEF Value
  <2> QED BY <2>3
<1>6. PICK f \in [0 .. N -> S] : f[0] = Top /\ \A c \in 1 .. N : f[c] = G[c][f]
  <2> HIDE DEF S, G, rank
  <2>1. Ranked(G, rank, N, S)
    BY <1>5 DEF Ranked
  <2>2. \E f : Solves(f, G, Top, N, S)
    BY <1>1, <1>4, <2>1, Defined
  <2> QED BY <2>2 DEF Solves
<1>7. \A c \in 1 .. N : f[c] = Value(c, f)
  <2> HIDE DEF Value
  <2> QED BY <1>6
<1> DEFINE at == [n \in 1 .. N |-> f[n]]
<1>8. at \in [1 .. N -> S] /\ at[1] = Top
  BY <1>1, <1>6, <1>7
<1>9. ASSUME NEW n \in 2 .. N
      PROVE  at[n] = Sub(at[up[n]], ns[n].name)
  <2>1. n \in 1 .. N /\ n # 1 /\ up[n] \in 1 .. N
    BY <1>1, <1>2
  <2> QED BY <1>7, <2>1
<1> HIDE DEF at
<1>10. PathsAre(ns, up, at)
  BY <1>8, <1>9 DEF PathsAre, N
<1> QED BY <1>10

\* Two nodes never have the same path, and no path is longer than there are
\* nodes.
LEMMA PathsDiffer ==
  ASSUME NEW ns, NEW up, Shape(ns, up), NEW at, PathsAre(ns, up, at)
  PROVE  /\ \A m, n \in 1 .. Len(ns) : at[m] = at[n] => m = n
         /\ \A n \in 1 .. Len(ns) : Len(at[n]) < n
         /\ \A n \in 2 .. Len(ns) : at[n] # Top
<1> DEFINE N == Len(ns)
<1>1. N \in Nat /\ N >= 1
  BY DEF Shape
<1>2. \A n \in 2 .. N : ns[n].name \in Name /\ up[n] \in 1 .. n - 1 /\ up[n] \in 1 .. N
  BY <1>1 DEF Shape
<1>3. /\ \A n \in 1 .. N : at[n] \in AllPaths
      /\ at[1] = Top /\ \A n \in 2 .. N : at[n] = Sub(at[up[n]], ns[n].name)
  BY DEF PathsAre
<1>4. \A m, n \in 2 .. N : up[m] = up[n] /\ ns[m].name = ns[n].name => m = n
  BY DEF Shape
<1> HIDE DEF N
<1>5. ASSUME NEW n \in 2 .. N
      PROVE  at[n] # Top /\ Len(at[n]) = Len(at[up[n]]) + 1
  <2>1. ns[n].name \in Name /\ at[up[n]] \in AllPaths
    BY <1>2, <1>3
  <2>2. at[n] = Sub(at[up[n]], ns[n].name)
    BY <1>3
  <2> QED BY <2>1, <2>2, SubIs
<1>6. ASSUME NEW a \in 1 .. N, NEW b \in 1 .. N, at[a] = at[b], a # b
      PROVE  FALSE
  <2> DEFINE Bad == {n \in 1 .. N : \E m \in 1 .. N : at[m] = at[n] /\ m # n}
  <2>1. Bad \in SUBSET Nat /\ Bad # {}
    BY <1>6
  <2>2. PICK n \in Bad : \A j \in Bad : n <= j
    BY <2>1, LeastExists
  <2>3. PICK m \in 1 .. N : at[m] = at[n] /\ m # n
    OBVIOUS
  <2>4. m \in 2 .. N /\ n \in 2 .. N
    <3>1. m = 1 => n \in 2 .. N
      BY <2>3
    <3>2. n = 1 => m \in 2 .. N
      BY <2>3
    <3> QED BY <1>3, <1>5, <2>3, <3>1, <3>2
  <2>5. at[up[m]] = at[up[n]] /\ ns[m].name = ns[n].name
    <3>1. /\ at[up[m]] \in AllPaths /\ at[up[n]] \in AllPaths
          /\ ns[m].name \in Name /\ ns[n].name \in Name
      BY <1>2, <1>3, <2>4
    <3>2. Sub(at[up[m]], ns[m].name) = Sub(at[up[n]], ns[n].name)
      BY <1>3, <2>3, <2>4
    <3> QED BY <3>1, <3>2, SubDiffers
  <2>6. up[m] # up[n]
    BY <1>4, <2>3, <2>4, <2>5
  <2>7. up[n] \in Bad /\ up[n] < n
    BY <1>2, <2>4, <2>5, <2>6
  <2> HIDE DEF Bad
  <2>8. n <= up[n]
    BY <2>2, <2>7
  <2> QED BY <1>2, <2>4, <2>7, <2>8
<1>7. ASSUME NEW a \in 1 .. N, ~ (Len(at[a]) < a)
      PROVE  FALSE
  <2> DEFINE Bad == {n \in 1 .. N : ~ (Len(at[n]) < n)}
  <2>1. Bad \in SUBSET Nat /\ Bad # {}
    BY <1>7
  <2>2. PICK n \in Bad : \A j \in Bad : n <= j
    BY <2>1, LeastExists
  <2>3. n # 1
    BY <1>1, <1>3, TopIs
  <2>4. n \in 2 .. N /\ up[n] \in 1 .. n - 1 /\ up[n] \in 1 .. N
    BY <1>2, <2>3
  <2>5. up[n] \notin Bad
    BY <2>2, <2>4
  <2>6. Len(at[up[n]]) < up[n] /\ Len(at[up[n]]) \in Nat
    BY <1>3, <2>4, <2>5, LenProperties DEF AllPaths
  <2> QED BY <1>5, <2>4, <2>6
<1> QED BY <1>5, <1>6, <1>7 DEF N

\* A path that goes on behind that of a node leads through one of its entries.
LEMMA Ancestor ==
  ASSUME NEW ns, NEW up, Shape(ns, up), NEW at, PathsAre(ns, up, at),
         NEW c \in 1 .. Len(ns), NEW n \in 1 .. Len(ns),
         NEW s \in AllPaths, s # Top, at[n] = Cat(at[c], s)
  PROVE  \E m \in 2 .. Len(ns) : up[m] = c /\ ns[m].name = s[1]
<1> DEFINE N == Len(ns)
           Bad == {k \in 1 .. N : \E t \in AllPaths :
                     t # Top /\ t[1] = s[1] /\ at[k] = Cat(at[c], t)}
<1>1. N \in Nat /\ N >= 1
  BY DEF Shape
<1>2. \A k \in 2 .. N : ns[k].name \in Name /\ up[k] \in 1 .. k - 1 /\ up[k] \in 1 .. N
  BY <1>1 DEF Shape
<1>3. /\ \A k \in 1 .. N : at[k] \in AllPaths
      /\ at[1] = Top /\ \A k \in 2 .. N : at[k] = Sub(at[up[k]], ns[k].name)
  BY DEF PathsAre
<1>4. Bad \in SUBSET Nat /\ Bad # {} /\ at[c] \in AllPaths
  <2>1. \E t \in AllPaths : t # Top /\ t[1] = s[1] /\ at[n] = Cat(at[c], t)
    BY Zenon
  <2>2. n \in Bad
    BY <2>1, Zenon
  <2> QED BY <1>1, <1>3, <2>2
<1>5. PICK k \in Bad : \A j \in Bad : k <= j
  BY <1>4, LeastExists
<1>6. PICK t \in AllPaths : t # Top /\ t[1] = s[1] /\ at[k] = Cat(at[c], t)
  OBVIOUS
<1>7. k # 1
  <2> HIDE DEF Bad
  <2>1. Cat(at[c], t) # Top
    BY <1>4, <1>6, CatIs
  <2> QED BY <1>3, <1>6, <2>1
<1>8. k \in 2 .. N
  BY <1>7
<1>9. PICK r \in AllPaths, e \in Name : t = Sub(r, e)
  BY <1>6, IsSub
<1>10. Cat(at[c], t) = Sub(Cat(at[c], r), e) /\ Cat(at[c], r) \in AllPaths
  <2> HIDE DEF Bad
  <2>1. Cat(at[c], Sub(r, e)) = Sub(Cat(at[c], r), e)
    BY <1>4, CatSub
  <2>2. Cat(at[c], r) \in AllPaths
    BY <1>4, CatIs
  <2> QED BY <1>9, <2>1, <2>2
<1>11. at[up[k]] = Cat(at[c], r) /\ ns[k].name = e
  <2>1. Sub(at[up[k]], ns[k].name) = Sub(Cat(at[c], r), e)
    BY <1>3, <1>6, <1>8, <1>10
  <2>2. at[up[k]] \in AllPaths /\ ns[k].name \in Name
    BY <1>2, <1>3, <1>8
  <2> QED BY <1>10, <2>1, <2>2, SubDiffers
<1>12. CASE r = Top
  <2>1. at[up[k]] = at[c]
    BY <1>3, <1>11, <1>12, CatIs, TopIs
  <2>2. up[k] = c
    BY <1>2, <1>8, <2>1, PathsDiffer
  <2>3. t[1] = e
    BY <1>9, <1>12, SubIs
  <2> QED BY <1>6, <1>8, <1>11, <2>2, <2>3
<1>13. CASE r # Top
  <2>1. r[1] = t[1]
    BY <1>9, <1>13, SubIs
  <2>2. up[k] \in Bad /\ up[k] < k
    BY <1>2, <1>6, <1>8, <1>11, <1>13, <2>1
  <2> HIDE DEF Bad
  <2>3. k <= up[k]
    BY <1>5, <2>2
  <2> QED BY <1>2, <1>8, <2>2, <2>3
<1> QED BY <1>12, <1>13

-----------------------------------------------------------------------------
(***************************************************************************)
(* The file system: what is looked up.                                     *)
(***************************************************************************)
LookupStep(f, p, c, i) ==
  IF nodes[c].name # p[i] THEN f[nodes[c].next][i]
  ELSE IF i = Len(p) THEN c
  ELSE IF nodes[c].type = "DIR" THEN f[nodes[c].first][i + 1] ELSE 0

LookupRun(f, p) ==
  /\ f \in [0 .. Len(nodes) -> [1 .. Len(p) -> 0 .. Len(nodes)]]
  /\ \A start \in 0 .. Len(nodes) : LookupAt(p, start) = f[start][1]
  /\ \A i \in 1 .. Len(p) : f[0][i] = 0
  /\ \A c \in 1 .. Len(nodes), i \in 1 .. Len(p) : f[c][i] = LookupStep(f, p, c, i)

\* Links lead to nodes that were made later.
LEMMA LinksAre ==
  ASSUME NEW ns, NEW up, Shape(ns, up)
  PROVE  /\ Len(ns) \in Nat /\ Len(ns) >= 1
         /\ \A c \in 1 .. Len(ns) :
              /\ ns[c] \in Node
              /\ ns[c].next \in 0 .. Len(ns) /\ (ns[c].next # 0 => ns[c].next > c)
              /\ ns[c].first \in 0 .. Len(ns) /\ (ns[c].first # 0 => ns[c].first > c)
<1>1. Len(ns) \in Nat /\ Len(ns) >= 1 /\ \A c \in 1 .. Len(ns) : ns[c] \in Node
  BY LenProperties, ElementOfSeq DEF Shape
<1>2. ASSUME NEW c \in 1 .. Len(ns), ns[c].first # 0
      PROVE  ns[c].first \in 2 .. Len(ns) /\ ns[c].first > c
  <2>1. ns[c].first \in 2 .. Len(ns) /\ up[ns[c].first] = c
    BY <1>2 DEF Shape
  <2>2. up[ns[c].first] \in 1 .. ns[c].first - 1
    BY <2>1 DEF Shape
  <2> QED BY <1>1, <2>1, <2>2
<1>3. ASSUME NEW c \in 1 .. Len(ns), ns[c].next # 0
      PROVE  ns[c].next \in 2 .. Len(ns) /\ ns[c].next > c
  <2>1. ns[c].next \in c + 1 .. Len(ns)
    BY <1>3 DEF Shape
  <2> QED BY <1>1, <2>1
<1>4. \A c \in 1 .. Len(ns) : ns[c].next \in Nat /\ ns[c].first \in Nat
  BY <1>1 DEF Node
<1> QED BY <1>1, <1>2, <1>3, <1>4

LEMMA LookupRuns ==
  ASSUME NEW up, Shape(nodes, up), NEW p \in AllPaths
  PROVE  \E f : LookupRun(f, p)
<1> DEFINE N == Len(nodes)
           L == Len(p)
           S == [1 .. L -> 0 .. N]
           none == [i \in 1 .. L |-> 0]
           Row(f, c) == [i \in 1 .. L |-> LookupStep(f, p, c, i)]
           G == [c \in 1 .. N |-> [f \in [0 .. N -> S] |-> Row(f, c)]]
           rank == [c \in 1 .. N |-> N - c]
           Is(f) == f = [c \in 0 .. N |-> [i \in 1 .. L |->
                           IF c = 0 THEN 0
                           ELSE IF nodes[c].name # p[i] THEN f[nodes[c].next][i]
                           ELSE IF i = L THEN c
                           ELSE IF nodes[c].type = "DIR" THEN f[nodes[c].first][i + 1] ELSE 0]]
           after == CHOOSE f : Is(f)
<1>1. \A start : LookupAt(p, start) = after[start][1]
  BY DEF LookupAt
<1>2. /\ N \in Nat /\ N >= 1 /\ L \in Nat
      /\ \A c \in 1 .. N :
           /\ nodes[c].next \in 0 .. N /\ (nodes[c].next # 0 => nodes[c].next > c)
           /\ nodes[c].first \in 0 .. N /\ (nodes[c].first # 0 => nodes[c].first > c)
  BY LinksAre, LenProperties DEF AllPaths
<1> HIDE DEF N, L
<1>3. none \in S
  BY <1>2
<1>4. ASSUME NEW f, NEW c \in 1 .. N, f[nodes[c].next] \in S, f[nodes[c].first] \in S
      PROVE  Row(f, c) \in S
  <2>1. ASSUME NEW i \in 1 .. L
        PROVE  LookupStep(f, p, c, i) \in 0 .. N
    <3>1. i # L => i + 1 \in 1 .. L
      BY <1>2
    <3>2. f[nodes[c].next][i] \in 0 .. N
      BY <1>4
    <3>3. i # L => f[nodes[c].first][i + 1] \in 0 .. N
      BY <1>4, <3>1
    <3>4. c \in 0 .. N /\ 0 \in 0 .. N
      BY <1>2
    <3> HIDE DEF S
    <3> QED BY <3>2, <3>3, <3>4 DEF LookupStep, L
  <2> QED BY <2>1
<1>5. G \in [1 .. N -> [[0 .. N -> S] -> S]]
  <2>1. \A c \in 1 .. N : \A f \in [0 .. N -> S] : Row(f, c) \in S
    <3> HIDE DEF S, Row
    <3> QED BY <1>2, <1>4
  <2> HIDE DEF S, Row
  <2> QED BY <2>1
<1>6. Ranked(G, rank, N, S)
  <2>1. ASSUME NEW c \in 1 .. N, NEW f \in [0 .. N -> S], NEW g \in [0 .. N -> S],
               f[0] = g[0], \A d \in 1 .. N : rank[d] < rank[c] => f[d] = g[d]
        PROVE  G[c][f] = G[c][g]
    <3>1. ASSUME NEW d \in 0 .. N, d # 0 => d > c
          PROVE  f[d] = g[d]
      <4>1. d # 0 => d \in 1 .. N /\ N - d < N - c
        BY <1>2, <3>1
      <4> QED BY <2>1, <4>1
    <3>2. f[nodes[c].next] = g[nodes[c].next] /\ f[nodes[c].first] = g[nodes[c].first]
      BY <1>2, <3>1
    <3>3. Row(f, c) = Row(g, c)
      BY <3>2 DEF LookupStep
    <3> HIDE DEF Row
    <3> QED BY <3>3
  <2> HIDE DEF G, rank, S
  <2> QED BY <2>1 DEF Ranked
<1>7. PICK f : Solves(f, G, none, N, S)
  <2>1. rank \in [1 .. N -> Nat]
    BY <1>2
  <2> HIDE DEF S, G, rank, none
  <2> QED BY <1>2, <1>3, <1>5, <1>6, <2>1, Defined
<1>8. Is(f)
  <2>1. f \in [0 .. N -> S] /\ f[0] = none /\ \A c \in 1 .. N : f[c] = Row(f, c)
    <3> HIDE DEF S, Row, none
    <3> QED BY <1>7 DEF Solves
  <2>2. ASSUME NEW c \in 0 .. N
        PROVE  f[c] = [i \in 1 .. L |-> IF c = 0 THEN 0 ELSE LookupStep(f, p, c, i)]
    <3>1. CASE c = 0
      <4>1. f[c] = none
        BY <2>1, <3>1
      <4> QED BY <3>1, <4>1
    <3>2. CASE c # 0
      <4>1. c \in 1 .. N
        BY <1>2, <3>2
      <4>2. f[c] = Row(f, c)
        BY <2>1, <4>1
      <4> QED BY <3>2, <4>2
    <3> QED BY <3>1, <3>2
  <2> QED BY <2>1, <2>2 DEF LookupStep, L
<1>9. Is(after)
  <2> HIDE DEF Is
  <2> QED BY <1>8
<1> HIDE DEF after
<1>10. /\ \A i \in 1 .. L : after[0][i] = 0
       /\ \A c \in 1 .. N : after[c] = Row(after, c)
       /\ after[0] = none
  <2>1. 0 \in 0 .. N /\ \A c \in 1 .. N : c \in 0 .. N /\ c # 0
    BY <1>2
  <2>2. \A c \in 0 .. N :
          after[c] = [i \in 1 .. L |-> IF c = 0 THEN 0 ELSE LookupStep(after, p, c, i)]
    BY <1>9 DEF LookupStep, L
  <2> QED BY <2>1, <2>2
<1>11. ASSUME NEW a \in 0 .. N, after[a] \notin S
       PROVE  FALSE
  <2> DEFINE Bad == {k \in 0 .. N : after[N - k] \notin S}
  <2>1. N - a \in Bad /\ Bad \in SUBSET Nat
    <3>1. N - a \in 0 .. N /\ N - (N - a) = a
      BY <1>2
    <3> QED BY <1>2, <1>11, <3>1
  <2>2. PICK k \in Bad : \A j \in Bad : k <= j
    BY <2>1, LeastExists
  <2>3. N - k \in 0 .. N /\ N - k # 0
    BY <1>2, <1>3, <1>10
  <2>4. ASSUME NEW d \in 0 .. N, d # 0 => d > N - k
        PROVE  after[d] \in S
    <3>1. CASE d = 0
      BY <1>3, <1>10, <3>1
    <3>2. CASE d # 0
      <4>1. N - d \in 0 .. N /\ N - d < k /\ N - (N - d) = d
        BY <1>2, <2>4, <3>2
      <4>2. N - d \notin Bad
        BY <2>2, <4>1
      <4> QED BY <4>1, <4>2
    <3> QED BY <3>1, <3>2
  <2>5. N - k \in 1 .. N
    BY <1>2, <2>3
  <2>6. Row(after, N - k) \in S
    <3> HIDE DEF Row, S, Bad
    <3> QED BY <1>2, <1>4, <2>4, <2>5
  <2> QED BY <1>10, <2>5, <2>6
<1>12. after \in [0 .. N -> S]
  <2>1. \E g : after = [c \in 0 .. N |-> g[c]]
    <3>1. after = [c \in 0 .. N |-> after[c]]
      BY <1>9
    <3> QED BY <3>1
  <2> HIDE DEF S, Is
  <2> QED BY <1>11, <2>1
<1>13. LookupRun(after, p)
  BY <1>1, <1>10, <1>12 DEF LookupRun, N, L
<1> QED BY <1>13

\* Node n is found from entry c on, for the components of p from number i on.
Leads(up, at, p, c, i, n) ==
  \E m \in c .. Len(nodes) :
    up[m] = up[c] /\ nodes[m].name = p[i] /\ at[n] = Cat(at[up[c]], From(p, i))

LEMMA LookupOne ==
  ASSUME NEW up, Shape(nodes, up), NEW at, PathsAre(nodes, up, at),
         NEW p \in AllPaths, NEW f, LookupRun(f, p),
         NEW c \in 2 .. Len(nodes), NEW i \in 1 .. Len(p), NEW n \in 1 .. Len(nodes),
         \A d \in 2 .. Len(nodes) : d > c => \A j \in 1 .. Len(p) :
           f[d][j] = n <=> Leads(up, at, p, d, j, n)
  PROVE  f[c][i] = n <=> Leads(up, at, p, c, i, n)
<1> DEFINE N == Len(nodes)
           L == Len(p)
<1>1. /\ N \in Nat /\ L \in Nat /\ c \in 1 .. N /\ c \in c .. N /\ N \in Int
      /\ nodes[c].next \in 0 .. N /\ (nodes[c].next # 0 => nodes[c].next > c)
      /\ nodes[c].first \in 0 .. N /\ (nodes[c].first # 0 => nodes[c].first > c)
  BY LinksAre, LenProperties DEF AllPaths
<1>2. /\ up[c] \in 1 .. N /\ nodes[c].name \in Name
      /\ at[c] = Sub(at[up[c]], nodes[c].name) /\ at[c] \in AllPaths /\ at[up[c]] \in AllPaths
  <2>1. up[c] \in 1 .. c - 1 /\ nodes[c].name \in Name
    BY DEF Shape
  <2>2. up[c] \in 1 .. N
    BY <1>1, <2>1
  <2> QED BY <1>1, <2>1, <2>2 DEF PathsAre
<1>3. f[c][i] = LookupStep(f, p, c, i) /\ \A j \in 1 .. L : f[0][j] = 0
  BY <1>1 DEF LookupRun
<1>4. /\ \A m \in 2 .. N : up[c] = up[m] /\ c < m => nodes[c].next \in 1 .. m
      /\ nodes[c].next # 0 => up[nodes[c].next] = up[c]
      /\ nodes[c].first # 0 => up[nodes[c].first] = c
      /\ \A m \in 2 .. N : up[m] = c => nodes[c].first \in 1 .. m /\ nodes[c].type = "DIR"
  BY <1>1 DEF Shape
<1>5. /\ From(p, i) \in AllPaths /\ From(p, i) # Top /\ p[i] \in Name
      /\ i = L => Cat(at[up[c]], From(p, i)) = Sub(at[up[c]], p[i])
      /\ i < L => Cat(at[up[c]], From(p, i)) = Cat(Sub(at[up[c]], p[i]), From(p, i + 1))
  BY <1>2, FromIs
<1>6. CASE nodes[c].name # p[i]
  <2>1. f[c][i] = f[nodes[c].next][i]
    BY <1>3, <1>6 DEF LookupStep
  <2>2. ASSUME NEW m \in c .. N, up[m] = up[c], nodes[m].name = p[i]
        PROVE  nodes[c].next # 0 /\ m \in nodes[c].next .. N
    <3>1. m # c /\ m \in 2 .. N /\ c < m
      BY <1>1, <1>6, <2>2
    <3>2. nodes[c].next \in 1 .. m
      BY <1>4, <2>2, <3>1
    <3> QED BY <1>1, <3>1, <3>2
  <2>3. CASE nodes[c].next = 0
    <3>1. f[c][i] = 0
      BY <1>3, <2>1, <2>3
    <3>2. ~ Leads(up, at, p, c, i, n)
      BY <2>2, <2>3 DEF Leads
    <3> QED BY <3>1, <3>2
  <2>4. CASE nodes[c].next # 0
    <3>1. nodes[c].next \in 2 .. N /\ nodes[c].next > c
      BY <1>1, <2>4
    <3>2. f[nodes[c].next][i] = n <=> Leads(up, at, p, nodes[c].next, i, n)
      BY <3>1
    <3>3. up[nodes[c].next] = up[c]
      BY <1>4, <2>4
    <3>4. Leads(up, at, p, nodes[c].next, i, n) <=> Leads(up, at, p, c, i, n)
      <4>1. \A m \in nodes[c].next .. N : m \in c .. N
        BY <1>1, <3>1
      <4> QED BY <2>2, <3>3, <4>1 DEF Leads
    <3> QED BY <2>1, <3>2, <3>4
  <2> QED BY <2>3, <2>4
<1>7. ASSUME nodes[c].name = p[i]
      PROVE  Leads(up, at, p, c, i, n) <=> at[n] = Cat(at[up[c]], From(p, i))
  BY <1>1, <1>7 DEF Leads
<1>8. CASE nodes[c].name = p[i] /\ i = L
  <2>1. f[c][i] = c
    BY <1>3, <1>8 DEF LookupStep
  <2>2. Cat(at[up[c]], From(p, i)) = at[c]
    BY <1>2, <1>5, <1>8
  <2>3. at[n] = at[c] <=> n = c
    BY <1>1, PathsDiffer
  <2> QED BY <1>7, <1>8, <2>1, <2>2, <2>3
<1>9. CASE nodes[c].name = p[i] /\ i # L
  <2>1. i < L /\ i + 1 \in 1 .. L
    BY <1>1, <1>9
  <2>2. Leads(up, at, p, c, i, n) <=> at[n] = Cat(at[c], From(p, i + 1))
    <3>1. Cat(at[up[c]], From(p, i)) = Cat(at[c], From(p, i + 1))
      BY <1>2, <1>5, <1>9, <2>1
    <3> QED BY <1>7, <1>9, <3>1
  <2>3. ASSUME at[n] = Cat(at[c], From(p, i + 1))
        PROVE  \E m \in 2 .. N : up[m] = c /\ nodes[m].name = p[i + 1]
    <3>1. From(p, i + 1) \in AllPaths /\ From(p, i + 1) # Top /\ From(p, i + 1)[1] = p[i + 1]
      BY <2>1, FromIs
    <3>2. PICK s \in AllPaths : s = From(p, i + 1) /\ s # Top /\ s[1] = p[i + 1]
      BY <3>1
    <3>3. \E m \in 2 .. N : up[m] = c /\ nodes[m].name = s[1]
      BY <1>1, <2>3, <3>2, Ancestor
    <3> QED BY <3>2, <3>3
  <2>4. CASE nodes[c].type # "DIR"
    <3>1. f[c][i] = 0
      BY <1>3, <1>9, <2>4 DEF LookupStep
    <3> QED BY <1>4, <2>2, <2>3, <2>4, <3>1
  <2>5. CASE nodes[c].type = "DIR" /\ nodes[c].first = 0
    <3>1. f[c][i] = 0
      BY <1>3, <1>9, <2>1, <2>5 DEF LookupStep
    <3> QED BY <1>4, <2>2, <2>3, <2>5, <3>1
  <2>6. CASE nodes[c].type = "DIR" /\ nodes[c].first # 0
    <3> DEFINE d == nodes[c].first
    <3>1. f[c][i] = f[d][i + 1]
      BY <1>3, <1>9, <2>6 DEF LookupStep
    <3>2. d \in 2 .. N /\ d > c /\ up[d] = c
      BY <1>1, <1>4, <2>6
    <3>3. f[d][i + 1] = n <=> Leads(up, at, p, d, i + 1, n)
      BY <2>1, <3>2
    <3>4. Leads(up, at, p, d, i + 1, n) => at[n] = Cat(at[c], From(p, i + 1))
      BY <3>2 DEF Leads
    <3>5. ASSUME at[n] = Cat(at[c], From(p, i + 1))
          PROVE  Leads(up, at, p, d, i + 1, n)
      <4>1. PICK m \in 2 .. N : up[m] = c /\ nodes[m].name = p[i + 1]
        BY <2>3, <3>5
      <4>2. m \in d .. N
        BY <1>1, <1>4, <3>2, <4>1
      <4> HIDE DEF d
      <4> QED BY <3>2, <3>5, <4>1, <4>2 DEF Leads
    <3> HIDE DEF d
    <3> QED BY <2>2, <3>1, <3>3, <3>4, <3>5
  <2> QED BY <2>4, <2>5, <2>6
<1> QED BY <1>6, <1>8, <1>9

LEMMA LookupAll ==
  ASSUME NEW up, Shape(nodes, up), NEW at, PathsAre(nodes, up, at),
         NEW p \in AllPaths, NEW f, LookupRun(f, p), NEW n \in 1 .. Len(nodes)
  PROVE  \A c \in 2 .. Len(nodes) : \A i \in 1 .. Len(p) :
           f[c][i] = n <=> Leads(up, at, p, c, i, n)
<1> DEFINE N == Len(nodes)
           Right(c) == \A i \in 1 .. Len(p) : f[c][i] = n <=> Leads(up, at, p, c, i, n)
           Bad == {k \in 0 .. N : N - k \in 2 .. N /\ ~ Right(N - k)}
<1>1. N \in Nat
  BY LinksAre
<1> SUFFICES ASSUME NEW a \in 2 .. N, ~ Right(a)
             PROVE  FALSE
  OBVIOUS
<1> HIDE DEF Right
<1>2. N - a \in Bad /\ Bad \in SUBSET Nat
  <2>1. N - a \in 0 .. N /\ N - (N - a) = a
    BY <1>1
  <2> QED BY <2>1
<1>3. PICK k \in Bad : \A j \in Bad : k <= j
  BY <1>2, LeastExists
<1>4. PICK c \in 2 .. N : c = N - k /\ ~ Right(c)
  OBVIOUS
<1>5. ASSUME NEW d \in 2 .. N, d > c
      PROVE  Right(d)
  <2>1. N - d \in 0 .. N /\ N - d < k /\ N - (N - d) = d
    BY <1>1, <1>4, <1>5
  <2>2. N - d \notin Bad
    BY <1>3, <2>1
  <2> QED BY <2>1, <2>2
<1>6. Right(c)
  BY <1>5, LookupOne DEF Right
<1> QED BY <1>4, <1>6

\* A path leads to the node that has it, if there is one.
LEMMA LookupIs ==
  ASSUME NEW up, Shape(nodes, up), NEW at, PathsAre(nodes, up, at),
         NEW root \in 1 .. Len(nodes), NEW p \in AllPaths
  PROVE  /\ Lookup(root, p) \in 0 .. Len(nodes)
         /\ \A n \in 1 .. Len(nodes) : Lookup(root, p) = n <=> at[n] = Cat(at[root], p)
<1> DEFINE N == Len(nodes)
           d == nodes[root].first
<1>1. /\ N \in Nat /\ d \in 0 .. N /\ d # 1
  <2>1. /\ Len(nodes) \in Nat /\ Len(nodes) >= 1
        /\ nodes[root].first \in 0 .. Len(nodes)
        /\ nodes[root].first # 0 => nodes[root].first > root
    BY LinksAre
  <2> QED BY <2>1
<1>2. \A n \in 1 .. N : at[n] \in AllPaths
  BY DEF PathsAre
<1>3. /\ d # 0 => d \in 2 .. N /\ up[d] = root
      /\ \A m \in 2 .. N : up[m] = root => d \in 1 .. m
  BY DEF Shape
<1> HIDE DEF N, d
<1>4. CASE p = Top
  <2>1. Lookup(root, p) = root
    BY <1>4 DEF Lookup, Top
  <2>2. Cat(at[root], p) = at[root]
    BY <1>2, <1>4, CatIs DEF N
  <2>3. \A n \in 1 .. N : at[n] = at[root] <=> root = n
    BY PathsDiffer DEF N
  <2> QED BY <1>1, <2>1, <2>2, <2>3 DEF N
<1>5. CASE p # Top
  <2>1. Lookup(root, p) = LookupAt(p, d)
    BY <1>5 DEF Lookup, Top, d
  <2>2. PICK f : LookupRun(f, p)
    BY LookupRuns
  <2>3. Len(p) \in Nat \ {0} /\ 1 \in 1 .. Len(p)
    BY <1>5, EmptySeq DEF AllPaths, Top
  <2>4. Lookup(root, p) = f[d][1] /\ f[d][1] \in 0 .. N
    BY <1>1, <2>1, <2>2, <2>3 DEF LookupRun, N
  <2>5. From(p, 1) = p /\ p[1] \in Name
    BY <2>3, FromFirst, FromIs
  <2>6. ASSUME NEW n \in 1 .. N, at[n] = Cat(at[root], p)
        PROVE  \E m \in 2 .. N : up[m] = root /\ nodes[m].name = p[1]
    BY <1>5, <2>6, Ancestor DEF N
  <2>7. ASSUME NEW n \in 1 .. N
        PROVE  f[d][1] = n <=> at[n] = Cat(at[root], p)
    <3>1. CASE d = 0
      <4>1. f[d][1] = 0
        BY <2>2, <2>3, <3>1 DEF LookupRun
      <4> QED BY <1>3, <2>6, <3>1, <4>1
    <3>2. CASE d # 0
      <4>1. f[d][1] = n <=> Leads(up, at, p, d, 1, n)
        BY <1>3, <2>2, <2>3, <3>2, LookupAll DEF N
      <4>2. Leads(up, at, p, d, 1, n) => at[n] = Cat(at[root], p)
        BY <1>3, <2>5, <3>2 DEF Leads
      <4>3. ASSUME at[n] = Cat(at[root], p)
            PROVE  Leads(up, at, p, d, 1, n)
        <5>1. PICK m \in 2 .. N : up[m] = root /\ nodes[m].name = p[1]
          BY <2>6, <4>3
        <5>2. m \in d .. N
          BY <1>1, <1>3, <5>1
        <5> QED BY <1>3, <2>5, <3>2, <4>3, <5>1, <5>2 DEF Leads, N
      <4> QED BY <4>1, <4>2, <4>3
    <3> QED BY <3>1, <3>2
  <2> QED BY <2>4, <2>7 DEF N
<1> QED BY <1>4, <1>5

-----------------------------------------------------------------------------
(***************************************************************************)
(* The file system: the entries of a directory.                            *)
(***************************************************************************)
\* Induction from the last number to the first.
LEMMA Downward ==
  ASSUME NEW N \in Nat, NEW T,
         \A c \in 1 .. N : (\A d \in 1 .. N : d > c => d \in T) => c \in T
  PROVE  \A c \in 1 .. N : c \in T
<1> DEFINE Bad == {k \in 0 .. N : N - k \in 1 .. N /\ N - k \notin T}
<1> SUFFICES ASSUME NEW a \in 1 .. N, a \notin T
             PROVE  FALSE
  OBVIOUS
<1>1. N - a \in Bad /\ Bad \in SUBSET Nat
  <2>1. N - a \in 0 .. N /\ N - (N - a) = a
    OBVIOUS
  <2> QED BY <2>1
<1>2. PICK k \in Bad : \A j \in Bad : k <= j
  BY <1>1, LeastExists
<1>3. PICK c \in 1 .. N : c = N - k /\ c \notin T
  OBVIOUS
<1>4. ASSUME NEW d \in 1 .. N, d > c
      PROVE  d \in T
  <2>1. N - d \in 0 .. N /\ N - d < k /\ N - (N - d) = d
    BY <1>3, <1>4
  <2>2. N - d \notin Bad
    BY <1>2, <2>1
  <2> QED BY <2>1, <2>2
<1> QED BY <1>3, <1>4

NodeSeqs == Seq(Nat)
Put(c, s) == << c >> \o s
LastOf(s) == s[Len(s)]

LEMMA PutIs ==
  ASSUME NEW c \in Nat, NEW s \in NodeSeqs
  PROVE  /\ Put(c, s) \in NodeSeqs /\ Put(c, s) # << >>
         /\ ToSet(Put(c, s)) = {c} \cup ToSet(s)
         /\ LastOf(Put(c, s)) = IF s = << >> THEN c ELSE LastOf(s)
<1> DEFINE u == << c >>
           v == u \o s
<1>1. u \in Seq(Nat) /\ Len(u) = 1 /\ u[1] = c
  OBVIOUS
<1>2. s \in Seq(Nat) /\ Len(s) \in Nat /\ DOMAIN s = 1 .. Len(s) /\ (s # << >> => Len(s) # 0)
  BY LenProperties, EmptySeq DEF NodeSeqs
<1> HIDE DEF u
<1>3. /\ v \in Seq(Nat) /\ Len(v) = Len(u) + Len(s)
      /\ \A i \in 1 .. Len(u) + Len(s) : v[i] = IF i <= Len(u) THEN u[i] ELSE s[i - Len(u)]
  BY <1>1, <1>2, ConcatProperties
<1>4. DOMAIN v = 1 .. Len(v)
  BY <1>3, LenProperties
<1> HIDE DEF v
<1>5. /\ Len(v) = Len(s) + 1 /\ v[1] = c
      /\ \A i \in 1 .. Len(s) : i + 1 \in 1 .. Len(v) /\ v[i + 1] = s[i]
  <2>1. Len(v) = Len(s) + 1 /\ v[1] = c
    BY <1>1, <1>2, <1>3
  <2>2. ASSUME NEW i \in 1 .. Len(s)
        PROVE  i + 1 \in 1 .. Len(v) /\ v[i + 1] = s[i]
    <3>1. i + 1 \in 1 .. Len(u) + Len(s) /\ ~ (i + 1 <= Len(u)) /\ (i + 1) - Len(u) = i
      BY <1>1, <1>2
    <3> QED BY <1>1, <1>2, <1>3, <3>1
  <2> QED BY <2>1, <2>2
<1>6. v # << >>
  <2>1. Len(v) # 0
    BY <1>2, <1>5
  <2> QED BY <2>1, EmptySeq
<1>7. ToSet(v) = {c} \cup ToSet(s)
  <2>1. ASSUME NEW x \in ToSet(v)
        PROVE  x \in {c} \cup ToSet(s)
    <3>1. PICK i \in 1 .. Len(v) : x = v[i]
      BY <1>4 DEF ToSet
    <3>2. i = 1 \/ i - 1 \in 1 .. Len(s)
      BY <1>2, <1>5
    <3>3. i - 1 \in 1 .. Len(s) => v[i] = s[i - 1]
      <4>1. (i - 1) + 1 = i
        OBVIOUS
      <4> QED BY <1>5, <4>1
    <3> QED BY <1>2, <1>5, <3>1, <3>2, <3>3 DEF ToSet
  <2>2. c \in ToSet(v)
    <3>1. 1 \in 1 .. Len(v)
      BY <1>2, <1>5
    <3> QED BY <1>4, <1>5, <3>1 DEF ToSet
  <2>3. ASSUME NEW x \in ToSet(s)
        PROVE  x \in ToSet(v)
    <3>1. PICK i \in 1 .. Len(s) : x = s[i]
      BY <1>2 DEF ToSet
    <3> QED BY <1>4, <1>5, <3>1 DEF ToSet
  <2> QED BY <2>1, <2>2, <2>3
<1>8. LastOf(v) = IF s = << >> THEN c ELSE LastOf(s)
  <2>1. CASE s = << >>
    <3>1. Len(s) = 0
      BY <2>1, EmptySeq
    <3> QED BY <1>5, <2>1, <3>1 DEF LastOf
  <2>2. CASE s # << >>
    <3>1. Len(s) \in 1 .. Len(s)
      BY <1>2, <2>2
    <3> QED BY <1>5, <2>2, <3>1 DEF LastOf
  <2> QED BY <2>1, <2>2
<1> QED BY <1>3, <1>6, <1>7, <1>8 DEF Put, NodeSeqs, v, u

EntriesRun(f) ==
  /\ f \in [0 .. Len(nodes) -> NodeSeqs]
  /\ \A d \in 1 .. Len(nodes) : Entries(d) = f[nodes[d].first]
  /\ f[0] = << >>
  /\ \A c \in 1 .. Len(nodes) : f[c] = Put(c, f[nodes[c].next])

LEMMA EntriesRuns ==
  ASSUME NEW up, Shape(nodes, up)
  PROVE  \E f : EntriesRun(f)
<1> DEFINE N == Len(nodes)
           S == NodeSeqs
           Before(f, c) == Put(c, f[nodes[c].next])
           G == [c \in 1 .. N |-> [f \in [0 .. N -> S] |-> Before(f, c)]]
           rank == [c \in 1 .. N |-> N - c]
           Is(f) == f = [c \in 0 .. N |-> IF c = 0 THEN << >> ELSE << c >> \o f[nodes[c].next]]
           from == CHOOSE f : Is(f)
<1>1. \A d : Entries(d) = from[nodes[d].first]
  BY DEF Entries
<1>2. /\ N \in Nat /\ N >= 1
      /\ \A c \in 1 .. N :
           nodes[c].next \in 0 .. N /\ (nodes[c].next # 0 => nodes[c].next > c)
  BY LinksAre
<1> HIDE DEF N
<1>3. << >> \in S /\ \A c \in 1 .. N : c \in Nat
  BY EmptySeq DEF NodeSeqs
<1>4. \A c \in 1 .. N : \A f : f[nodes[c].next] \in S => Before(f, c) \in S
  BY <1>3, PutIs
<1> HIDE DEF Before, S
<1>5. G \in [1 .. N -> [[0 .. N -> S] -> S]]
  <2>1. \A c \in 1 .. N : \A f \in [0 .. N -> S] : Before(f, c) \in S
    BY <1>2, <1>4
  <2> QED BY <2>1
<1>6. Ranked(G, rank, N, S)
  <2>1. ASSUME NEW c \in 1 .. N, NEW f \in [0 .. N -> S], NEW g \in [0 .. N -> S],
               f[0] = g[0], \A d \in 1 .. N : rank[d] < rank[c] => f[d] = g[d]
        PROVE  G[c][f] = G[c][g]
    <3>1. ASSUME NEW d \in 0 .. N, d # 0 => d > c
          PROVE  f[d] = g[d]
      <4>1. d # 0 => d \in 1 .. N /\ N - d < N - c
        BY <1>2, <3>1
      <4> QED BY <2>1, <4>1
    <3>2. f[nodes[c].next] = g[nodes[c].next]
      BY <1>2, <3>1
    <3>3. Before(f, c) = Before(g, c)
      BY <3>2 DEF Before
    <3> QED BY <3>3
  <2> HIDE DEF G, rank
  <2> QED BY <2>1 DEF Ranked
<1>7. PICK f : Solves(f, G, << >>, N, S)
  <2>1. rank \in [1 .. N -> Nat]
    BY <1>2
  <2> HIDE DEF G, rank
  <2> QED BY <1>2, <1>3, <1>5, <1>6, <2>1, Defined
<1>8. Is(f)
  <2>1. f \in [0 .. N -> S] /\ f[0] = << >> /\ \A c \in 1 .. N : f[c] = Before(f, c)
    BY <1>7 DEF Solves
  <2>2. \A c \in 0 .. N : f[c] = IF c = 0 THEN << >> ELSE << c >> \o f[nodes[c].next]
    <3>1. \A c \in 0 .. N : c # 0 => c \in 1 .. N
      BY <1>2
    <3> QED BY <2>1, <3>1 DEF Before, Put
  <2> QED BY <2>1, <2>2
<1>9. Is(from)
  <2> HIDE DEF Is
  <2> QED BY <1>8
<1> HIDE DEF from
<1>10. from[0] = << >> /\ \A c \in 1 .. N : from[c] = Before(from, c)
  <2>1. 0 \in 0 .. N /\ \A c \in 1 .. N : c \in 0 .. N /\ c # 0
    BY <1>2
  <2> QED BY <1>9, <2>1 DEF Before, Put
<1>11. \A c \in 1 .. N : from[c] \in S
  <2> DEFINE T == {c \in 1 .. N : from[c] \in S}
  <2>1. ASSUME NEW c \in 1 .. N, \A d \in 1 .. N : d > c => d \in T
        PROVE  c \in T
    <3>1. nodes[c].next # 0 => nodes[c].next \in 1 .. N /\ nodes[c].next > c
      BY <1>2
    <3>2. from[nodes[c].next] \in S
      BY <1>3, <1>10, <2>1, <3>1
    <3> QED BY <1>4, <1>10, <3>2
  <2> HIDE DEF T
  <2>2. \A c \in 1 .. N : c \in T
    BY <1>2, <2>1, Downward
  <2> QED BY <2>2 DEF T
<1>12. from \in [0 .. N -> S]
  <2>1. \A c \in 0 .. N : from[c] \in S
    <3>1. \A c \in 0 .. N : c # 0 => c \in 1 .. N
      BY <1>2
    <3> QED BY <1>3, <1>10, <1>11, <3>1
  <2>2. \E g : from = [c \in 0 .. N |-> g[c]]
    <3>1. from = [c \in 0 .. N |-> from[c]]
      BY <1>9
    <3> QED BY <3>1
  <2> HIDE DEF Is
  <2> QED BY <2>1, <2>2
<1>13. EntriesRun(from)
  BY <1>1, <1>10, <1>12 DEF EntriesRun, Before, S, N
<1> QED BY <1>13

\* The entries are the nodes in the directory; the last has no successor.
LEMMA EntriesAre ==
  ASSUME NEW up, Shape(nodes, up), NEW d \in 1 .. Len(nodes)
  PROVE  /\ Entries(d) = << >> <=> nodes[d].first = 0
         /\ ToSet(Entries(d)) = {n \in 2 .. Len(nodes) : up[n] = d}
         /\ nodes[d].first # 0 =>
              LET e == Entries(d)[Len(Entries(d))] IN
              e \in 2 .. Len(nodes) /\ up[e] = d /\ nodes[e].next = 0
<1> DEFINE N == Len(nodes)
<1>1. PICK f : EntriesRun(f)
  BY EntriesRuns
<1>2. /\ N \in Nat /\ N >= 1
      /\ \A c \in 1 .. N :
           /\ nodes[c].next \in 0 .. N /\ (nodes[c].next # 0 => nodes[c].next > c)
           /\ nodes[c].first \in 0 .. N
  BY LinksAre
<1>3. /\ \A c, n \in 2 .. N : up[c] = up[n] /\ c < n => nodes[c].next \in 1 .. n
      /\ \A c \in 1 .. N : nodes[c].next # 0 => up[nodes[c].next] = up[c]
      /\ nodes[d].first # 0 => nodes[d].first \in 2 .. N /\ up[nodes[d].first] = d
      /\ \A n \in 2 .. N : up[n] = d => nodes[d].first \in 1 .. n
  BY DEF Shape
<1>4. /\ Entries(d) = f[nodes[d].first] /\ f[0] = << >>
      /\ \A c \in 0 .. N : f[c] \in NodeSeqs
      /\ \A c \in 1 .. N : f[c] = Put(c, f[nodes[c].next])
  BY <1>1 DEF EntriesRun
<1> HIDE DEF N
<1> DEFINE Good(c) ==
             c \in 2 .. N =>
               /\ f[c] # << >> /\ ToSet(f[c]) = {n \in c .. N : up[n] = up[c]}
               /\ LastOf(f[c]) \in 2 .. N /\ up[LastOf(f[c])] = up[c]
               /\ nodes[LastOf(f[c])].next = 0
           T == {c \in 1 .. N : Good(c)}
<1>5. ASSUME NEW c \in 1 .. N, \A b \in 1 .. N : b > c => b \in T
      PROVE  c \in T
  <2> SUFFICES ASSUME c \in 2 .. N
               PROVE  Good(c)
    OBVIOUS
  <2> DEFINE b == nodes[c].next
  <2>1. b \in 0 .. N /\ (b # 0 => b > c) /\ f[c] = Put(c, f[b]) /\ f[b] \in NodeSeqs /\ c \in Nat
    BY <1>2, <1>4
  <2>2. /\ f[c] # << >> /\ ToSet(f[c]) = {c} \cup ToSet(f[b])
        /\ LastOf(f[c]) = IF f[b] = << >> THEN c ELSE LastOf(f[b])
    BY <2>1, PutIs
  <2>3. \A n \in 2 .. N : up[c] = up[n] /\ c < n => b \in 1 .. n
    BY <1>3
  <2>4. CASE b = 0
    <3>1. f[b] = << >> /\ ToSet(f[b]) = {}
      BY <1>4, <2>4 DEF ToSet
    <3>2. {n \in c .. N : up[n] = up[c]} = {c}
      <4>1. ASSUME NEW n \in c .. N, up[n] = up[c]
            PROVE  n = c
        BY <1>2, <2>3, <2>4, <4>1
      <4>2. c \in c .. N
        BY <1>2
      <4> QED BY <4>1, <4>2
    <3> QED BY <2>2, <2>4, <3>1, <3>2
  <2>5. CASE b # 0
    <3>1. b \in 2 .. N /\ b \in 1 .. N /\ b > c /\ up[b] = up[c]
      BY <1>2, <1>3, <2>1, <2>5
    <3>2. Good(b)
      BY <1>5, <3>1
    <3>3. {n \in c .. N : up[n] = up[c]} = {c} \cup {n \in b .. N : up[n] = up[b]}
      <4>1. ASSUME NEW n \in c .. N, up[n] = up[c], n # c
            PROVE  n \in b .. N
        <5>1. n \in 2 .. N /\ c < n
          BY <1>2, <4>1
        <5>2. b \in 1 .. n
          BY <2>3, <4>1, <5>1
        <5> HIDE DEF b
        <5> QED BY <1>2, <3>1, <5>1, <5>2
      <4>2. c \in c .. N /\ \A n \in b .. N : n \in c .. N
        <5> HIDE DEF b
        <5> QED BY <1>2, <3>1
      <4> HIDE DEF b
      <4> QED BY <3>1, <4>1, <4>2
    <3> HIDE DEF b
    <3> QED BY <2>2, <3>1, <3>2, <3>3
  <2> QED BY <2>4, <2>5
<1>6. \A c \in 1 .. N : c \in T
  <2> HIDE DEF T
  <2> QED BY <1>2, <1>5, Downward
<1>7. CASE nodes[d].first = 0
  <2>1. Entries(d) = << >> /\ ToSet(Entries(d)) = {}
    BY <1>4, <1>7 DEF ToSet
  <2>2. \A n \in 2 .. N : up[n] # d
    BY <1>3, <1>7
  <2> QED BY <1>7, <2>1, <2>2 DEF N
<1>8. CASE nodes[d].first # 0
  <2> DEFINE c == nodes[d].first
  <2>1. c \in 2 .. N /\ c \in 1 .. N /\ up[c] = d /\ Entries(d) = f[c]
    BY <1>2, <1>3, <1>4, <1>8
  <2>2. Good(c)
    BY <1>6, <2>1
  <2>3. {n \in c .. N : up[n] = d} = {n \in 2 .. N : up[n] = d}
    <3>1. ASSUME NEW n \in 2 .. N, up[n] = d
          PROVE  n \in c .. N
      <4>1. c \in 1 .. n
        BY <1>3, <3>1
      <4> HIDE DEF c
      <4> QED BY <1>2, <2>1, <4>1
    <3>2. \A n \in c .. N : n \in 2 .. N
      <4> HIDE DEF c
      <4> QED BY <1>2, <2>1
    <3> HIDE DEF c
    <3> QED BY <3>1, <3>2
  <2>4. c # 0
    BY <1>8
  <2> HIDE DEF c
  <2> QED BY <1>8, <2>1, <2>2, <2>3, <2>4 DEF LastOf, N
<1> QED BY <1>7, <1>8

-----------------------------------------------------------------------------
(***************************************************************************)
(* The file system: new nodes.                                             *)
(***************************************************************************)
\* os is ns with one more entry, number new, in the directory dir.
HasLinked(ns, up, os, dir, new) ==
  \A c \in 1 .. Len(ns) :
    /\ os[c].name = ns[c].name /\ os[c].type = ns[c].type
    /\ os[c].buf = ns[c].buf /\ os[c].len = ns[c].len
    /\ os[c].first = IF c = dir /\ ns[c].first = 0 THEN new ELSE ns[c].first
    /\ os[c].next = IF c # 1 /\ up[c] = dir /\ ns[c].next = 0 THEN new ELSE ns[c].next

LEMMA LinkedIs ==
  ASSUME NEW up, Shape(nodes, up), NEW d \in 1 .. Len(nodes), NEW new \in Nat
  PROVE  /\ Linked(d, new) \in Seq(Node) /\ Len(Linked(d, new)) = Len(nodes)
         /\ HasLinked(nodes, up, Linked(d, new), d, new)
<1> DEFINE N == Len(nodes)
           e == Entries(d)[Len(Entries(d))]
<1>1. /\ N \in Nat /\ N >= 1 /\ nodes \in Seq(Node)
      /\ \A c \in 1 .. N : nodes[c] \in Node
      /\ \A c \in 2 .. N : c \in 1 .. N
  BY LinksAre DEF Shape
<1>2. /\ Entries(d) = << >> <=> nodes[d].first = 0
      /\ nodes[d].first # 0 => e \in 2 .. N /\ up[e] = d /\ nodes[e].next = 0
  BY EntriesAre
<1>3. /\ \A c, n \in 2 .. N : up[c] = up[n] /\ c < n => nodes[c].next \in 1 .. n
      /\ \A n \in 2 .. N : nodes[up[n]].first \in 1 .. n
  BY DEF Shape
<1> HIDE DEF N, e
<1>4. CASE nodes[d].first = 0
  <2>1. Linked(d, new) = [nodes EXCEPT ![d].first = new]
    BY <1>2, <1>4 DEF Linked
  <2> DEFINE o == [nodes[d] EXCEPT !.first = new]
  <2>2. Linked(d, new) = [nodes EXCEPT ![d] = o]
    BY <2>1
  <2>3. d \in 1 .. N /\ nodes[d] \in Node
    BY <1>1 DEF N
  <2>4. /\ o \in Node /\ o.first = new /\ o.name = nodes[d].name /\ o.type = nodes[d].type
        /\ o.next = nodes[d].next /\ o.buf = nodes[d].buf /\ o.len = nodes[d].len
    BY <2>3 DEF Node
  <2> HIDE DEF o
  <2>5. /\ [nodes EXCEPT ![d] = o] \in Seq(Node) /\ Len([nodes EXCEPT ![d] = o]) = Len(nodes)
        /\ \A c \in 1 .. Len(nodes) :
             [nodes EXCEPT ![d] = o][c] = IF c = d THEN o ELSE nodes[c]
    BY <1>1, <2>3, <2>4, ExceptSeq DEF N
  <2>6. ASSUME NEW c \in 1 .. N
        PROVE  ~ (c # 1 /\ up[c] = d /\ nodes[c].next = 0)
    <3>1. CASE c # 1 /\ up[c] = d
      <4>1. c \in 2 .. N
        BY <1>1, <3>1
      <4>2. nodes[d].first \in 1 .. c
        BY <1>3, <3>1, <4>1
      <4> QED BY <1>4, <4>2
    <3> QED BY <3>1
  <2>7. HasLinked(nodes, up, Linked(d, new), d, new)
    BY <1>4, <2>2, <2>4, <2>5, <2>6 DEF HasLinked, N
  <2> QED BY <2>2, <2>5, <2>7
<1>5. CASE nodes[d].first # 0
  <2>1. Linked(d, new) = [nodes EXCEPT ![e].next = new]
    BY <1>2, <1>5 DEF Linked, e
  <2>2. e \in 2 .. N /\ e \in 1 .. N /\ nodes[e] \in Node /\ up[e] = d /\ nodes[e].next = 0
    BY <1>1, <1>2, <1>5
  <2> DEFINE o == [nodes[e] EXCEPT !.next = new]
  <2>3. Linked(d, new) = [nodes EXCEPT ![e] = o]
    BY <2>1
  <2>4. /\ o \in Node /\ o.next = new /\ o.name = nodes[e].name /\ o.type = nodes[e].type
        /\ o.first = nodes[e].first /\ o.buf = nodes[e].buf /\ o.len = nodes[e].len
    BY <2>2 DEF Node
  <2> HIDE DEF o
  <2>5. /\ [nodes EXCEPT ![e] = o] \in Seq(Node) /\ Len([nodes EXCEPT ![e] = o]) = Len(nodes)
        /\ \A c \in 1 .. Len(nodes) :
             [nodes EXCEPT ![e] = o][c] = IF c = e THEN o ELSE nodes[c]
    BY <1>1, <2>2, <2>4, ExceptSeq DEF N
  <2>6. ASSUME NEW c \in 1 .. N, c # 1, up[c] = d, nodes[c].next = 0
        PROVE  c = e
    <3>1. c \in 2 .. N
      BY <1>1, <2>6
    <3>2. c < e => nodes[c].next \in 1 .. e
      BY <1>3, <2>2, <2>6, <3>1
    <3>3. e < c => nodes[e].next \in 1 .. c
      BY <1>3, <2>2, <2>6, <3>1
    <3> QED BY <1>1, <2>2, <2>6, <3>1, <3>2, <3>3
  <2>7. e # 1
    BY <2>2
  <2>8. HasLinked(nodes, up, Linked(d, new), d, new)
    BY <1>5, <2>2, <2>3, <2>4, <2>5, <2>6, <2>7 DEF HasLinked, N
  <2> QED BY <2>3, <2>5, <2>8
<1> QED BY <1>4, <1>5

\* The directories after count nodes were made, the first one in dir and each
\* other in the one before.
UpAfter(up, N, dir, count) ==
  [c \in 1 .. N + count |-> IF c <= N THEN up[c] ELSE IF c = N + 1 THEN dir ELSE c - 1]

Grown(ns, up, os, dir, count) ==
  LET N == Len(ns) IN
  /\ os \in Seq(Node) /\ Len(os) = N + count
  /\ HasLinked(ns, up, os, dir, N + 1)
  /\ \A k \in 1 .. count :
       /\ os[N + k].name \in Name /\ os[N + k].next = 0
       /\ k < count => os[N + k].type = "DIR" /\ os[N + k].first = N + k + 1
       /\ k = count => os[N + k].first = 0
  /\ \A m \in 2 .. N : up[m] = dir => ns[m].name # os[N + 1].name

LEMMA ShapeGrown ==
  ASSUME NEW ns, NEW up, Shape(ns, up), NEW dir \in 1 .. Len(ns), ns[dir].type = "DIR",
         NEW count \in Nat \ {0}, NEW os, Grown(ns, up, os, dir, count)
  PROVE  Shape(os, UpAfter(up, Len(ns), dir, count))
<1> DEFINE N == Len(ns)
           M == N + count
           vp == UpAfter(up, N, dir, count)
<1>1. /\ N \in Nat /\ N >= 1 /\ M \in Nat /\ M > N
      /\ \A c \in 1 .. N : c \in 1 .. M /\ c # N + 1
  <2>1. N \in Nat /\ N >= 1
    BY LinksAre
  <2> QED BY <2>1
<1>2. /\ up \in [1 .. N -> 0 .. N]
      /\ \A n \in 2 .. N : ns[n].name \in Name /\ up[n] \in 1 .. n - 1 /\ ns[up[n]].type = "DIR"
      /\ \A m, n \in 2 .. N : up[m] = up[n] /\ ns[m].name = ns[n].name => m = n
      /\ \A d \in 1 .. N : ns[d].first # 0 => ns[d].first \in 2 .. N /\ up[ns[d].first] = d
      /\ \A c \in 1 .. N : ns[c].next # 0 =>
           c # 1 /\ ns[c].next \in c + 1 .. N /\ up[ns[c].next] = up[c]
      /\ \A n \in 2 .. N : ns[up[n]].first \in 1 .. n
      /\ \A c, n \in 2 .. N : up[c] = up[n] /\ c < n => ns[c].next \in 1 .. n
  BY DEF Shape
<1>3. /\ os \in Seq(Node) /\ Len(os) = M
      /\ \A c \in 1 .. N :
           /\ os[c].name = ns[c].name /\ os[c].type = ns[c].type
           /\ os[c].first = IF c = dir /\ ns[c].first = 0 THEN N + 1 ELSE ns[c].first
           /\ os[c].next = IF c # 1 /\ up[c] = dir /\ ns[c].next = 0 THEN N + 1 ELSE ns[c].next
      /\ \A m \in 2 .. N : up[m] = dir => ns[m].name # os[N + 1].name
  BY DEF Grown, HasLinked
<1>4. \A c \in N + 1 .. M :
        /\ os[c].name \in Name /\ os[c].next = 0
        /\ c < M => os[c].type = "DIR" /\ os[c].first = c + 1
        /\ c = M => os[c].first = 0
  <2>1. ASSUME NEW c \in N + 1 .. M
        PROVE  c - N \in 1 .. count /\ N + (c - N) = c /\ (c < M => c - N < count)
                 /\ (c = M => c - N = count) /\ N + (c - N) + 1 = c + 1
    BY <1>1
  <2>2. \A k \in 1 .. count :
          /\ os[N + k].name \in Name /\ os[N + k].next = 0
          /\ k < count => os[N + k].type = "DIR" /\ os[N + k].first = N + k + 1
          /\ k = count => os[N + k].first = 0
    BY DEF Grown
  <2> HIDE DEF N, M
  <2>3. ASSUME NEW c \in N + 1 .. M
        PROVE  /\ os[c].name \in Name /\ os[c].next = 0
               /\ c < M => os[c].type = "DIR" /\ os[c].first = c + 1
               /\ c = M => os[c].first = 0
    <3>1. PICK k \in 1 .. count :
            N + k = c /\ (c < M => k < count) /\ (c = M => k = count)
      BY <2>1
    <3> QED BY <2>2, <3>1
  <2> QED BY <2>3
<1> HIDE DEF N, M
<1>5. /\ \A c \in 1 .. N : vp[c] = up[c]
      /\ vp[N + 1] = dir /\ \A c \in N + 2 .. M : vp[c] = c - 1
  BY <1>1 DEF UpAfter, M
<1>6. vp \in [1 .. M -> 0 .. M]
  <2>1. \A c \in 1 .. M : (IF c <= N THEN up[c] ELSE IF c = N + 1 THEN dir ELSE c - 1) \in 0 .. M
    <3>1. dir \in 1 .. N
      BY DEF N
    <3>2. \A c \in 1 .. N : up[c] \in 0 .. M
      BY <1>1, <1>2
    <3> QED BY <1>1, <3>1, <3>2
  <2> QED BY <2>1 DEF UpAfter, M
<1> HIDE DEF vp
<1>7. /\ dir \in 1 .. N /\ N + 1 \in N + 1 .. M
      /\ \A n \in 2 .. M : n \notin 2 .. N /\ n # N + 1 => n \in N + 2 .. M
      /\ \A n \in 1 .. M : n \in 1 .. N \/ n \in N + 1 .. M
      /\ \A n \in 2 .. N : n \in 1 .. N /\ up[n] \in 1 .. N
      /\ \A n \in N + 2 .. M : n - 1 \in N + 1 .. M /\ n - 1 < M /\ n \in N + 1 .. M
  <2>1. dir \in 1 .. N /\ N + 1 \in N + 1 .. M
    BY <1>1 DEF N
  <2>2. \A n \in 2 .. N : n \in 1 .. N /\ up[n] \in 1 .. N
    <3>1. \A n \in 2 .. N : up[n] \in 1 .. n - 1
      BY <1>2
    <3> QED BY <1>1, <3>1
  <2>3. /\ \A n \in 2 .. M : n \notin 2 .. N /\ n # N + 1 => n \in N + 2 .. M
        /\ \A n \in 1 .. M : n \in 1 .. N \/ n \in N + 1 .. M
    BY <1>1
  <2>4. \A n \in N + 2 .. M : n - 1 \in N + 1 .. M /\ n - 1 < M /\ n \in N + 1 .. M
    BY <1>1
  <2> QED BY <2>1, <2>2, <2>3, <2>4
<1>8. ASSUME NEW n \in 2 .. M
      PROVE  os[n].name \in Name /\ vp[n] \in 1 .. n - 1 /\ os[vp[n]].type = "DIR"
  <2>1. CASE n \in 2 .. N
    <3>1. ns[n].name \in Name /\ up[n] \in 1 .. n - 1 /\ ns[up[n]].type = "DIR"
      BY <1>2, <2>1
    <3>2. n \in 1 .. N /\ up[n] \in 1 .. N
      BY <1>7, <2>1
    <3> QED BY <1>3, <1>5, <3>1, <3>2
  <2>2. CASE n = N + 1
    <3>1. os[dir].type = "DIR"
      BY <1>3, <1>7
    <3> QED BY <1>1, <1>4, <1>5, <1>7, <2>2, <3>1
  <2>3. CASE n \in N + 2 .. M
    BY <1>1, <1>4, <1>5, <1>7, <2>3
  <2> QED BY <1>7, <2>1, <2>2, <2>3
<1>9. ASSUME NEW m \in 2 .. M, NEW n \in 2 .. M, vp[m] = vp[n], os[m].name = os[n].name, m <= n
      PROVE  m = n
  <2>1. CASE n \in 2 .. N
    <3>1. m \in 2 .. N
      BY <1>1, <1>9, <2>1
    <3> QED BY <1>2, <1>3, <1>5, <1>7, <1>9, <2>1, <3>1
  <2>2. CASE n = N + 1
    <3>1. m \in 2 .. N \/ m = n
      BY <1>1, <1>9, <2>2
    <3> QED BY <1>3, <1>5, <1>7, <1>9, <2>2, <3>1
  <2>3. CASE n \in N + 2 .. M
    <3>1. vp[n] = n - 1 /\ n - 1 > N
      BY <1>1, <1>5, <2>3
    <3>2. m \in 2 .. N => vp[m] <= N
      BY <1>1, <1>5, <1>7
    <3>3. m = N + 1 => vp[m] <= N
      BY <1>1, <1>5, <1>7
    <3>4. m \in N + 2 .. M => vp[m] = m - 1
      BY <1>5
    <3> QED BY <1>1, <1>7, <1>9, <3>1, <3>2, <3>3, <3>4
  <2> QED BY <1>7, <2>1, <2>2, <2>3
<1>10. ASSUME NEW d \in 1 .. M, os[d].first # 0
       PROVE  os[d].first \in 2 .. M /\ vp[os[d].first] = d
  <2>1. CASE d \in 1 .. N /\ ~ (d = dir /\ ns[d].first = 0)
    <3>1. os[d].first = ns[d].first /\ ns[d].first \in 2 .. N /\ up[ns[d].first] = d
      BY <1>2, <1>3, <1>10, <2>1
    <3> QED BY <1>1, <1>5, <1>7, <3>1
  <2>2. CASE d = dir /\ ns[d].first = 0
    <3>1. os[d].first = N + 1
      BY <1>3, <1>7, <2>2
    <3> QED BY <1>1, <1>5, <2>2, <3>1
  <2>3. CASE d \in N + 1 .. M
    <3>1. os[d].first = d + 1 /\ d < M
      BY <1>1, <1>4, <1>10, <2>3
    <3>2. d + 1 \in N + 2 .. M /\ (d + 1) - 1 = d
      BY <1>1, <2>3, <3>1
    <3> QED BY <1>1, <1>5, <3>1, <3>2
  <2> QED BY <1>7, <2>1, <2>2, <2>3
<1>11. ASSUME NEW c \in 1 .. M, os[c].next # 0
       PROVE  c # 1 /\ os[c].next \in c + 1 .. M /\ vp[os[c].next] = vp[c]
  <2>1. c \in 1 .. N
    BY <1>4, <1>7, <1>11
  <2>2. CASE c # 1 /\ up[c] = dir /\ ns[c].next = 0
    <3>1. os[c].next = N + 1
      BY <1>3, <2>1, <2>2
    <3> QED BY <1>1, <1>5, <2>1, <2>2, <3>1
  <2>3. CASE ~ (c # 1 /\ up[c] = dir /\ ns[c].next = 0)
    <3>1. os[c].next = ns[c].next
      BY <1>3, <2>1, <2>3
    <3>2. c # 1 /\ ns[c].next \in c + 1 .. N /\ up[ns[c].next] = up[c]
      BY <1>2, <1>11, <2>1, <3>1
    <3> QED BY <1>1, <1>5, <2>1, <3>1, <3>2
  <2> QED BY <2>2, <2>3
<1>12. ASSUME NEW n \in 2 .. M
       PROVE  os[vp[n]].first \in 1 .. n
  <2>1. CASE n \in 2 .. N
    <3>1. vp[n] = up[n] /\ up[n] \in 1 .. N /\ ns[up[n]].first \in 1 .. n
      BY <1>2, <1>5, <1>7, <2>1
    <3>2. os[up[n]].first = ns[up[n]].first
      BY <1>3, <3>1
    <3> QED BY <3>1, <3>2
  <2>2. CASE n = N + 1
    <3>1. os[dir].first = N + 1 \/ (os[dir].first = ns[dir].first /\ ns[dir].first # 0)
      BY <1>3, <1>7
    <3>2. ns[dir].first # 0 => ns[dir].first \in 2 .. N
      BY <1>2, <1>7
    <3> QED BY <1>1, <1>5, <2>2, <3>1, <3>2
  <2>3. CASE n \in N + 2 .. M
    <3>1. os[n - 1].first = (n - 1) + 1
      BY <1>4, <1>7, <2>3
    <3> QED BY <1>1, <1>5, <2>3, <3>1
  <2> QED BY <1>7, <2>1, <2>2, <2>3
<1>13. ASSUME NEW c \in 2 .. M, NEW n \in 2 .. M, vp[c] = vp[n], c < n
       PROVE  os[c].next \in 1 .. n
  <2>1. CASE n \in 2 .. N
    <3>1. c \in 2 .. N
      BY <1>1, <1>13, <2>1
    <3>2. ns[c].next \in 1 .. n
      BY <1>2, <1>5, <1>7, <1>13, <2>1, <3>1
    <3>3. os[c].next = ns[c].next
      BY <1>3, <1>7, <3>1, <3>2
    <3> QED BY <3>2, <3>3
  <2>2. CASE n = N + 1
    <3>1. c \in 2 .. N /\ up[c] = dir
      BY <1>1, <1>5, <1>7, <1>13, <2>2
    <3>2. os[c].next = N + 1 \/ (os[c].next = ns[c].next /\ ns[c].next # 0)
      BY <1>3, <1>7, <3>1
    <3>3. ns[c].next # 0 => ns[c].next \in c + 1 .. N
      BY <1>2, <1>7, <3>1
    <3> QED BY <1>1, <2>2, <3>1, <3>2, <3>3
  <2>3. CASE n \in N + 2 .. M
    <3>1. vp[n] = n - 1 /\ n - 1 > N
      BY <1>1, <1>5, <2>3
    <3>2. c \in 2 .. N => vp[c] <= N
      BY <1>1, <1>5, <1>7
    <3>3. c = N + 1 => vp[c] <= N
      BY <1>1, <1>5, <1>7
    <3>4. c \in N + 2 .. M => vp[c] = c - 1
      BY <1>5
    <3> QED BY <1>1, <1>7, <1>13, <3>1, <3>2, <3>3, <3>4
  <2> QED BY <1>7, <2>1, <2>2, <2>3
<1>14. \A m, n \in 2 .. M : vp[m] = vp[n] /\ os[m].name = os[n].name => m = n
  <2>1. \A m, n \in 2 .. M : m <= n \/ n <= m
    BY <1>1
  <2> QED BY <1>9, <2>1
<1>15. Shape(os, vp)
  BY <1>1, <1>3, <1>6, <1>8, <1>10, <1>11, <1>12, <1>13, <1>14 DEF Shape
<1> QED BY <1>15 DEF vp, N

-----------------------------------------------------------------------------
(***************************************************************************)
(* The file system: creating.                                              *)
(***************************************************************************)
LEMMA PathsAreSequences ==
  ASSUME NEW p \in Paths
  PROVE  p \in AllPaths /\ Len(p) \in Nat \ {0}
<1>1. PICK n \in 1 .. MaxPath : p \in [1 .. n -> Name]
  BY DEF Paths
<1>2. n \in Nat \ {0}
  BY SizesAssumption
<1>3. p \in Seq(Name) /\ Len(p) = n
  BY <1>1, <1>2, SeqDef, LenProperties
<1> QED BY <1>2, <1>3 DEF AllPaths

LEMMA ExistingIs ==
  ASSUME NEW up, Shape(nodes, up), NEW at, PathsAre(nodes, up, at),
         NEW root \in 1 .. Len(nodes), NEW p \in AllPaths, Len(p) # 0
  PROVE  /\ Existing(root, p) \in 0 .. Len(p) - 1
         /\ Lookup(root, Prefix(p, Existing(root, p))) # 0
         /\ \A k \in Existing(root, p) + 1 .. Len(p) - 1 : Lookup(root, Prefix(p, k)) = 0
<1> DEFINE L == Len(p)
           Found(n) == Lookup(root, Prefix(p, n)) # 0
           Back == {j \in 0 .. L - 1 : Found(L - 1 - j)}
<1>1. L \in Nat \ {0}
  BY LenProperties DEF AllPaths
<1>2. Found(0)
  <2>1. Prefix(p, 0) = Top /\ at[root] \in AllPaths
    BY PrefixIs DEF PathsAre
  <2>2. Lookup(root, Top) = root
    <3>1. at[root] = Cat(at[root], Top)
      BY <2>1, TopIs, CatIs
    <3> QED BY <3>1, TopIs, LookupIs
  <2> QED BY <2>1, <2>2
<1> HIDE DEF Found, L
<1>3. L - 1 \in Back /\ Back \in SUBSET Nat
  <2>1. L - 1 \in 0 .. L - 1 /\ L - 1 - (L - 1) = 0
    BY <1>1
  <2> QED BY <1>2, <2>1
<1>4. PICK j \in Back : \A i \in Back : j <= i
  BY <1>3, LeastExists
<1>5. PICK n \in 0 .. L - 1 : n = L - 1 - j /\ Found(n)
  BY <1>1
<1>6. ASSUME NEW k \in n + 1 .. L - 1
      PROVE  ~ Found(k)
  <2>1. L - 1 - k \in 0 .. L - 1 /\ L - 1 - k < j /\ L - 1 - (L - 1 - k) = k
    BY <1>1, <1>5
  <2>2. L - 1 - k \notin Back
    BY <1>4, <2>1
  <2> QED BY <2>1, <2>2
<1> QED BY <1>5, <1>6 DEF Existing, Found, L

\* os[c] is the node made for name number i of p.
MadeFor(o, p, type, data, i) ==
  /\ o \in Node /\ o.name = p[i] /\ o.next = 0 /\ o.len = 0
  /\ o.type = IF i = Len(p) THEN type ELSE "DIR"
  /\ o.buf = IF i = Len(p) THEN data ELSE << >>

AllMade(s, p, n, count, type, data) ==
  /\ s \in Seq(Node) /\ Len(s) = count
  /\ \A k \in 1 .. count :
       /\ MadeFor(s[k], p, type, data, n + k)
       /\ s[k].first = IF k < count THEN Len(nodes) + k + 1 ELSE 0

LEMMA MadeIs ==
  ASSUME NEW N \in Nat, N = Len(nodes), NEW p \in AllPaths, NEW n \in 0 .. Len(p) - 1,
         NEW count \in 1 .. Len(p) - n, NEW type \in {"DIR", "FILE"},
         NEW data \in Seq(Byte \cup {Garbage}), NEW leaf,
         leaf = [NewNode(p[Len(p)], type) EXCEPT !.buf = data]
  PROVE  AllMade(Made(p, n, count, leaf), p, n, count, type, data)
<1> DEFINE m == Made(p, n, count, leaf)
           first(k) == IF k < count THEN N + k + 1 ELSE 0
           dir(k) == [NewNode(p[n + k], "DIR") EXCEPT !.first = first(k)]
<1>1. Len(p) \in Nat /\ count \in Nat /\ \A i \in 1 .. Len(p) : p[i] \in Name
  BY LenProperties, ElementOfSeq DEF AllPaths
<1>2. \A k \in 1 .. count : n + k \in 1 .. Len(p) /\ (n + k = Len(p) => ~ (k < count))
  BY <1>1
<1>3. m = [k \in 1 .. count |-> IF n + k = Len(p) THEN leaf ELSE dir(k)]
  BY DEF Made
<1>4. /\ leaf.name = p[Len(p)] /\ leaf.type = type /\ leaf.first = 0 /\ leaf.next = 0
      /\ leaf.buf = data /\ leaf.len = 0
      /\ p[Len(p)] \in Name => leaf \in Node
  BY DEF NewNode, Node
<1>5. << >> \in Seq(Byte \cup {Garbage})
  BY EmptySeq
<1>6. ASSUME NEW k \in 1 .. count
      PROVE  /\ dir(k) \in Node /\ dir(k).first = first(k) /\ dir(k).type = "DIR"
             /\ dir(k).name = p[n + k] /\ dir(k).next = 0 /\ dir(k).len = 0
             /\ dir(k).buf = << >>
  <2>1. first(k) \in Nat /\ p[n + k] \in Name
    BY <1>1, <1>2
  <2> HIDE DEF first
  <2> QED BY <1>5, <2>1 DEF NewNode, Node
<1> HIDE DEF dir, m
<1>7. ASSUME NEW k \in 1 .. count
      PROVE  MadeFor(m[k], p, type, data, n + k) /\ m[k].first = first(k)
  <2>1. CASE n + k = Len(p)
    <3>1. m[k] = leaf /\ p[Len(p)] \in Name /\ first(k) = 0
      BY <1>1, <1>2, <1>3, <2>1
    <3> QED BY <1>4, <2>1, <3>1 DEF MadeFor
  <2>2. CASE n + k # Len(p)
    <3>1. m[k] = dir(k)
      BY <1>3, <2>2
    <3> HIDE DEF first
    <3> QED BY <1>6, <2>2, <3>1 DEF MadeFor
  <2> QED BY <2>1, <2>2
<1>8. m \in Seq(Node) /\ Len(m) = count
  <2>1. \A k \in 1 .. count : m[k] \in Node
    BY <1>7 DEF MadeFor
  <2>2. m \in [1 .. count -> Node]
    BY <1>3, <2>1
  <2>3. m \in Seq(Node)
    <3>1. count \in Nat
      BY <1>1
    <3>2. [1 .. count -> Node] \subseteq Seq(Node)
      BY <3>1, SeqDef
    <3> QED BY <2>2, <3>2
  <2>4. DOMAIN m = 1 .. count /\ DOMAIN m = 1 .. Len(m) /\ Len(m) \in Nat
    BY <2>2, <2>3, LenProperties
  <2>5. Len(m) = count
    BY <1>1, <2>4
  <2> QED BY <2>3, <2>5
<1> QED BY <1>7, <1>8 DEF m, AllMade

\* A call that makes count nodes, for the names of p from number n + 1 on.
Creation(up, at, root, p, type, n, dir, count, data) ==
  LET N == Len(nodes) IN
  /\ n \in 0 .. Len(p) - 1 /\ dir \in 1 .. N /\ count \in 1 .. Len(p) - n
  /\ at[dir] = Cat(at[root], Prefix(p, n)) /\ nodes[dir].type = "DIR"
  /\ N + count <= MaxNodes
  /\ Grown(nodes, up, nodes', dir, count)
  /\ \A k \in 1 .. count : MadeFor(nodes'[N + k], p, type, data, n + k)
  /\ data \in Seq(Byte \cup {Garbage})
  /\ data # << >> => Len(data) = PageSize /\ n + count = Len(p) /\ mem + count < MemPages
  /\ mem + count <= MemPages
  /\ mem' = mem + count + IF data = << >> THEN 0 ELSE 1
  /\ crashed' = crashed

LEMMA CreateIs ==
  ASSUME NEW up, Shape(nodes, up), NEW at, PathsAre(nodes, up, at), Len(nodes) <= MaxNodes,
         NEW root \in 1 .. Len(nodes), NEW p \in AllPaths, Len(p) \in Nat \ {0},
         NEW type \in {"DIR", "FILE"}, NEW rec,
         Create(root, p, type, rec), ~ Crash
  PROVE  \E n, dir, count, data : Creation(up, at, root, p, type, n, dir, count, data)
<1> DEFINE N == Len(nodes)
           L == Len(p)
           n == Existing(root, p)
           dir == Lookup(root, Prefix(p, n))
           wanted == L - n
           count == Lesser(wanted, MaxNodes - N)
           data == IF type = "FILE" /\ count = wanted /\ mem + count < MemPages
                   THEN [i \in 1 .. PageSize |-> Garbage] ELSE << >>
           leaf == [NewNode(p[L], type) EXCEPT !.buf = data]
           m == Made(p, n, count, leaf)
           os == Linked(dir, N + 1)
<1>1. /\ nodes[dir].type = "DIR"
      /\ wanted = 1 => \A c \in ToSet(Entries(dir)) : nodes[c].name # p[L]
      /\ count > 0
      /\ mem + count <= MemPages
      /\ nodes' = os \o m
      /\ mem' = mem + count + (IF data = << >> THEN 0 ELSE 1)
      /\ crashed' = crashed
  BY DEF Create
<1> HIDE DEF os, m, leaf, data
<1>2. N \in Nat /\ N >= 1 /\ MaxNodes \in Nat /\ L \in Nat \ {0}
  BY LinksAre, SizesAssumption
<1>3. /\ n \in 0 .. L - 1 /\ dir # 0
      /\ \A k \in n + 1 .. L - 1 : Lookup(root, Prefix(p, k)) = 0
  BY ExistingIs
<1> HIDE DEF n
<1>4. /\ \A q \in AllPaths : Lookup(root, q) \in 0 .. N
      /\ \A q \in AllPaths : \A c \in 1 .. N : Lookup(root, q) = c <=> at[c] = Cat(at[root], q)
  BY LookupIs
<1>5. /\ \A k \in 0 .. L : Prefix(p, k) \in AllPaths
      /\ \A k \in 1 .. L : Prefix(p, k) = Sub(Prefix(p, k - 1), p[k]) /\ p[k] \in Name
  BY PrefixIs, ElementOfSeq DEF AllPaths
<1>6. Prefix(p, n) \in AllPaths /\ n + 1 \in 1 .. L /\ (n + 1) - 1 = n /\ p[n + 1] \in Name
  BY <1>2, <1>3, <1>5
<1>7. dir \in 1 .. N /\ at[dir] = Cat(at[root], Prefix(p, n))
  <2>1. dir \in 0 .. N
    BY <1>4, <1>6
  <2>2. dir \in 1 .. N
    BY <1>2, <1>3, <2>1
  <2> QED BY <1>4, <1>6, <2>2
<1> HIDE DEF dir
<1>8. count \in 1 .. L - n /\ N + count <= MaxNodes /\ (count = wanted => n + count = L)
  BY <1>1, <1>2, <1>3 DEF Lesser
<1> HIDE DEF count
<1>9. /\ data \in Seq(Byte \cup {Garbage})
      /\ data # << >> => Len(data) = PageSize /\ n + count = L /\ mem + count < MemPages
  <2> DEFINE fresh == [i \in 1 .. PageSize |-> Garbage]
  <2>1. /\ PageSize \in Nat /\ fresh \in [1 .. PageSize -> Byte \cup {Garbage}]
        /\ DOMAIN fresh = 1 .. PageSize
    BY SizesAssumption
  <2> HIDE DEF fresh
  <2>2. fresh \in Seq(Byte \cup {Garbage})
    BY <2>1, SeqDef
  <2>3. Len(fresh) = PageSize
    BY <2>1, <2>2, LenProperties
  <2>4. data = << >> \/ (data = fresh /\ count = wanted /\ mem + count < MemPages)
    BY DEF data, fresh
  <2>5. << >> \in Seq(Byte \cup {Garbage})
    BY EmptySeq
  <2> QED BY <1>8, <2>2, <2>3, <2>4, <2>5
<1>10. AllMade(m, p, n, count, type, data)
  <2> HIDE DEF N
  <2>1. N = Len(nodes) /\ N \in Nat
    BY <1>2 DEF N
  <2>2. leaf = [NewNode(p[Len(p)], type) EXCEPT !.buf = data]
    BY DEF leaf
  <2>3. count \in 1 .. Len(p) - n /\ n \in 0 .. Len(p) - 1
    BY <1>3, <1>8
  <2> HIDE DEF L
  <2> QED BY <1>9, <2>1, <2>2, <2>3, MadeIs DEF m
<1>11. os \in Seq(Node) /\ Len(os) = N /\ HasLinked(nodes, up, os, dir, N + 1)
  BY <1>2, <1>7, LinkedIs DEF os
<1>101. /\ m \in Seq(Node) /\ Len(m) = count
        /\ \A k \in 1 .. count :
             /\ MadeFor(m[k], p, type, data, n + k)
             /\ m[k].first = IF k < count THEN N + k + 1 ELSE 0
  BY <1>10 DEF AllMade
<1> HIDE DEF N, L
<1>12. /\ nodes' \in Seq(Node) /\ Len(nodes') = N + count
       /\ \A c \in 1 .. N : nodes'[c] = os[c]
       /\ \A k \in 1 .. count : nodes'[N + k] = m[k]
  <2>1. /\ os \o m \in Seq(Node) /\ Len(os \o m) = N + count
        /\ \A i \in 1 .. N + count : (os \o m)[i] = IF i <= N THEN os[i] ELSE m[i - N]
    BY <1>101, <1>11, ConcatProperties
  <2>2. \A c \in 1 .. N : c \in 1 .. N + count /\ c <= N
    BY <1>2, <1>8
  <2>3. \A k \in 1 .. count : N + k \in 1 .. N + count /\ ~ (N + k <= N) /\ (N + k) - N = k
    BY <1>2, <1>8
  <2> QED BY <1>1, <2>1, <2>2, <2>3
<1>13. HasLinked(nodes, up, nodes', dir, N + 1)
  BY <1>11, <1>12 DEF HasLinked, N
<1>14. \A k \in 1 .. count : MadeFor(nodes'[N + k], p, type, data, n + k)
  BY <1>101, <1>12
<1>15. \A c \in 2 .. N : up[c] = dir => nodes[c].name # p[n + 1]
  <2>1. CASE wanted = 1
    <3>1. n + 1 = L
      BY <1>2, <1>3, <2>1
    <3>2. ToSet(Entries(dir)) = {c \in 2 .. N : up[c] = dir}
      BY <1>7, EntriesAre DEF N
    <3> QED BY <1>1, <2>1, <3>1, <3>2
  <2>2. CASE wanted # 1
    <3>1. n + 1 \in n + 1 .. L - 1
      BY <1>2, <1>3, <2>2
    <3>2. Lookup(root, Prefix(p, n + 1)) = 0 /\ Prefix(p, n + 1) \in AllPaths
      <4>1. n + 1 \in 0 .. L
        BY <1>2, <1>3, <3>1
      <4> QED BY <1>3, <1>5, <3>1, <4>1
    <3>3. ASSUME NEW c \in 2 .. N, up[c] = dir, nodes[c].name = p[n + 1]
          PROVE  FALSE
      <4>1. at[c] = Sub(at[dir], p[n + 1])
        BY <3>3 DEF PathsAre, N
      <4>2. Cat(at[root], Sub(Prefix(p, n), p[n + 1])) = Sub(Cat(at[root], Prefix(p, n)), p[n + 1])
        <5>1. at[root] \in AllPaths
          BY DEF PathsAre
        <5> QED BY <1>6, <5>1, CatSub
      <4>3. at[c] = Cat(at[root], Prefix(p, n + 1))
        BY <1>5, <1>6, <1>7, <4>1, <4>2
      <4>4. c \in 1 .. N /\ c # 0
        BY <1>2, <3>3
      <4> QED BY <1>4, <3>2, <4>3, <4>4
    <3> QED BY <3>3
  <2> QED BY <2>1, <2>2
<1>16. Grown(nodes, up, nodes', dir, count)
  <2>1. ASSUME NEW k \in 1 .. count
        PROVE  /\ nodes'[N + k].name \in Name /\ nodes'[N + k].next = 0
               /\ k < count => nodes'[N + k].type = "DIR" /\ nodes'[N + k].first = N + k + 1
               /\ k = count => nodes'[N + k].first = 0
    <3>1. n + k \in 1 .. L /\ (k < count => n + k # L)
      BY <1>2, <1>3, <1>8
    <3>2. MadeFor(nodes'[N + k], p, type, data, n + k)
      BY <1>14
    <3>3. nodes'[N + k].first = IF k < count THEN N + k + 1 ELSE 0
      BY <1>101, <1>12
    <3>4. k = count => ~ (k < count)
      BY <1>2, <1>3, <1>8
    <3> QED BY <1>5, <3>1, <3>2, <3>3, <3>4 DEF MadeFor, L
  <2>2. \A c \in 2 .. N : up[c] = dir => nodes[c].name # nodes'[N + 1].name
    <3>1. 1 \in 1 .. count
      BY <1>2, <1>3, <1>8
    <3>2. nodes'[N + 1].name = p[n + 1]
      BY <1>14, <3>1 DEF MadeFor
    <3> QED BY <1>15, <3>2
  <2> QED BY <1>12, <1>13, <2>1, <2>2 DEF Grown, N
<1>17. Creation(up, at, root, p, type, n, dir, count, data)
  BY <1>1, <1>3, <1>7, <1>8, <1>9, <1>14, <1>16 DEF Creation, N, L
<1> QED BY <1>17

-----------------------------------------------------------------------------
(***************************************************************************)
(* The file system: memory.                                                *)
(***************************************************************************)
FilePages(ns, k) == Len(ns[k].buf) \div PageSize

\* f[k] is the number of pages the first k nodes have for data.
IsSum(f, ns) ==
  /\ f \in [0 .. Len(ns) -> Int] /\ f[0] = 0
  /\ \A k \in 1 .. Len(ns) : f[k] = f[k - 1] + FilePages(ns, k)

Accounts(ns, m) == \E f : IsSum(f, ns) /\ m = Len(ns) - 1 + f[Len(ns)]

LEMMA PagesType ==
  ASSUME NEW ns \in Seq(Node), NEW k \in 1 .. Len(ns)
  PROVE  Len(ns[k].buf) \in Nat /\ FilePages(ns, k) \in Int
<1>1. ns[k].buf \in Seq(Byte \cup {Garbage})
  <2>1. ns[k] \in Node
    BY ElementOfSeq
  <2> QED BY <2>1 DEF Node
<1>2. Len(ns[k].buf) \in Nat
  BY <1>1, LenProperties
<1> QED BY <1>2, SizesAssumption DEF FilePages

LEMMA AccountsIs ==
  ASSUME nodes \in Seq(Node), Accounts(nodes, mem)
  PROVE  MemoryAccounted
<1> DEFINE N == Len(nodes)
           P(k) == FilePages(nodes, k)
           Is(g) == g = [k \in 0 .. N |->
                           IF k = 0 THEN 0 ELSE g[k - 1] + Len(nodes[k].buf) \div PageSize]
           pages == CHOOSE g : Is(g)
<1>1. MemoryAccounted <=> mem = N - 1 + pages[N]
  BY DEF MemoryAccounted
<1>2. PICK f : IsSum(f, nodes) /\ mem = N - 1 + f[N]
  BY DEF Accounts
<1>3. N \in Nat
  BY LenProperties
<1>4. Is(f)
  <2>1. f \in [0 .. N -> Int] /\ f[0] = 0 /\ \A k \in 1 .. N : f[k] = f[k - 1] + P(k)
    BY <1>2 DEF IsSum
  <2> HIDE DEF N
  <2>2. \A k \in 0 .. N : f[k] = IF k = 0 THEN 0 ELSE f[k - 1] + P(k)
    <3>1. \A k \in 0 .. N : k # 0 => k \in 1 .. N
      BY <1>3
    <3> QED BY <2>1, <3>1
  <2> QED BY <2>1, <2>2 DEF FilePages
<1>5. Is(pages)
  <2> HIDE DEF Is
  <2> QED BY <1>4
<1> HIDE DEF pages
<1>6. pages[0] = 0 /\ \A k \in 1 .. N : pages[k] = pages[k - 1] + P(k)
  <2>1. 0 \in 0 .. N /\ \A k \in 1 .. N : k \in 0 .. N /\ k # 0
    BY <1>3
  <2> QED BY <1>5, <2>1 DEF FilePages
<1>7. f[0] = 0 /\ \A k \in 1 .. N : f[k] = f[k - 1] + P(k)
  BY <1>2 DEF IsSum
<1> HIDE DEF N, P
<1> DEFINE T == {k \in Nat : k <= N => pages[k] = f[k]}
<1>8. 0 \in T
  BY <1>6, <1>7
<1>9. ASSUME NEW k \in Nat, k \in T
      PROVE  k + 1 \in T
  <2>1. CASE k + 1 <= N
    <3>1. k + 1 \in 1 .. N /\ (k + 1) - 1 = k /\ k <= N
      BY <1>3, <2>1
    <3> QED BY <1>6, <1>7, <1>9, <3>1
  <2>2. CASE ~ (k + 1 <= N)
    BY <2>2
  <2> QED BY <2>1, <2>2
<1>10. Nat \subseteq T
  <2> HIDE DEF T
  <2> QED BY <1>8, <1>9, NatInduct
<1>11. pages[N] = f[N]
  BY <1>3, <1>10
<1> QED BY <1>1, <1>2, <1>11 DEF N

LEMMA PageIsOne ==
  PageSize \div PageSize = 1 /\ 0 \div PageSize = 0
  BY SizesAssumption

LEMMA DivGrows ==
  ASSUME NEW a \in Nat, NEW b \in Nat, a <= b
  PROVE  /\ a \div PageSize \in Nat /\ b \div PageSize \in Nat
         /\ a \div PageSize <= b \div PageSize
  BY SizesAssumption

\* The buffer that a file gets holds what is needed, and is not a smaller one.
LEMMA CapacityIs ==
  ASSUME NEW old \in Nat \ {0}, NEW need \in Nat
  PROVE  Capacity(old, need) \in Nat /\ Capacity(old, need) >= need /\ Capacity(old, need) >= old
<1>1. CASE need <= old
  BY <1>1 DEF Capacity
<1>2. CASE ~ (need <= old)
  <2> DEFINE Fits(k) == old * 2^k >= need
             S == {k \in 1 .. need : Fits(k)}
  <2>1. \A k \in Nat : 2^k \in Nat \ {0}
    BY PowerType
  <2>2. \A k \in Nat : 2^k > k
    <3> DEFINE T == {k \in Nat : 2^k > k}
    <3>1. 0 \in T
      BY PowerType
    <3>2. ASSUME NEW k \in Nat, k \in T
          PROVE  k + 1 \in T
      <4>1. 2^(k + 1) = 2^k + 2^k /\ 2^k \in Nat \ {0}
        BY <2>1, PowerNext
      <4>2. 2^k > k
        BY <3>2
      <4>3. PICK a \in Nat, b \in Nat : a = 2^k /\ b = 2^(k + 1)
        BY <2>1
      <4>4. b > k + 1
        BY <4>1, <4>2, <4>3
      <4> QED BY <4>3, <4>4
    <3> HIDE DEF T
    <3>3. Nat \subseteq T
      BY <3>1, <3>2, NatInduct
    <3> QED BY <3>3 DEF T
  <2>3. \A k \in Nat : old * 2^k \in Nat /\ old * 2^k >= 2^k /\ old * 2^k >= old
    <3>1. ASSUME NEW k \in Nat
          PROVE  old * 2^k \in Nat /\ old * 2^k >= 2^k /\ old * 2^k >= old
      <4>1. PICK a \in Nat \ {0} : a = 2^k
        BY <2>1
      <4>2. old * a \in Nat /\ old * a >= a /\ old * a >= old
        OBVIOUS
      <4> QED BY <4>1, <4>2
    <3> QED BY <3>1
  <2>4. need \in S
    <3>1. 2^need \in Nat /\ 2^need > need /\ old * 2^need >= 2^need /\ old * 2^need \in Nat
      BY <2>1, <2>2, <2>3
    <3>2. need \in 1 .. need
      BY <1>2
    <3> HIDE DEF S
    <3>3. Fits(need)
      BY <3>1
    <3> QED BY <3>2, <3>3 DEF S
  <2> HIDE DEF Fits
  <2>41. S \in SUBSET Nat /\ S # {}
    BY <2>4
  <2>5. PICK k \in S : \A j \in S : k <= j
    <3> HIDE DEF S
    <3> QED BY <2>41, LeastExists
  <2>6. \A j \in 1 .. k - 1 : ~ Fits(j)
    BY <1>2, <2>5
  <2> DEFINE c == CHOOSE i \in 1 .. need : Fits(i) /\ \A j \in 1 .. i - 1 : ~ Fits(j)
  <2>7. c \in 1 .. need /\ Fits(c)
    BY <2>5, <2>6
  <2>8. Capacity(old, need) = old * 2^c
    BY <1>2 DEF Capacity, Fits
  <2> HIDE DEF c
  <2>9. old * 2^c >= need /\ c \in Nat
    BY <2>7 DEF Fits
  <2> QED BY <2>3, <2>8, <2>9
<1> QED BY <1>1, <1>2

-----------------------------------------------------------------------------
(***************************************************************************)
(* The file system: writing.                                               *)
(***************************************************************************)
\* os differs from ns in what the nodes hold only.
SameLinks(ns, os) ==
  /\ os \in Seq(Node) /\ Len(os) = Len(ns)
  /\ \A c \in 1 .. Len(ns) :
       /\ os[c].name = ns[c].name /\ os[c].type = ns[c].type
       /\ os[c].first = ns[c].first /\ os[c].next = ns[c].next

LEMMA ShapeKept ==
  ASSUME NEW ns, NEW up, Shape(ns, up), NEW os, SameLinks(ns, os)
  PROVE  Shape(os, up) /\ \A at : PathsAre(ns, up, at) => PathsAre(os, up, at)
<1> DEFINE N == Len(ns)
<1>1. /\ N \in Nat /\ N >= 1
      /\ up \in [1 .. N -> 0 .. N]
      /\ \A n \in 2 .. N : ns[n].name \in Name /\ up[n] \in 1 .. n - 1 /\ ns[up[n]].type = "DIR"
      /\ \A m, n \in 2 .. N : up[m] = up[n] /\ ns[m].name = ns[n].name => m = n
      /\ \A d \in 1 .. N : ns[d].first # 0 => ns[d].first \in 2 .. N /\ up[ns[d].first] = d
      /\ \A c \in 1 .. N : ns[c].next # 0 =>
           c # 1 /\ ns[c].next \in c + 1 .. N /\ up[ns[c].next] = up[c]
      /\ \A n \in 2 .. N : ns[up[n]].first \in 1 .. n
      /\ \A c, n \in 2 .. N : up[c] = up[n] /\ c < n => ns[c].next \in 1 .. n
  <2>1. N \in Nat /\ N >= 1
    BY LinksAre
  <2> QED BY <2>1 DEF Shape
<1>2. /\ os \in Seq(Node) /\ Len(os) = N
      /\ \A c \in 1 .. N :
           /\ os[c].name = ns[c].name /\ os[c].type = ns[c].type
           /\ os[c].first = ns[c].first /\ os[c].next = ns[c].next
  BY DEF SameLinks
<1> HIDE DEF N
<1>3. \A n \in 2 .. N : n \in 1 .. N /\ up[n] \in 1 .. N
  <2>1. \A n \in 2 .. N : up[n] \in 1 .. n - 1
    BY <1>1
  <2> QED BY <1>1, <2>1
<1>4. \A n \in 2 .. N : os[n].name \in Name /\ os[up[n]].type = "DIR" /\ os[up[n]].first \in 1 .. n
  BY <1>1, <1>2, <1>3
<1>5. \A m, n \in 2 .. N : up[m] = up[n] /\ os[m].name = os[n].name => m = n
  BY <1>1, <1>2, <1>3
<1>6. \A c, n \in 2 .. N : up[c] = up[n] /\ c < n => os[c].next \in 1 .. n
  BY <1>1, <1>2, <1>3
<1>7. ASSUME NEW c \in 1 .. N
      PROVE  /\ os[c].first # 0 => os[c].first \in 2 .. N /\ up[os[c].first] = c
             /\ os[c].next # 0 =>
                  c # 1 /\ os[c].next \in c + 1 .. N /\ up[os[c].next] = up[c]
  <2>1. os[c].first = ns[c].first /\ os[c].next = ns[c].next
    BY <1>2
  <2>2. /\ ns[c].first # 0 => ns[c].first \in 2 .. N /\ up[ns[c].first] = c
        /\ ns[c].next # 0 =>
             c # 1 /\ ns[c].next \in c + 1 .. N /\ up[ns[c].next] = up[c]
    BY <1>1
  <2> QED BY <2>1, <2>2
<1>8. Shape(os, up)
  <2>1. os \in Seq(Node) /\ Len(os) >= 1 /\ up \in [1 .. Len(os) -> 0 .. Len(os)]
    BY <1>1, <1>2
  <2>2. \A n \in 2 .. Len(os) :
          os[n].name \in Name /\ up[n] \in 1 .. n - 1 /\ os[up[n]].type = "DIR"
    BY <1>1, <1>2, <1>4
  <2>3. \A d \in 1 .. Len(os) :
          os[d].first # 0 => os[d].first \in 2 .. Len(os) /\ up[os[d].first] = d
    BY <1>2, <1>7
  <2>4. \A c \in 1 .. Len(os) : os[c].next # 0 =>
          c # 1 /\ os[c].next \in c + 1 .. Len(os) /\ up[os[c].next] = up[c]
    BY <1>2, <1>7
  <2>5. /\ \A n \in 2 .. Len(os) : os[up[n]].first \in 1 .. n
        /\ \A m, n \in 2 .. Len(os) : up[m] = up[n] /\ os[m].name = os[n].name => m = n
        /\ \A c, n \in 2 .. Len(os) : up[c] = up[n] /\ c < n => os[c].next \in 1 .. n
    BY <1>2, <1>4, <1>5, <1>6
  <2> QED BY <2>1, <2>2, <2>3, <2>4, <2>5, Zenon DEF Shape
<1>9. ASSUME NEW at, PathsAre(ns, up, at)
      PROVE  PathsAre(os, up, at)
  <2>1. /\ at \in [1 .. N -> AllPaths] /\ at[1] = Top
        /\ \A n \in 2 .. N : at[n] = Sub(at[up[n]], ns[n].name)
    BY <1>9 DEF PathsAre, N
  <2>2. \A n \in 2 .. N : at[n] = Sub(at[up[n]], os[n].name)
    BY <1>2, <1>3, <2>1
  <2> QED BY <1>2, <2>1, <2>2 DEF PathsAre
<1> QED BY <1>8, <1>9

\* A write to a file that has data, with a buffer of length cap afterwards.
Writing(n, bytes, off, cap) ==
  /\ nodes[n].type = "FILE" /\ Len(nodes[n].buf) \in Nat \ {0} /\ off <= nodes[n].len
  /\ cap \in Nat /\ cap >= off + Len(bytes) /\ cap >= Len(nodes[n].buf)
  /\ cap = Len(nodes[n].buf) \/ mem + cap \div PageSize <= MemPages
  /\ SameLinks(nodes, nodes')
  /\ \A c \in Ids : c # n => nodes'[c] = nodes[c]
  /\ nodes'[n].buf \in Seq(Byte \cup {Garbage}) /\ Len(nodes'[n].buf) = cap
  /\ nodes'[n].len = Greater(nodes[n].len, off + Len(bytes))
  /\ \A i \in 1 .. cap :
       IF i > off /\ i <= off + Len(bytes) THEN nodes'[n].buf[i] = bytes[i - off]
       ELSE i <= nodes[n].len => nodes'[n].buf[i] = nodes[n].buf[i]
  /\ mem' = mem - Len(nodes[n].buf) \div PageSize + cap \div PageSize
  /\ crashed' = crashed

LEMMA WriteIs ==
  ASSUME nodes \in Seq(Node), NEW n \in Ids, nodes[n].len \in 0 .. Len(nodes[n].buf),
         NEW bytes \in Seq(Byte), NEW off \in Nat, Write(n, bytes, off), ~ Crash
  PROVE  \E cap : Writing(n, bytes, off, cap)
<1> DEFINE old == Len(nodes[n].buf)
           len == nodes[n].len
           cap == Capacity(old, off + Len(bytes))
           B == [i \in 1 .. cap |-> IF i > off /\ i <= off + Len(bytes)
                                    THEN bytes[i - off] ELSE Enlarged(n, cap)[i]]
           o == [nodes[n] EXCEPT !.buf = B, !.len = Greater(len, off + Len(bytes))]
<1>1. /\ nodes[n].type = "FILE" /\ old # 0 /\ off <= len
      /\ cap = old \/ mem + cap \div PageSize <= MemPages
      /\ nodes' = [nodes EXCEPT ![n].buf = B, ![n].len = Greater(@, off + Len(bytes))]
      /\ mem' = PagesAfter(old, cap)
      /\ crashed' = crashed
  BY DEF Write
<1>2. nodes' = [nodes EXCEPT ![n] = o]
  <2> HIDE DEF B
  <2> QED BY <1>1
<1>3. nodes[n] \in Node
  BY ElementOfSeq DEF Ids
<1>4. /\ old \in Nat /\ len \in Nat /\ len <= old
      /\ \A i \in 1 .. old : nodes[n].buf[i] \in Byte \cup {Garbage}
      /\ nodes[n].buf \in Seq(Byte \cup {Garbage})
  <2>1. nodes[n].buf \in Seq(Byte \cup {Garbage})
    BY <1>3 DEF Node
  <2>2. old \in Nat /\ \A i \in 1 .. old : nodes[n].buf[i] \in Byte \cup {Garbage}
    BY <2>1, LenProperties, ElementOfSeq
  <2> QED BY <2>1, <2>2
<1>5. Len(bytes) \in Nat /\ \A i \in 1 .. Len(bytes) : bytes[i] \in Byte
  BY LenProperties, ElementOfSeq
<1>6. cap \in Nat /\ cap >= off + Len(bytes) /\ cap >= old
  <2>1. old \in Nat \ {0} /\ off + Len(bytes) \in Nat
    BY <1>1, <1>4, <1>5
  <2> HIDE DEF old
  <2> QED BY <2>1, CapacityIs
<1> HIDE DEF old, len, cap
<1>7. \A i \in 1 .. cap :
        Enlarged(n, cap)[i] = IF cap = old \/ i <= len THEN nodes[n].buf[i] ELSE Garbage
  BY DEF Enlarged, old, len
<1>8. \A i \in 1 .. cap :
        /\ B[i] \in Byte \cup {Garbage}
        /\ IF i > off /\ i <= off + Len(bytes) THEN B[i] = bytes[i - off]
           ELSE i <= len => B[i] = nodes[n].buf[i]
  <2>1. ASSUME NEW i \in 1 .. cap
        PROVE  /\ B[i] \in Byte \cup {Garbage}
               /\ IF i > off /\ i <= off + Len(bytes) THEN B[i] = bytes[i - off]
                  ELSE i <= len => B[i] = nodes[n].buf[i]
    <3>1. CASE i > off /\ i <= off + Len(bytes)
      <4>1. i - off \in 1 .. Len(bytes)
        BY <1>5, <1>6, <3>1
      <4> QED BY <1>5, <3>1, <4>1
    <3>2. CASE ~ (i > off /\ i <= off + Len(bytes))
      <4>1. B[i] = IF cap = old \/ i <= len THEN nodes[n].buf[i] ELSE Garbage
        BY <1>7, <3>2
      <4>2. cap = old \/ i <= len => i \in 1 .. old
        BY <1>4, <1>6
      <4> QED BY <1>4, <3>2, <4>1, <4>2
    <3> QED BY <3>1, <3>2
  <2> QED BY <2>1
<1>9. DOMAIN B = 1 .. cap /\ B \in [1 .. cap -> Byte \cup {Garbage}]
  BY <1>8
<1> HIDE DEF B
<1>10. B \in Seq(Byte \cup {Garbage}) /\ Len(B) = cap
  <2>1. B \in Seq(Byte \cup {Garbage})
    BY <1>6, <1>9, SeqDef
  <2>2. DOMAIN B = 1 .. Len(B) /\ Len(B) \in Nat
    BY <2>1, LenProperties
  <2>3. Len(B) = cap
    BY <1>6, <1>9, <2>2
  <2> QED BY <2>1, <2>3
<1>11. /\ o \in Node /\ o.name = nodes[n].name /\ o.type = nodes[n].type
       /\ o.first = nodes[n].first /\ o.next = nodes[n].next /\ o.buf = B
       /\ o.len = Greater(len, off + Len(bytes))
  <2>1. Greater(len, off + Len(bytes)) \in Nat
    BY <1>4, <1>5 DEF Greater
  <2> QED BY <1>3, <1>10, <2>1 DEF Node
<1> HIDE DEF o
<1>12. /\ nodes' \in Seq(Node) /\ Len(nodes') = Len(nodes)
       /\ \A c \in 1 .. Len(nodes) : nodes'[c] = IF c = n THEN o ELSE nodes[c]
  <2>1. n \in 1 .. Len(nodes)
    BY DEF Ids
  <2> QED BY <1>2, <1>11, <2>1, ExceptSeq
<1>13. SameLinks(nodes, nodes')
  BY <1>11, <1>12 DEF SameLinks
<1>14. nodes'[n] = o /\ \A c \in Ids : c # n => nodes'[c] = nodes[c]
  BY <1>12 DEF Ids
<1>15. Writing(n, bytes, off, cap)
  BY <1>1, <1>4, <1>6, <1>8, <1>10, <1>11, <1>13, <1>14 DEF Writing, PagesAfter, old, len
<1> QED BY <1>15

-----------------------------------------------------------------------------
(***************************************************************************)
(* The file system: nothing is lost.                                       *)
(***************************************************************************)
FsInv ==
  /\ \E up : Shape(nodes, up)
  /\ nodes[1].name = ""
  /\ \A n \in Ids : nodes[n].len \in 0 .. Len(nodes[n].buf)
  /\ Len(nodes) <= MaxNodes
  /\ Accounts(nodes, mem)
  /\ mem \in 0 .. MemPages
  /\ crashed \in BOOLEAN

LEMMA InTreePaths ==
  ASSUME NEW p \in AllPaths, Len(p) < MaxNodes
  PROVE  p \in TreePaths
<1>1. Len(p) \in Nat /\ p \in [1 .. Len(p) -> Name]
  BY LenProperties, ElementOfSeq, SeqDef DEF AllPaths
<1>2. Len(p) \in 0 .. MaxNodes - 1
  BY <1>1, SizesAssumption
<1> QED BY <1>1, <1>2 DEF TreePaths

LEMMA TreePathsAreSequences ==
  ASSUME NEW p \in TreePaths
  PROVE  p \in AllPaths
<1>1. PICK k \in 0 .. MaxNodes - 1 : p \in [1 .. k -> Name]
  BY DEF TreePaths
<1>2. k \in Nat
  BY SizesAssumption
<1> QED BY <1>1, <1>2, SeqDef DEF AllPaths

LEMMA FsInvFinds ==
  ASSUME FsInv
  PROVE  EveryNodeFound
<1>1. PICK up : Shape(nodes, up)
  BY DEF FsInv
<1>2. PICK at : PathsAre(nodes, up, at)
  BY <1>1, PathsExist
<1>3. ASSUME NEW n \in Ids
      PROVE  Cardinality({p \in TreePaths : Lookup(Root, p) = n}) = 1
  <2>1. Root \in 1 .. Len(nodes) /\ n \in 1 .. Len(nodes) /\ Len(nodes) \in Nat
    BY <1>1, LinksAre DEF Root, Ids
  <2>2. at[n] \in AllPaths /\ at[Root] = Top
    BY <1>2, <2>1 DEF PathsAre, Root
  <2>3. ASSUME NEW p \in AllPaths
        PROVE  Lookup(Root, p) = n <=> p = at[n]
    <3>1. Lookup(Root, p) = n <=> at[n] = Cat(at[Root], p)
      BY <1>1, <1>2, <2>1, LookupIs
    <3>2. Cat(Top, p) = p
      BY TopIs, CatIs
    <3> QED BY <2>2, <3>1, <3>2
  <2>4. at[n] \in TreePaths
    <3>1. Len(at[n]) < n /\ Len(at[n]) \in Nat
      BY <1>1, <1>2, <2>1, <2>2, PathsDiffer, LenProperties DEF AllPaths
    <3>2. Len(nodes) <= MaxNodes /\ MaxNodes \in Nat
      BY SizesAssumption DEF FsInv
    <3>3. Len(at[n]) < MaxNodes
      BY <2>1, <3>1, <3>2
    <3> QED BY <2>2, <3>3, InTreePaths
  <2>5. {p \in TreePaths : Lookup(Root, p) = n} = {at[n]}
    BY <2>3, <2>4, TreePathsAreSequences
  <2> QED BY <2>5, FS_Singleton
<1> QED BY <1>3 DEF EveryNodeFound

LEMMA FsInvTypes ==
  ASSUME FsInv
  PROVE  FsTypeOK
<1>1. PICK up : Shape(nodes, up)
  BY DEF FsInv
<1>2. /\ Len(nodes) \in Nat
      /\ \A n \in Ids : /\ nodes[n] \in Node
                        /\ nodes[n].first \in 0 .. Len(nodes)
                        /\ nodes[n].next \in 0 .. Len(nodes)
  BY <1>1, LinksAre DEF Ids
<1>3. \A n \in Ids : nodes[n].name \in (IF n = Root THEN {""} ELSE Name)
  <2>1. \A n \in Ids : n # Root => n \in 2 .. Len(nodes)
    BY <1>2 DEF Ids, Root
  <2>2. \A n \in 2 .. Len(nodes) : nodes[n].name \in Name
    BY <1>1 DEF Shape
  <2> QED BY <2>1, <2>2 DEF FsInv, Root
<1>4. \A n \in Ids : nodes[n].type \in {"DIR", "FILE"} /\ nodes[n].buf \in Seq(Byte \cup {Garbage})
  BY <1>2 DEF Node
<1> QED BY <1>2, <1>3, <1>4 DEF FsInv, FsTypeOK

LEMMA FsInvImplies == FsInv => NothingLost
<1>1. ASSUME FsInv
      PROVE  NothingLost
  <2>1. nodes \in Seq(Node) /\ Accounts(nodes, mem)
    BY <1>1 DEF FsInv, Shape
  <2> QED BY <1>1, <2>1, FsInvFinds, FsInvTypes, AccountsIs DEF NothingLost
<1> QED BY <1>1

LEMMA FsInitInv == FsInit => FsInv
<1>1. ASSUME FsInit
      PROVE  FsInv
  <2> DEFINE r == NewNode("", "DIR")
             up == [c \in 1 .. 1 |-> 0]
             f == [k \in 0 .. 1 |-> 0]
  <2>1. nodes = << r >> /\ mem = 0 /\ crashed = FALSE
    BY <1>1 DEF FsInit
  <2>2. /\ r \in Node /\ r.name = "" /\ r.first = 0 /\ r.next = 0 /\ r.len = 0
        /\ r.buf = << >>
    BY EmptySeq DEF NewNode, Node
  <2>3. Len(<< >>) = 0
    OBVIOUS
  <2> HIDE DEF r
  <2>4. nodes \in Seq(Node) /\ Len(nodes) = 1 /\ nodes[1] = r
    <3>1. PICK s \in Seq(Node) : s = << r >>
      <4>1. PICK x \in Node : x = r
        BY <2>2
      <4>2. << x >> \in Seq(Node)
        OBVIOUS
      <4> QED BY <4>1, <4>2
    <3>2. Len(<< r >>) = 1 /\ << r >>[1] = r
      OBVIOUS
    <3> QED BY <2>1, <3>1, <3>2
  <2>5. Shape(nodes, up)
    <3>1. 2 .. 1 = {} /\ \A c \in 1 .. 1 : c = 1
      OBVIOUS
    <3>2. up \in [1 .. 1 -> 0 .. 1]
      OBVIOUS
    <3> HIDE DEF up
    <3>3. nodes[1].first = 0 /\ nodes[1].next = 0
      BY <2>2, <2>4
    <3> QED BY <2>4, <3>1, <3>2, <3>3 DEF Shape
  <2>6. IsSum(f, nodes)
    <3>1. FilePages(nodes, 1) = 0
      BY <2>2, <2>3, <2>4, PageIsOne DEF FilePages
    <3>2. f \in [0 .. 1 -> Int] /\ f[0] = 0 /\ f[1] = 0 /\ \A k \in 1 .. 1 : k = 1
      OBVIOUS
    <3> HIDE DEF f
    <3> QED BY <2>4, <3>1, <3>2 DEF IsSum
  <2>7. Accounts(nodes, mem)
    BY <2>1, <2>4, <2>6 DEF Accounts
  <2>8. \A n \in Ids : nodes[n].len \in 0 .. Len(nodes[n].buf)
    <3>1. \A n \in Ids : n = 1
      BY <2>4 DEF Ids
    <3>2. nodes[1].len = 0 /\ nodes[1].buf = << >> /\ Len(nodes[1].buf) = 0
      BY <2>2, <2>3, <2>4
    <3>3. 0 \in 0 .. 0
      OBVIOUS
    <3> QED BY <3>1, <3>2, <3>3
  <2>9. \E u : Shape(nodes, u)
    BY <2>5
  <2> HIDE DEF up, f
  <2>10. nodes[1].name = ""
    BY <2>2, <2>4
  <2>11. Len(nodes) <= MaxNodes /\ mem \in 0 .. MemPages /\ crashed \in BOOLEAN
    <3>1. 1 <= MaxNodes /\ 0 \in 0 .. MemPages /\ FALSE \in BOOLEAN
      BY SizesAssumption
    <3> QED BY <2>1, <2>4, <3>1
  <2> QED BY <2>7, <2>8, <2>9, <2>10, <2>11 DEF FsInv
<1> QED BY <1>1

LEMMA CreationInv ==
  ASSUME FsInv, NEW up, Shape(nodes, up), NEW at, NEW root, NEW p \in AllPaths, NEW type,
         NEW n, NEW dir, NEW count, NEW data,
         Creation(up, at, root, p, type, n, dir, count, data)
  PROVE  FsInv'
<1> DEFINE N == Len(nodes)
           extra == IF data = << >> THEN 0 ELSE 1
<1>1. /\ n \in 0 .. Len(p) - 1 /\ dir \in 1 .. N /\ count \in 1 .. Len(p) - n
      /\ nodes[dir].type = "DIR"
      /\ N + count <= MaxNodes
      /\ Grown(nodes, up, nodes', dir, count)
      /\ \A k \in 1 .. count : MadeFor(nodes'[N + k], p, type, data, n + k)
      /\ data # << >> => Len(data) = PageSize /\ n + count = Len(p) /\ mem + count < MemPages
      /\ mem + count <= MemPages
      /\ mem' = mem + count + extra
      /\ crashed' = crashed
  BY DEF Creation
<1>2. N \in Nat /\ N >= 1 /\ Len(p) \in Nat /\ count \in Nat \ {0}
  BY <1>1, LinksAre, LenProperties DEF AllPaths
<1>3. /\ nodes' \in Seq(Node) /\ Len(nodes') = N + count
      /\ HasLinked(nodes, up, nodes', dir, N + 1)
  BY <1>1 DEF Grown
<1>4. \E vp : Shape(nodes', vp)
  BY <1>1, <1>2, ShapeGrown
<1> HIDE DEF N
<1>5. \A c \in 1 .. N :
        nodes'[c].name = nodes[c].name /\ nodes'[c].buf = nodes[c].buf /\ nodes'[c].len = nodes[c].len
  BY <1>3 DEF HasLinked, N
<1>6. \A c \in 1 .. N + count : c \notin 1 .. N => c - N \in 1 .. count /\ N + (c - N) = c
  BY <1>2
<1>7. nodes'[1].name = ""
  <2>1. 1 \in 1 .. N
    BY <1>2
  <2> QED BY <1>5, <2>1 DEF FsInv
<1>8. \A c \in 1 .. N + count : nodes'[c].len \in 0 .. Len(nodes'[c].buf)
  <2>1. ASSUME NEW c \in 1 .. N
        PROVE  nodes'[c].len \in 0 .. Len(nodes'[c].buf)
    <3>1. nodes[c].len \in 0 .. Len(nodes[c].buf)
      BY DEF FsInv, Ids, N
    <3> QED BY <1>5, <3>1
  <2>2. ASSUME NEW k \in 1 .. count
        PROVE  nodes'[N + k].len \in 0 .. Len(nodes'[N + k].buf)
    <3>1. nodes'[N + k].len = 0 /\ nodes'[N + k] \in Node
      BY <1>1 DEF MadeFor
    <3>2. nodes'[N + k].buf \in Seq(Byte \cup {Garbage})
      BY <3>1 DEF Node
    <3>3. Len(nodes'[N + k].buf) \in Nat
      BY <3>2, LenProperties
    <3> QED BY <3>1, <3>3
  <2> QED BY <1>6, <2>1, <2>2
<1>9. Accounts(nodes', mem')
  <2>1. PICK f : IsSum(f, nodes) /\ mem = N - 1 + f[N]
    BY DEF FsInv, Accounts, N
  <2>2. /\ f \in [0 .. N -> Int] /\ f[0] = 0
        /\ \A k \in 1 .. N : f[k] = f[k - 1] + FilePages(nodes, k)
    BY <2>1 DEF IsSum, N
  <2>3. \A c \in 1 .. N : FilePages(nodes', c) = FilePages(nodes, c)
    BY <1>5 DEF FilePages
  <2>4. \A c \in N + 1 .. N + count : FilePages(nodes', c) = IF c = N + count THEN extra ELSE 0
    <3>1. ASSUME NEW c \in N + 1 .. N + count
          PROVE  FilePages(nodes', c) = IF c = N + count THEN extra ELSE 0
      <4>1. PICK k \in 1 .. count : c = N + k
        BY <1>2, <1>6
      <4>2. nodes'[c].buf = IF n + k = Len(p) THEN data ELSE << >>
        BY <1>1, <4>1 DEF MadeFor
      <4>3. n + k = Len(p) => k = count
        BY <1>1, <1>2
      <4>4. Len(<< >>) = 0
        OBVIOUS
      <4>5. CASE data = << >>
        BY <4>2, <4>4, <4>5, PageIsOne DEF FilePages
      <4>6. CASE data # << >>
        <5>1. n + k = Len(p) <=> c = N + count
          BY <1>1, <1>2, <4>1, <4>3, <4>6
        <5>2. Len(data) = PageSize
          BY <1>1, <4>6
        <5> QED BY <4>2, <4>4, <4>6, <5>1, <5>2, PageIsOne DEF FilePages
      <4> QED BY <4>5, <4>6
    <3> QED BY <3>1
  <2> HIDE DEF extra
  <2> DEFINE g == [c \in 0 .. N + count |->
                     IF c <= N THEN f[c] ELSE IF c = N + count THEN f[N] + extra ELSE f[N]]
  <2>5. f[N] \in Int /\ extra \in Int /\ \A c \in 0 .. N : f[c] \in Int
    BY <1>2, <2>2 DEF extra
  <2>6. /\ \A c \in 0 .. N : g[c] = f[c]
        /\ \A c \in N + 1 .. N + count : g[c] = IF c = N + count THEN f[N] + extra ELSE f[N]
    BY <1>2
  <2>7. g \in [0 .. N + count -> Int]
    <3>1. \A c \in 0 .. N + count : c <= N => c \in 0 .. N
      BY <1>2
    <3> QED BY <2>5, <3>1
  <2> HIDE DEF g
  <2>8. ASSUME NEW c \in 1 .. N + count
        PROVE  g[c] = g[c - 1] + FilePages(nodes', c)
    <3>1. CASE c \in 1 .. N
      <4>1. c \in 0 .. N /\ c - 1 \in 0 .. N
        BY <1>2, <3>1
      <4> QED BY <2>2, <2>3, <2>6, <3>1, <4>1
    <3>2. CASE c \notin 1 .. N
      <4>1. c \in N + 1 .. N + count
        BY <1>2, <3>2
      <4>2. g[c - 1] = f[N]
        <5>1. c = N + 1 => c - 1 = N /\ N \in 0 .. N
          BY <1>2
        <5>2. c # N + 1 => c - 1 \in N + 1 .. N + count /\ c - 1 # N + count
          BY <1>2, <4>1
        <5> QED BY <2>6, <5>1, <5>2
      <4>3. g[c] = IF c = N + count THEN f[N] + extra ELSE f[N]
        BY <2>6, <4>1
      <4>4. FilePages(nodes', c) = IF c = N + count THEN extra ELSE 0
        BY <2>4, <4>1
      <4> QED BY <2>5, <4>2, <4>3, <4>4
    <3> QED BY <3>1, <3>2
  <2>9. g[0] = 0 /\ g[N + count] = f[N] + extra
    <3>1. 0 \in 0 .. N /\ N + count \in N + 1 .. N + count
      BY <1>2
    <3> QED BY <2>2, <2>6, <3>1
  <2>10. IsSum(g, nodes')
    BY <1>3, <2>7, <2>8, <2>9 DEF IsSum
  <2>11. mem' = Len(nodes') - 1 + g[Len(nodes')]
    <3>1. mem' = mem + count + extra /\ mem = N - 1 + f[N]
      BY <1>1, <2>1 DEF extra
    <3>2. Len(nodes') = N + count /\ g[N + count] = f[N] + extra
      BY <1>3, <2>9
    <3> QED BY <1>2, <2>5, <3>1, <3>2
  <2> QED BY <2>10, <2>11 DEF Accounts
<1>10. mem' \in 0 .. MemPages
  <2>1. mem \in 0 .. MemPages /\ MemPages \in Nat
    BY SizesAssumption DEF FsInv
  <2> QED BY <1>1, <1>2, <2>1
<1>11. crashed' \in BOOLEAN
  BY <1>1 DEF FsInv
<1> QED BY <1>1, <1>3, <1>4, <1>7, <1>8, <1>9, <1>10, <1>11 DEF FsInv, Ids

LEMMA WritingInv ==
  ASSUME FsInv, NEW n \in Ids, NEW bytes, Len(bytes) \in Nat, NEW off \in Nat, NEW cap,
         Writing(n, bytes, off, cap)
  PROVE  FsInv'
<1> DEFINE N == Len(nodes)
           old == Len(nodes[n].buf) \div PageSize
           new == cap \div PageSize
<1>1. PICK up : Shape(nodes, up)
  BY DEF FsInv
<1>2. /\ SameLinks(nodes, nodes')
      /\ \A c \in 1 .. N : c # n => nodes'[c] = nodes[c]
      /\ Len(nodes'[n].buf) = cap /\ cap \in Nat /\ cap >= off + Len(bytes)
      /\ cap >= Len(nodes[n].buf) /\ Len(nodes[n].buf) \in Nat
      /\ nodes'[n].len = Greater(nodes[n].len, off + Len(bytes))
      /\ cap = Len(nodes[n].buf) \/ mem + new <= MemPages
      /\ mem' = mem - old + new
      /\ crashed' = crashed
  BY DEF Writing, Ids
<1>3. N \in Nat /\ n \in 1 .. N /\ N >= 1
  BY <1>1, LinksAre DEF Ids
<1>4. /\ nodes' \in Seq(Node) /\ Len(nodes') = N
      /\ \A c \in 1 .. N : nodes'[c].name = nodes[c].name
  BY <1>2 DEF SameLinks
<1>5. \E vp : Shape(nodes', vp)
  BY <1>1, <1>2, ShapeKept
<1> HIDE DEF N
<1>6. nodes'[1].name = ""
  <2>1. 1 \in 1 .. N
    BY <1>3
  <2> QED BY <1>4, <2>1 DEF FsInv
<1>7. \A c \in 1 .. N : nodes'[c].len \in 0 .. Len(nodes'[c].buf)
  <2>1. \A c \in 1 .. N : nodes[c].len \in 0 .. Len(nodes[c].buf)
    BY DEF FsInv, Ids, N
  <2>2. nodes'[n].len \in 0 .. Len(nodes'[n].buf)
    <3>1. nodes[n].len \in 0 .. Len(nodes[n].buf)
      BY <1>3, <2>1
    <3> QED BY <1>2, <3>1 DEF Greater
  <2>3. \A c \in 1 .. N : c # n => nodes'[c] = nodes[c]
    BY <1>2
  <2> QED BY <2>1, <2>2, <2>3
<1>8. old \in Nat /\ new \in Nat /\ old <= new
  BY <1>2, DivGrows
<1>9. Accounts(nodes', mem')
  <2>1. PICK f : IsSum(f, nodes) /\ mem = N - 1 + f[N]
    BY DEF FsInv, Accounts, N
  <2>2. /\ f \in [0 .. N -> Int] /\ f[0] = 0
        /\ \A k \in 1 .. N : f[k] = f[k - 1] + FilePages(nodes, k)
    BY <2>1 DEF IsSum, N
  <2>3. /\ \A c \in 1 .. N : c # n => FilePages(nodes', c) = FilePages(nodes, c)
        /\ FilePages(nodes', n) = new /\ FilePages(nodes, n) = old
    BY <1>2 DEF FilePages
  <2> HIDE DEF old, new
  <2> DEFINE g == [c \in 0 .. N |-> IF c < n THEN f[c] ELSE f[c] - old + new]
  <2>4. \A c \in 0 .. N : f[c] \in Int /\ g[c] = IF c < n THEN f[c] ELSE f[c] - old + new
    BY <2>2
  <2>5. g \in [0 .. N -> Int]
    BY <1>8, <2>2
  <2> HIDE DEF g
  <2>6. ASSUME NEW c \in 1 .. N
        PROVE  g[c] = g[c - 1] + FilePages(nodes', c)
    <3>1. c \in 0 .. N /\ c - 1 \in 0 .. N
      BY <1>3
    <3>2. /\ f[c] = f[c - 1] + FilePages(nodes, c) /\ f[c - 1] \in Int /\ f[c] \in Int
          /\ g[c] = (IF c < n THEN f[c] ELSE f[c] - old + new)
          /\ g[c - 1] = IF c - 1 < n THEN f[c - 1] ELSE f[c - 1] - old + new
      BY <2>2, <2>4, <3>1
    <3>3. FilePages(nodes, c) \in Int
      <4>1. nodes \in Seq(Node)
        BY <1>1 DEF Shape
      <4> QED BY <4>1, PagesType DEF N
    <3>4. CASE c < n
      <4>1. c - 1 < n /\ c # n
        BY <1>3, <3>4
      <4> QED BY <2>3, <3>2, <3>4, <4>1
    <3>5. CASE c = n
      <4>1. c - 1 < n /\ ~ (c < n)
        BY <1>3, <3>5
      <4> QED BY <1>8, <2>3, <3>2, <3>5, <4>1
    <3>6. CASE c > n
      <4>1. ~ (c - 1 < n) /\ ~ (c < n) /\ c # n
        BY <1>3, <3>6
      <4> QED BY <1>8, <2>3, <3>2, <3>3, <4>1
    <3> QED BY <1>3, <3>4, <3>5, <3>6
  <2>7. g[0] = 0 /\ g[N] = f[N] - old + new
    <3>1. 0 \in 0 .. N /\ N \in 0 .. N /\ 0 < n /\ ~ (N < n)
      BY <1>3
    <3> QED BY <2>2, <2>4, <3>1
  <2>8. IsSum(g, nodes')
    BY <1>4, <2>5, <2>6, <2>7 DEF IsSum
  <2>9. mem' = Len(nodes') - 1 + g[Len(nodes')]
    <3>1. f[N] \in Int /\ mem' = mem - old + new
      BY <1>2, <1>3, <2>4 DEF old, new
    <3> QED BY <1>3, <1>4, <1>8, <2>1, <2>7, <3>1
  <2> QED BY <2>8, <2>9 DEF Accounts
<1>10. mem' \in 0 .. MemPages
  <2>1. mem \in 0 .. MemPages /\ MemPages \in Nat
    BY SizesAssumption DEF FsInv
  <2>2. mem' = mem - old + new /\ (old = new \/ mem + new <= MemPages)
    BY <1>2
  <2> HIDE DEF old, new
  <2> QED BY <1>8, <2>1, <2>2
<1>11. crashed' \in BOOLEAN
  BY <1>2 DEF FsInv
<1> QED BY <1>4, <1>5, <1>6, <1>7, <1>9, <1>10, <1>11 DEF FsInv, Ids, N

LEMMA ChunksAreSequences ==
  ASSUME NEW bytes \in Chunks
  PROVE  bytes \in Seq(Byte) /\ Len(bytes) \in Nat
<1>1. PICK k \in 0 .. MaxChunk : bytes \in [1 .. k -> Byte]
  BY DEF Chunks
<1>2. k \in Nat
  BY SizesAssumption
<1>3. bytes \in Seq(Byte)
  BY <1>1, <1>2, SeqDef
<1> QED BY <1>3, LenProperties

\* A step of Create or Write either crashes or makes nodes or writes.
LEMMA CreateMakes ==
  ASSUME FsInv, NEW up, Shape(nodes, up), NEW at, PathsAre(nodes, up, at),
         NEW root \in Ids, NEW p \in Paths, NEW type \in {"DIR", "FILE"}, NEW rec,
         Create(root, p, type, rec), ~ Crash
  PROVE  \E n, dir, count, data : Creation(up, at, root, p, type, n, dir, count, data)
<1>1. Len(nodes) <= MaxNodes /\ root \in 1 .. Len(nodes)
  BY DEF FsInv, Ids
<1>2. p \in AllPaths /\ Len(p) \in Nat \ {0}
  BY PathsAreSequences
<1> QED BY <1>1, <1>2, CreateIs

LEMMA WriteWrites ==
  ASSUME FsInv, NEW n \in Ids, NEW bytes \in Chunks, NEW off \in 0 .. MaxFile,
         Write(n, bytes, off), ~ Crash
  PROVE  \E cap : Writing(n, bytes, off, cap)
<1>1. nodes \in Seq(Node) /\ nodes[n].len \in 0 .. Len(nodes[n].buf)
  BY DEF FsInv, Shape
<1>2. bytes \in Seq(Byte) /\ off \in Nat
  BY ChunksAreSequences, SizesAssumption
<1> QED BY <1>1, <1>2, WriteIs

LEMMA FsNextInv == FsInv /\ [FsNext]_fsVars => FsInv'
<1> SUFFICES ASSUME FsInv, [FsNext]_fsVars
             PROVE  FsInv'
  OBVIOUS
<1>1. PICK up : Shape(nodes, up)
  BY DEF FsInv
<1>2. PICK at : PathsAre(nodes, up, at)
  BY <1>1, PathsExist
<1>3. CASE Crash
  BY <1>3 DEF FsInv, Crash, Ids
<1>4. CASE Halted \/ UNCHANGED fsVars
  BY <1>4 DEF FsInv, Halted, fsVars, Ids
<1>5. ASSUME NEW root \in Ids, NEW p \in Paths, NEW type \in {"DIR", "FILE"}, NEW rec \in BOOLEAN,
             Create(root, p, type, rec), ~ Crash
      PROVE  FsInv'
  <2>1. PICK n, dir, count, data : Creation(up, at, root, p, type, n, dir, count, data)
    BY <1>1, <1>2, <1>5, CreateMakes
  <2>2. p \in AllPaths
    BY PathsAreSequences
  <2> QED BY <1>1, <2>1, <2>2, CreationInv
<1>6. ASSUME NEW n \in Ids, NEW bytes \in Chunks, NEW off \in 0 .. MaxFile,
             Write(n, bytes, off), ~ Crash
      PROVE  FsInv'
  <2>1. PICK cap : Writing(n, bytes, off, cap)
    BY <1>6, WriteWrites
  <2>2. Len(bytes) \in Nat /\ off \in Nat
    BY ChunksAreSequences, SizesAssumption
  <2> QED BY <2>1, <2>2, WritingInv
<1> QED BY <1>3, <1>4, <1>5, <1>6 DEF FsNext

LEMMA FsInvariant == FsSpec => []FsInv
  BY FsInitInv, FsNextInv, PTL DEF FsSpec

\* No sequence of calls of the file system, failing ones included, loses a node
\* or a page of memory: every node is found under exactly one path, and the
\* memory in use is that of the names and of the files' data.
THEOREM NothingEverLost == FsSpec => []NothingLost
<1>1. FsInv => NothingLost
  BY FsInvImplies
<1> QED BY <1>1, FsInvariant, PTL

-----------------------------------------------------------------------------
(***************************************************************************)
(* The file system implements the tree of FileStore.                       *)
(***************************************************************************)
LEMMA PrefixSub ==
  ASSUME NEW s \in AllPaths, NEW e \in Name
  PROVE  \A j \in 0 .. Len(s) : Prefix(Sub(s, e), j) = Prefix(s, j)
<1>1. ASSUME NEW j \in 1 .. Len(s)
      PROVE  SubSeq(Append(s, e), 1, j) = SubSeq(s, 1, j)
  <2>1. PICK u \in Seq(Name) : u = << e >>
    BY Single DEF AllPaths
  <2>2. Append(s, e) = s \o u
    BY <2>1, AppendIsConcat DEF AllPaths
  <2>3. 1 \in 1 .. Len(s)
    OBVIOUS
  <2>4. SubSeq(s \o u, 1, j) = SubSeq(s, 1, j)
    BY <2>1, <2>3, SubSeqOfConcat1 DEF AllPaths
  <2> QED BY <2>2, <2>4
<1>2. Prefix(Sub(s, e), 0) = Prefix(s, 0)
  BY SubIs, PrefixIs
<1>3. Len(s) \in Nat
  BY SubIs
<1>4. \A j \in 0 .. Len(s) : j # 0 => j \in 1 .. Len(s)
  BY <1>3
<1> QED BY <1>1, <1>2, <1>4 DEF Prefix, Sub

\* Every prefix of the path of a node is the path of a node.
LEMMA PrefixesExist ==
  ASSUME NEW ns, NEW up, Shape(ns, up), NEW at, PathsAre(ns, up, at)
  PROVE  \A c \in 1 .. Len(ns) : \A j \in 0 .. Len(at[c]) :
           \E m \in 1 .. Len(ns) : at[m] = Prefix(at[c], j)
<1> DEFINE N == Len(ns)
           Good(c) == \A j \in 0 .. Len(at[c]) : \E m \in 1 .. N : at[m] = Prefix(at[c], j)
           Bad == {c \in 1 .. N : ~ Good(c)}
<1>1. /\ N \in Nat /\ N >= 1
      /\ \A c \in 2 .. N : ns[c].name \in Name /\ up[c] \in 1 .. c - 1
  <2>1. N \in Nat /\ N >= 1
    BY LinksAre
  <2> QED BY <2>1 DEF Shape
<1>2. /\ \A c \in 1 .. N : at[c] \in AllPaths
      /\ at[1] = Top /\ \A c \in 2 .. N : at[c] = Sub(at[up[c]], ns[c].name)
  BY DEF PathsAre
<1> HIDE DEF N
<1>3. ASSUME NEW c \in 1 .. N, \A d \in 1 .. N : d < c => Good(d)
      PROVE  Good(c)
  <2>1. CASE c = 1
    <3>1. at[c] = Top /\ Prefix(Top, 0) = Top /\ Len(Top) = 0 /\ \A j \in 0 .. 0 : j = 0
      BY <1>2, <2>1, TopIs, PrefixIs
    <3> QED BY <1>2, <2>1, <3>1
  <2>2. CASE c # 1
    <3>1. c \in 2 .. N /\ up[c] \in 1 .. N /\ up[c] < c /\ ns[c].name \in Name
      BY <1>1, <2>2
    <3>2. PICK s \in AllPaths, e \in Name : s = at[up[c]] /\ e = ns[c].name /\ at[c] = Sub(s, e)
      BY <1>2, <3>1
    <3>3. Len(at[c]) = Len(s) + 1 /\ Len(s) \in Nat
      BY <3>2, SubIs
    <3>4. Good(up[c])
      BY <1>3, <3>1
    <3>5. Prefix(at[c], Len(at[c])) = at[c]
      BY <1>2, PrefixIs
    <3>6. \A j \in 0 .. Len(s) : Prefix(at[c], j) = Prefix(s, j)
      BY <3>2, PrefixSub
    <3>7. \A j \in 0 .. Len(at[c]) : j = Len(at[c]) \/ j \in 0 .. Len(s)
      BY <3>3
    <3>8. ASSUME NEW j \in 0 .. Len(at[c])
          PROVE  \E m \in 1 .. N : at[m] = Prefix(at[c], j)
      <4>1. CASE j = Len(at[c])
        BY <3>5, <4>1
      <4>2. CASE j \in 0 .. Len(s)
        <5>1. \E m \in 1 .. N : at[m] = Prefix(at[up[c]], j)
          BY <3>2, <3>4, <4>2
        <5> QED BY <3>2, <3>6, <4>2, <5>1
      <4> QED BY <3>7, <4>1, <4>2
    <3> QED BY <3>8
  <2> QED BY <2>1, <2>2
<1> HIDE DEF Good
<1>4. ASSUME NEW a \in 1 .. N, ~ Good(a)
      PROVE  FALSE
  <2>1. Bad \in SUBSET Nat /\ Bad # {}
    BY <1>4
  <2>2. PICK c \in Bad : \A j \in Bad : c <= j
    BY <2>1, LeastExists
  <2>3. c \in 1 .. N /\ ~ Good(c)
    OBVIOUS
  <2>4. ASSUME NEW d \in 1 .. N, d < c
        PROVE  Good(d)
    <3>1. d \notin Bad
      BY <2>2, <2>3, <2>4
    <3> QED BY <3>1
  <2> QED BY <1>3, <2>3, <2>4
<1> QED BY <1>4 DEF Good, N

\* line[k] is the path of the k-th of nodes each of which is in the one before.
LEMMA LineIs ==
  ASSUME NEW count \in Nat, NEW line \in [0 .. count -> AllPaths],
         NEW name \in [1 .. count -> Name],
         \A k \in 1 .. count : line[k] = Sub(line[k - 1], name[k])
  PROVE  \A k \in 0 .. count : /\ Len(line[k]) = Len(line[0]) + k /\ Len(line[0]) \in Nat
                               /\ Prefix(line[count], Len(line[0]) + k) = line[k]
<1> DEFINE L == Len(line[0])
           T == {k \in Nat : k <= count => Len(line[k]) = L + k}
           U == {j \in Nat : j <= count => Prefix(line[count], L + (count - j)) = line[count - j]}
<1>1. L \in Nat /\ \A k \in 0 .. count : line[k] \in AllPaths
  <2>1. 0 \in 0 .. count
    OBVIOUS
  <2> QED BY <2>1, LenProperties DEF AllPaths
<1>2. ASSUME NEW k \in 1 .. count
      PROVE  /\ k - 1 \in 0 .. count /\ k \in 0 .. count
             /\ line[k - 1] \in AllPaths /\ line[k] \in AllPaths /\ name[k] \in Name
             /\ line[k] = Sub(line[k - 1], name[k]) /\ Len(line[k]) = Len(line[k - 1]) + 1
  <2>1. k - 1 \in 0 .. count /\ k \in 0 .. count
    OBVIOUS
  <2>2. line[k - 1] \in AllPaths /\ line[k] \in AllPaths /\ name[k] \in Name
    BY <2>1
  <2> QED BY <2>1, <2>2, SubIs
<1> HIDE DEF L
<1>3. 0 \in T
  BY <1>1 DEF L
<1>4. ASSUME NEW k \in Nat, k \in T
      PROVE  k + 1 \in T
  <2>1. CASE k + 1 <= count
    <3>1. k + 1 \in 1 .. count /\ (k + 1) - 1 = k /\ k <= count
      BY <2>1
    <3>2. Len(line[k + 1]) = Len(line[k]) + 1
      BY <1>2, <3>1
    <3> QED BY <1>1, <1>4, <3>1, <3>2
  <2>2. CASE ~ (k + 1 <= count)
    BY <2>2
  <2> QED BY <2>1, <2>2
<1>5. Nat \subseteq T
  <2> HIDE DEF T
  <2> QED BY <1>3, <1>4, NatInduct
<1>6. \A k \in 0 .. count : Len(line[k]) = L + k
  BY <1>5
<1>7. 0 \in U
  <2>1. count \in 0 .. count /\ count - 0 = count
    OBVIOUS
  <2>2. Prefix(line[count], L + count) = line[count]
    BY <1>1, <1>6, <2>1, PrefixIs
  <2> QED BY <2>1, <2>2
<1>8. ASSUME NEW j \in Nat, j \in U
      PROVE  j + 1 \in U
  <2>1. CASE j + 1 <= count
    <3>1. PICK k \in 1 .. count : k = count - j /\ count - (j + 1) = k - 1 /\ j <= count
      <4>1. count - j \in 1 .. count /\ count - (j + 1) = (count - j) - 1 /\ j <= count
        BY <2>1
      <4> QED BY <4>1
    <3>2. PICK P \in AllPaths : P = line[count]
      BY <1>1
    <3>3. Prefix(P, L + k) = line[k]
      BY <1>8, <3>1, <3>2
    <3>4. /\ L + k \in 1 .. Len(P) /\ (L + k) - 1 = L + (k - 1) /\ L + (k - 1) \in 0 .. Len(P)
      <4>1. Len(P) = L + count
        BY <1>6, <3>2
      <4> QED BY <1>1, <4>1
    <3>5. Prefix(P, L + k) = Sub(Prefix(P, L + (k - 1)), P[L + k]) /\ Prefix(P, L + (k - 1)) \in AllPaths
      BY <3>4, PrefixIs
    <3>6. P[L + k] \in Name
      BY <3>4, ElementOfSeq DEF AllPaths
    <3>7. PICK a \in AllPaths, e \in Name, b \in AllPaths, g \in Name :
            a = Prefix(P, L + (k - 1)) /\ e = P[L + k] /\ b = line[k - 1] /\ g = name[k]
      BY <1>2, <3>5, <3>6
    <3>8. Sub(a, e) = Sub(b, g)
      BY <1>2, <3>3, <3>5, <3>7
    <3>9. a = b
      BY <3>8, SubDiffers
    <3> QED BY <3>1, <3>2, <3>7, <3>9
  <2>2. CASE ~ (j + 1 <= count)
    BY <2>2
  <2> QED BY <2>1, <2>2
<1>9. Nat \subseteq U
  <2> HIDE DEF U
  <2> QED BY <1>7, <1>8, NatInduct
<1>10. ASSUME NEW k \in 0 .. count
       PROVE  Prefix(line[count], L + k) = line[k]
  <2>1. count - k \in Nat /\ count - k <= count /\ count - (count - k) = k
    OBVIOUS
  <2>2. count - k \in U
    BY <1>9, <2>1
  <2> QED BY <2>1, <2>2
<1> QED BY <1>1, <1>6, <1>10 DEF L

\* What is found under the path of node n.
Holds(n) ==
  IF nodes[n].type = "DIR" THEN [type |-> "DIR"]
  ELSE [type |-> "FILE", bytes |-> Contents(n)]

TreeAt(at) ==
  /\ DOMAIN Tree = {at[n] : n \in Ids}
  /\ \A n \in Ids : Tree[at[n]] = Holds(n)

TreeFits ==
  \A up, at : Len(nodes) <= MaxNodes /\ Shape(nodes, up) /\ PathsAre(nodes, up, at) => TreeAt(at)

LEMMA TreeIs == TreeFits
<1> SUFFICES ASSUME NEW up, NEW at, Len(nodes) <= MaxNodes, Shape(nodes, up),
                    PathsAre(nodes, up, at)
             PROVE  TreeAt(at)
  BY DEF TreeFits
<1>1. Len(nodes) \in Nat /\ 1 \in Ids
  <2>1. Len(nodes) \in Nat /\ Len(nodes) >= 1
    BY LinksAre
  <2> QED BY <2>1 DEF Ids
<1>2. \A n \in Ids : at[n] \in AllPaths
  BY DEF PathsAre, Ids
<1>3. at[1] = Top
  BY DEF PathsAre
<1>4. ASSUME NEW p \in AllPaths
      PROVE  /\ Lookup(Root, p) \in 0 .. Len(nodes)
             /\ \A n \in Ids : Lookup(Root, p) = n <=> at[n] = p
  <2>1. Root \in 1 .. Len(nodes)
    BY <1>1 DEF Root, Ids
  <2>2. /\ Lookup(Root, p) \in 0 .. Len(nodes)
        /\ \A n \in 1 .. Len(nodes) : Lookup(Root, p) = n <=> at[n] = Cat(at[Root], p)
    BY <2>1, LookupIs
  <2>3. Cat(at[Root], p) = p
    BY <1>3, TopIs, CatIs DEF Root
  <2> QED BY <2>2, <2>3 DEF Ids
<1>5. \A n \in Ids : at[n] \in TreePaths
  <2>1. ASSUME NEW n \in Ids
        PROVE  at[n] \in TreePaths
    <3>1. Len(at[n]) < n /\ Len(at[n]) \in Nat
      BY <1>2, PathsDiffer, LenProperties DEF AllPaths, Ids
    <3>2. n <= Len(nodes) /\ n \in Nat /\ MaxNodes \in Nat
      BY <1>1, SizesAssumption DEF Ids
    <3>3. Len(at[n]) < MaxNodes
      BY <1>1, <3>1, <3>2
    <3> QED BY <1>2, <3>3, InTreePaths
  <2> QED BY <2>1
<1> DEFINE D == {q \in TreePaths : Lookup(Root, q) # 0}
           At(p) == LET n == Lookup(Root, p)
                    IN  IF nodes[n].type = "DIR" THEN [type |-> "DIR"]
                        ELSE [type |-> "FILE", bytes |-> Contents(n)]
<1>6. Tree = [p \in D |-> At(p)]
  BY DEF Tree
<1>7. DOMAIN Tree = D
  <2> HIDE DEF D, At
  <2> QED BY <1>6
<1>8. \A n \in Ids : Lookup(Root, at[n]) = n /\ at[n] \in D
  <2>1. \A n \in Ids : n # 0
    BY <1>1 DEF Ids
  <2> QED BY <1>2, <1>4, <1>5, <2>1
<1>9. \A q \in D : \E n \in Ids : q = at[n]
  <2>1. ASSUME NEW q \in D
        PROVE  \E n \in Ids : q = at[n]
    <3>1. q \in AllPaths
      BY TreePathsAreSequences
    <3>2. Lookup(Root, q) \in Ids
      BY <1>1, <1>4, <3>1 DEF Ids
    <3> QED BY <1>4, <3>1, <3>2
  <2> QED BY <2>1
<1>10. \A n \in Ids : Tree[at[n]] = Holds(n)
  <2>1. ASSUME NEW n \in Ids
        PROVE  Tree[at[n]] = Holds(n)
    <3>1. At(at[n]) = Holds(n)
      BY <1>8 DEF Holds
    <3>2. at[n] \in D
      BY <1>8
    <3> HIDE DEF D, At
    <3> QED BY <1>6, <3>1, <3>2
  <2> QED BY <2>1
<1> HIDE DEF D
<1>11. DOMAIN Tree = {at[n] : n \in Ids}
  BY <1>7, <1>8, <1>9
<1> QED BY <1>10, <1>11 DEF TreeAt

LEMMA TreeIsFunction ==
  Tree = [p \in DOMAIN Tree |-> Tree[p]]
  BY DEF Tree

\* The paths of the nodes of os, by the path of dir and the paths in ns.
PathsGrow(ns, at, dir, count, os, to) ==
  LET N == Len(ns) IN
  /\ \A c \in 1 .. N : to[c] = at[c]
  /\ to[N + 1] = Sub(at[dir], os[N + 1].name)
  /\ \A k \in 2 .. count : to[N + k] = Sub(to[N + (k - 1)], os[N + k].name)

\* The nodes there were keep their paths.
LEMMA PathsKept ==
  ASSUME NEW ns, NEW up, Shape(ns, up), NEW at, PathsAre(ns, up, at),
         NEW dir \in 1 .. Len(ns), NEW count \in Nat \ {0}, NEW os,
         Grown(ns, up, os, dir, count),
         NEW to, PathsAre(os, UpAfter(up, Len(ns), dir, count), to)
  PROVE  PathsGrow(ns, at, dir, count, os, to)
<1> DEFINE N == Len(ns)
           vp == UpAfter(up, N, dir, count)
           Bad == {c \in 1 .. N : to[c] # at[c]}
<1>1. N \in Nat /\ N >= 1 /\ \A c \in 2 .. N : up[c] \in 1 .. c - 1
  <2>1. N \in Nat /\ N >= 1
    BY LinksAre
  <2> QED BY <2>1 DEF Shape
<1>2. at[1] = Top /\ \A c \in 2 .. N : at[c] = Sub(at[up[c]], ns[c].name)
  BY DEF PathsAre
<1>3. Len(os) = N + count /\ \A c \in 1 .. N : os[c].name = ns[c].name
  BY DEF Grown, HasLinked
<1>4. to[1] = Top /\ \A c \in 2 .. N + count : to[c] = Sub(to[vp[c]], os[c].name)
  BY <1>3 DEF PathsAre
<1> HIDE DEF N
<1>5. /\ \A c \in 1 .. N : vp[c] = up[c]
      /\ vp[N + 1] = dir /\ \A c \in N + 2 .. N + count : vp[c] = c - 1
  BY <1>1 DEF UpAfter
<1> HIDE DEF vp
<1>6. ASSUME NEW c \in 1 .. N, \A d \in 1 .. N : d < c => to[d] = at[d]
      PROVE  to[c] = at[c]
  <2>1. CASE c = 1
    BY <1>2, <1>4, <2>1
  <2>2. CASE c # 1
    <3>1. c \in 2 .. N /\ c \in 2 .. N + count /\ up[c] \in 1 .. N /\ up[c] < c
      BY <1>1, <2>2
    <3>2. to[up[c]] = at[up[c]]
      BY <1>6, <3>1
    <3> QED BY <1>2, <1>3, <1>4, <1>5, <3>1, <3>2
  <2> QED BY <2>1, <2>2
<1>7. ASSUME NEW a \in 1 .. N, to[a] # at[a]
      PROVE  FALSE
  <2>1. Bad \in SUBSET Nat /\ Bad # {}
    BY <1>7
  <2>2. PICK c \in Bad : \A j \in Bad : c <= j
    BY <2>1, LeastExists
  <2>3. ASSUME NEW d \in 1 .. N, d < c
        PROVE  to[d] = at[d]
    <3>1. d \notin Bad
      BY <2>2, <2>3
    <3> QED BY <3>1
  <2> QED BY <1>6, <2>3
<1>8. to[N + 1] = Sub(at[dir], os[N + 1].name)
  <2>1. N + 1 \in 2 .. N + count /\ dir \in 1 .. N
    BY <1>1 DEF N
  <2> QED BY <1>4, <1>5, <1>7, <2>1
<1>9. ASSUME NEW k \in 2 .. count
      PROVE  to[N + k] = Sub(to[N + (k - 1)], os[N + k].name)
  <2>1. N + k \in N + 2 .. N + count /\ N + k \in 2 .. N + count /\ (N + k) - 1 = N + (k - 1)
    BY <1>1
  <2> QED BY <1>4, <1>5, <2>1
<1> QED BY <1>7, <1>8, <1>9 DEF N, PathsGrow

LEMMA CreationMakes ==
  ASSUME FsInv, FsInv', TreeFits, TreeFits',
         NEW up, Shape(nodes, up), NEW at, PathsAre(nodes, up, at),
         NEW root, NEW p \in AllPaths, NEW type, NEW n, NEW dir, NEW count, NEW data,
         Creation(up, at, root, p, type, n, dir, count, data)
  PROVE  \E q \in TreePaths, leaf \in {Store!Dir, Store!File(<< >>)} : Store!Make(q, leaf)
<1>0. PICK N : N = Len(nodes)
  OBVIOUS
<1> DEFINE M == N + count
           L == Len(at[dir])
           vp == UpAfter(up, N, dir, count)
<1>1. /\ n \in 0 .. Len(p) - 1 /\ dir \in 1 .. N /\ count \in 1 .. Len(p) - n
      /\ nodes[dir].type = "DIR" /\ Grown(nodes, up, nodes', dir, count)
      /\ \A k \in 1 .. count : nodes'[N + k].len = 0
  BY <1>0 DEF Creation, MadeFor
<1>2. N \in Nat /\ N >= 1 /\ count \in Nat \ {0} /\ M \in Nat
  <2>1. N \in Nat /\ N >= 1 /\ Len(p) \in Nat
    BY <1>0, LinksAre, LenProperties DEF AllPaths
  <2> QED BY <1>1, <2>1
<1>3. /\ Len(nodes') = M
      /\ \A c \in 1 .. N : /\ nodes'[c].type = nodes[c].type
                           /\ nodes'[c].buf = nodes[c].buf /\ nodes'[c].len = nodes[c].len
      /\ \A k \in 1 .. count : nodes'[N + k].name \in Name
      /\ \A k \in 1 .. count : k < count => nodes'[N + k].type = "DIR"
      /\ nodes' \in Seq(Node)
  BY <1>0, <1>1 DEF Grown, HasLinked
<1>4. Shape(nodes', vp)
  BY <1>0, <1>1, <1>2, ShapeGrown
<1>5. PICK to : PathsAre(nodes', vp, to)
  BY <1>4, PathsExist
<1>6. /\ \A c \in 1 .. N : to[c] = at[c]
      /\ to[N + 1] = Sub(at[dir], nodes'[N + 1].name)
      /\ \A k \in 2 .. count : to[N + k] = Sub(to[N + (k - 1)], nodes'[N + k].name)
  <2>1. PathsGrow(nodes, at, dir, count, nodes', to)
    BY <1>0, <1>1, <1>2, <1>5, PathsKept
  <2> QED BY <1>0, <2>1 DEF PathsGrow
<1>7. TreeAt(at)
  BY DEF TreeFits, FsInv
<1>8. TreeAt(to)'
  <2>1. Len(nodes') <= MaxNodes
    BY DEF FsInv
  <2>2. (Len(nodes') <= MaxNodes /\ Shape(nodes', vp) /\ PathsAre(nodes', vp, to)) => TreeAt(to)'
    BY DEF TreeFits
  <2> QED BY <1>4, <1>5, <2>1, <2>2
<1>9. /\ \A c, d \in 1 .. M : to[c] = to[d] => c = d
      /\ \A c \in 1 .. M : to[c] \in AllPaths /\ Len(to[c]) < c
      /\ \A c \in 1 .. M : \A j \in 0 .. Len(to[c]) : \E m \in 1 .. M : to[m] = Prefix(to[c], j)
  <2>1. \A c \in 1 .. M : to[c] \in AllPaths
    BY <1>3, <1>5 DEF PathsAre
  <2> QED BY <1>3, <1>4, <1>5, <2>1, PathsDiffer, PrefixesExist
<1> HIDE DEF vp
<1>10. /\ \A k \in 1 .. count : N + k \in 1 .. M /\ N + k \notin 1 .. N
       /\ \A c \in 1 .. M : c \notin 1 .. N => c - N \in 1 .. count /\ N + (c - N) = c
       /\ \A c \in 1 .. N : c \in 1 .. M
  BY <1>2
<1> HIDE DEF M
<1> DEFINE line == [k \in 0 .. count |-> IF k = 0 THEN at[dir] ELSE to[N + k]]
           name == [k \in 1 .. count |-> nodes'[N + k].name]
<1>11. at[dir] \in AllPaths /\ L \in Nat
  BY <1>0, <1>1, LenProperties DEF PathsAre, AllPaths
<1> HIDE DEF L
<1>12. /\ \A k \in 1 .. count : Len(to[N + k]) = L + k /\ Prefix(to[N + count], L + k) = to[N + k]
       /\ Prefix(to[N + count], L) = at[dir]
  <2>1. line[0] = at[dir] /\ \A k \in 1 .. count : line[k] = to[N + k] /\ name[k] \in Name
    <3>1. 0 \in 0 .. count /\ \A k \in 1 .. count : k \in 0 .. count /\ k # 0
      BY <1>2
    <3> QED BY <1>3, <3>1
  <2>2. line \in [0 .. count -> AllPaths]
    <3>1. \A k \in 0 .. count : k # 0 => k \in 1 .. count
      BY <1>2
    <3> QED BY <1>9, <1>10, <1>11, <3>1
  <2>3. name \in [1 .. count -> Name]
    BY <1>3
  <2>4. ASSUME NEW k \in 1 .. count
        PROVE  line[k] = Sub(line[k - 1], name[k])
    <3>1. name[k] = nodes'[N + k].name
      OBVIOUS
    <3> HIDE DEF line, name
    <3>2. CASE k = 1
      BY <1>6, <2>1, <3>1, <3>2
    <3>3. CASE k # 1
      <4>1. k \in 2 .. count /\ k - 1 \in 1 .. count
        BY <1>2, <3>3
      <4> QED BY <1>6, <2>1, <3>1, <4>1
    <3> QED BY <3>2, <3>3
  <2> HIDE DEF line, name
  <2>5. \A k \in 0 .. count : /\ Len(line[k]) = Len(line[0]) + k /\ Len(line[0]) \in Nat
                              /\ Prefix(line[count], Len(line[0]) + k) = line[k]
    BY <1>2, <2>2, <2>3, <2>4, LineIs
  <2>6. /\ 0 \in 0 .. count /\ L + 0 = L /\ count \in 1 .. count
        /\ \A k \in 1 .. count : k \in 0 .. count
    BY <1>2, <1>11
  <2> QED BY <2>1, <2>5, <2>6 DEF L
<1> HIDE DEF line, name
<1> DEFINE P == to[N + count]
           leaf == IF nodes'[N + count].type = "DIR" THEN Store!Dir ELSE Store!File(<< >>)
           new == {Prefix(P, k) : k \in 1 .. Len(P)} \ DOMAIN Tree
<1>13. count \in 1 .. count /\ P \in AllPaths /\ Len(P) = L + count /\ Len(P) \in Nat
  <2>1. count \in 1 .. count
    BY <1>2
  <2>2. N + count \in 1 .. M
    BY <1>10, <2>1
  <2>3. P \in AllPaths /\ Len(P) = L + count
    BY <1>9, <1>12, <2>1, <2>2
  <2> QED BY <1>2, <1>11, <2>1, <2>3
<1>14. /\ DOMAIN Tree = {at[c] : c \in 1 .. N} /\ \A c \in 1 .. N : Tree[at[c]] = Holds(c)
       /\ DOMAIN Tree' = {to[c] : c \in 1 .. M} /\ \A c \in 1 .. M : Tree'[to[c]] = Holds(c)'
  BY <1>0, <1>3, <1>7, <1>8 DEF TreeAt, Ids
<1>15. new = {to[N + k] : k \in 1 .. count}
  <2>1. ASSUME NEW k \in 1 .. count
        PROVE  to[N + k] \in new
    <3>1. to[N + k] = Prefix(P, L + k) /\ L + k \in 1 .. Len(P)
      BY <1>2, <1>11, <1>12, <1>13
    <3>2. to[N + k] \notin DOMAIN Tree
      <4>1. ASSUME NEW c \in 1 .. N, to[N + k] = at[c]
            PROVE  FALSE
        BY <1>6, <1>9, <1>10, <4>1
      <4> QED BY <1>14, <4>1
    <3> HIDE DEF P
    <3> QED BY <3>1, <3>2
  <2>2. ASSUME NEW q \in new
        PROVE  q \in {to[N + k] : k \in 1 .. count}
    <3>1. PICK k \in 1 .. Len(P) : q = Prefix(P, k)
      OBVIOUS
    <3>2. k \in 0 .. Len(to[N + count]) /\ N + count \in 1 .. M
      BY <1>10, <1>13
    <3>3. PICK m \in 1 .. M : to[m] = q
      BY <1>9, <3>1, <3>2
    <3>4. m \notin 1 .. N
      BY <1>6, <1>14, <3>3
    <3>5. m - N \in 1 .. count /\ N + (m - N) = m
      BY <1>10, <3>4
    <3> QED BY <3>3, <3>5
  <2> HIDE DEF new
  <2> QED BY <2>1, <2>2
<1>16. Cardinality(new) = count
  <2> DEFINE f == [k \in 1 .. count |-> to[N + k]]
  <2>1. IsFiniteSet(1 .. count) /\ Cardinality(1 .. count) = count
    BY <1>2, FS_Interval
  <2>2. f \in Bijection(1 .. count, new)
    <3>1. f \in Surjection(1 .. count, new)
      BY <1>15 DEF Surjection
    <3>2. ASSUME NEW j \in 1 .. count, NEW k \in 1 .. count, f[j] = f[k]
          PROVE  j = k
      <4>1. N + j = N + k
        BY <1>9, <1>10, <3>2
      <4> QED BY <1>2, <4>1
    <3> HIDE DEF f
    <3> QED BY <3>1, <3>2 DEF Bijection, Injection, IsInjective, Surjection
  <2>3. ExistsBijection(1 .. count, new)
    BY <2>2 DEF ExistsBijection
  <2> HIDE DEF new
  <2> QED BY <2>1, <2>3, FS_Bijection
<1>17. P \in new /\ P \in TreePaths
  <2>1. P \in new
    BY <1>13, <1>15
  <2>2. N + count \in 1 .. M /\ N + count <= MaxNodes /\ N + count \in Nat
    BY <1>2, <1>3, <1>10, <1>13 DEF FsInv, M
  <2>3. Len(P) < MaxNodes
    <3>1. Len(P) < N + count /\ MaxNodes \in Nat
      BY <1>9, <2>2, SizesAssumption
    <3> HIDE DEF P
    <3> QED BY <1>13, <2>2, <3>1
  <2> HIDE DEF P
  <2> QED BY <1>13, <2>1, <2>3, InTreePaths
<1>18. Tree[Prefix(P, Len(P) - Cardinality(new))] = Store!Dir
  <2>1. Len(P) - Cardinality(new) = L
    BY <1>2, <1>11, <1>13, <1>16
  <2>2. Prefix(P, L) = at[dir]
    BY <1>12
  <2>3. Tree[at[dir]] = Store!Dir
    BY <1>1, <1>14 DEF Holds, Store!Dir
  <2> HIDE DEF P, new
  <2> QED BY <2>1, <2>2, <2>3
<1>19. \A c \in 1 .. N : Holds(c)' = Holds(c)
  BY <1>3 DEF Holds, Contents
<1>20. \A k \in 1 .. count : Holds(N + k)' = IF k = count THEN leaf ELSE Store!Dir
  <2>1. ASSUME NEW k \in 1 .. count
        PROVE  Holds(N + k)' = IF k = count THEN leaf ELSE Store!Dir
    <3>1. Holds(N + k)' = IF nodes'[N + k].type = "DIR" THEN [type |-> "DIR"]
                          ELSE [type |-> "FILE", bytes |-> SubSeq(nodes'[N + k].buf, 1, nodes'[N + k].len)]
      BY DEF Holds, Contents
    <3>2. SubSeq(nodes'[N + k].buf, 1, nodes'[N + k].len) = << >>
      <4>1. nodes'[N + k].len = 0
        BY <1>1
      <4>2. SubSeq(nodes'[N + k].buf, 1, 0) = << >>
        BY SubSeqEmpty
      <4> QED BY <4>1, <4>2
    <3>3. k # count => k < count
      BY <1>2
    <3> QED BY <1>3, <3>1, <3>2, <3>3 DEF Store!Dir, Store!File
  <2> QED BY <2>1
<1>21. Tree' = Store!With(Tree, [q \in new |-> IF q = P THEN leaf ELSE Store!Dir])
  <2> HIDE DEF leaf
  <2> DEFINE more == [q \in new |-> IF q = P THEN leaf ELSE Store!Dir]
  <2>1. DOMAIN more = new /\ \A q \in new : more[q] = IF q = P THEN leaf ELSE Store!Dir
    OBVIOUS
  <2> HIDE DEF more
  <2>2. DOMAIN Tree' = DOMAIN Tree \cup DOMAIN more
    <3>1. \A c \in 1 .. M : to[c] \in DOMAIN Tree \/ to[c] \in new
      <4>1. \A c \in 1 .. N : to[c] \in DOMAIN Tree
        BY <1>6, <1>14
      <4>2. \A c \in 1 .. M : c \notin 1 .. N => to[c] \in new
        <5> HIDE DEF new, P
        <5> QED BY <1>10, <1>15
      <4> QED BY <4>1, <4>2
    <3>2. \A c \in 1 .. N : at[c] \in DOMAIN Tree'
      BY <1>6, <1>10, <1>14
    <3>3. \A k \in 1 .. count : to[N + k] \in DOMAIN Tree'
      BY <1>10, <1>14
    <3> HIDE DEF new, P
    <3> QED BY <1>14, <1>15, <2>1, <3>1, <3>2, <3>3
  <2>3. ASSUME NEW q \in DOMAIN Tree'
        PROVE  Tree'[q] = IF q \in DOMAIN Tree THEN Tree[q] ELSE more[q]
    <3>1. PICK c \in 1 .. M : q = to[c]
      BY <1>14
    <3>2. CASE c \in 1 .. N
      <4>1. q = at[c] /\ q \in DOMAIN Tree
        BY <1>6, <1>14, <3>1, <3>2
      <4> QED BY <1>14, <1>19, <3>1, <3>2, <4>1
    <3>3. CASE c \notin 1 .. N
      <4>1. PICK k \in 1 .. count : c = N + k
        BY <1>10, <3>3
      <4>2. q \in new /\ q \notin DOMAIN Tree
        <5>1. q \in new
          <6> HIDE DEF new, P
          <6> QED BY <1>15, <3>1, <4>1
        <5> QED BY <5>1
      <4>3. q = P <=> k = count
        <5>1. N + k \in 1 .. M /\ N + count \in 1 .. M
          BY <1>10, <1>13
        <5>2. to[N + k] = to[N + count] <=> N + k = N + count
          BY <1>9, <5>1
        <5> QED BY <1>2, <3>1, <4>1, <5>2
      <4>4. Tree'[q] = IF k = count THEN leaf ELSE Store!Dir
        BY <1>14, <1>20, <3>1, <4>1
      <4> HIDE DEF new, P
      <4> QED BY <2>1, <4>2, <4>3, <4>4
    <3> QED BY <3>2, <3>3
  <2>4. Tree' = [q \in DOMAIN Tree' |-> Tree'[q]]
    BY DEF Tree
  <2>5. Tree' = Store!With(Tree, more)
    <3> HIDE DEF new, P
    <3>1. Store!With(Tree, more) = [q \in DOMAIN Tree \cup DOMAIN more |->
                                     IF q \in DOMAIN Tree THEN Tree[q] ELSE more[q]]
      BY DEF Store!With
    <3> QED BY <2>2, <2>3, <2>4, <3>1
  <2> QED BY <2>5 DEF more
<1>22. Store!Make(P, leaf)
  <2>1. \A k : Store!Prefix(P, k) = Prefix(P, k)
    BY DEF Store!Prefix, Prefix
  <2>2. new = {Store!Prefix(P, k) : k \in 1 .. Len(P)} \ DOMAIN Tree
    BY <2>1
  <2> HIDE DEF P, leaf, new
  <2>3. /\ P \in new /\ Tree[Store!Prefix(P, Len(P) - Store!Cardinality(new))] = Store!Dir
        /\ Tree' = Store!With(Tree, [q \in new |-> IF q = P THEN leaf ELSE Store!Dir])
    <3>1. Store!Cardinality(new) = Cardinality(new)
      BY DEF Store!Cardinality, Cardinality
    <3> QED BY <1>17, <1>18, <1>21, <2>1, <3>1
  <2>4. Store!Make(P, leaf) <=>
          /\ P \in new /\ Tree[Store!Prefix(P, Len(P) - Store!Cardinality(new))] = Store!Dir
          /\ Tree' = Store!With(Tree, [q \in new |-> IF q = P THEN leaf ELSE Store!Dir])
    BY <2>2 DEF Store!Make
  <2> QED BY <2>3, <2>4
<1>23. leaf \in {Store!Dir, Store!File(<< >>)}
  OBVIOUS
<1> HIDE DEF P, leaf, new
<1> QED BY <1>17, <1>22, <1>23

\* The first k elements of a sequence.
LEMMA FrontIs ==
  ASSUME NEW S, NEW s \in Seq(S), NEW k \in 0 .. Len(s)
  PROVE  /\ SubSeq(s, 1, k) = [i \in 1 .. k |-> s[i]] /\ Len(SubSeq(s, 1, k)) = k
         /\ \A i \in 1 .. k : SubSeq(s, 1, k)[i] = s[i]
<1>1. Len(s) \in Nat /\ k \in Nat /\ \A i \in 1 .. k : s[i] \in S
  BY LenProperties, ElementOfSeq
<1>2. /\ SubSeq(s, 1, k) \in Seq(S)
      /\ Len(SubSeq(s, 1, k)) = IF 1 <= k THEN k - 1 + 1 ELSE 0
      /\ \A i \in 1 .. k - 1 + 1 : SubSeq(s, 1, k)[i] = s[1 + i - 1]
  BY <1>1, SubSeqProperties
<1> DEFINE t == SubSeq(s, 1, k)
<1> HIDE DEF t
<1>3. t \in Seq(S) /\ Len(t) = k
  BY <1>1, <1>2 DEF t
<1>4. \A i \in 1 .. k : t[i] = s[i]
  <2>1. \A i \in 1 .. k : i \in 1 .. k - 1 + 1 /\ 1 + i - 1 = i
    BY <1>1
  <2> QED BY <1>2, <2>1 DEF t
<1>5. t \in [1 .. Len(t) -> S]
  BY <1>3, LenProperties
<1>6. t = [i \in 1 .. k |-> s[i]]
  BY <1>3, <1>4, <1>5
<1> QED BY <1>3, <1>4, <1>6 DEF t

\* What a written file holds is what it held, with the bytes laid over it.
LEMMA WritingHolds ==
  ASSUME nodes \in Seq(Node), NEW n \in Ids, nodes[n].len \in 0 .. Len(nodes[n].buf),
         NEW bytes \in Seq(Byte), NEW off \in Nat, NEW cap, Writing(n, bytes, off, cap)
  PROVE  Contents(n)' = Store!Overwritten(Contents(n), bytes, off)
<1> DEFINE old == nodes[n].buf
           new == nodes'[n].buf
           len == nodes[n].len
           to == off + Len(bytes)
           end == Greater(len, to)
<1>1. /\ off <= len /\ cap \in Nat /\ cap >= to /\ cap >= Len(old)
      /\ new \in Seq(Byte \cup {Garbage}) /\ Len(new) = cap /\ nodes'[n].len = end
      /\ \A i \in 1 .. cap : IF i > off /\ i <= to THEN new[i] = bytes[i - off]
                             ELSE i <= len => new[i] = old[i]
  BY DEF Writing
<1>2. old \in Seq(Byte \cup {Garbage})
  <2>1. nodes[n] \in Node
    BY ElementOfSeq DEF Ids
  <2> QED BY <2>1 DEF Node
<1>3. Len(old) \in Nat /\ Len(bytes) \in Nat
  BY <1>2, LenProperties
<1>4. len \in 0 .. Len(old)
  OBVIOUS
<1>5. Contents(n) = SubSeq(old, 1, len) /\ Contents(n)' = SubSeq(new, 1, end)
  BY <1>1 DEF Contents
<1> HIDE DEF old, new, len
<1>6. to \in Nat /\ len \in Nat /\ end \in 0 .. Len(new) /\ end = Store!Longer(len, to)
  BY <1>1, <1>3, <1>4 DEF Greater, Store!Longer
<1> HIDE DEF to, end
<1>7. Len(Contents(n)) = len /\ \A i \in 1 .. len : Contents(n)[i] = old[i]
  BY <1>2, <1>4, <1>5, FrontIs
<1>8. Contents(n)' = [i \in 1 .. end |-> new[i]]
  BY <1>1, <1>5, <1>6, FrontIs
<1>9. \A i \in 1 .. end :
        new[i] = IF i > off /\ i <= to THEN bytes[i - off] ELSE Contents(n)[i]
  <2>1. ASSUME NEW i \in 1 .. end
        PROVE  new[i] = IF i > off /\ i <= to THEN bytes[i - off] ELSE Contents(n)[i]
    <3>1. i \in 1 .. cap
      BY <1>1, <1>6
    <3>2. CASE i > off /\ i <= to
      BY <1>1, <3>1, <3>2
    <3>3. CASE ~ (i > off /\ i <= to)
      <4>1. i \in 1 .. len /\ i <= len
        BY <1>1, <1>6, <3>3 DEF end, Greater
      <4> QED BY <1>1, <1>7, <3>1, <3>3, <4>1
    <3> QED BY <3>2, <3>3
  <2> QED BY <2>1
<1>10. Store!Overwritten(Contents(n), bytes, off) =
         [i \in 1 .. end |-> IF i > off /\ i <= to THEN bytes[i - off] ELSE Contents(n)[i]]
  BY <1>6, <1>7 DEF Store!Overwritten, to
<1> QED BY <1>8, <1>9, <1>10

LEMMA WritingWrites ==
  ASSUME FsInv, FsInv', TreeFits, TreeFits',
         NEW up, Shape(nodes, up), NEW at, PathsAre(nodes, up, at),
         NEW n \in Ids, NEW bytes \in Chunks, NEW off \in Nat, NEW cap,
         Writing(n, bytes, off, cap)
  PROVE  /\ at[n] \in DOMAIN Tree /\ Tree[at[n]].type = "FILE"
         /\ off \in 0 .. Len(Tree[at[n]].bytes)
         /\ Store!Write(at[n], bytes, off)
<1>0. PICK N : N = Len(nodes)
  OBVIOUS
<1>1. /\ nodes[n].type = "FILE" /\ off <= nodes[n].len
      /\ SameLinks(nodes, nodes')
      /\ \A c \in Ids : c # n => nodes'[c] = nodes[c]
  BY DEF Writing
<1>2. Shape(nodes', up) /\ PathsAre(nodes', up, at)
  BY <1>1, ShapeKept
<1>3. TreeAt(at)
  BY DEF TreeFits, FsInv
<1>4. TreeAt(at)'
  <2>1. Len(nodes') <= MaxNodes
    BY DEF FsInv
  <2>2. (Len(nodes') <= MaxNodes /\ Shape(nodes', up) /\ PathsAre(nodes', up, at)) => TreeAt(at)'
    BY DEF TreeFits
  <2> QED BY <1>2, <2>1, <2>2
<1>5. /\ Len(nodes') = N /\ n \in 1 .. N
      /\ \A c \in 1 .. N : nodes'[c].type = nodes[c].type
      /\ \A c \in 1 .. N : c # n => nodes'[c] = nodes[c]
  BY <1>0, <1>1 DEF SameLinks, Ids
<1>6. /\ DOMAIN Tree = {at[c] : c \in 1 .. N} /\ \A c \in 1 .. N : Tree[at[c]] = Holds(c)
      /\ DOMAIN Tree' = {at[c] : c \in 1 .. N} /\ \A c \in 1 .. N : Tree'[at[c]] = Holds(c)'
  BY <1>0, <1>3, <1>4, <1>5 DEF TreeAt, Ids
<1>7. \A c \in 1 .. N : at[c] = at[n] => c = n
  BY <1>0, <1>5, PathsDiffer
<1>8. /\ nodes \in Seq(Node) /\ nodes[n].len \in 0 .. Len(nodes[n].buf)
      /\ bytes \in Seq(Byte)
  BY ChunksAreSequences DEF FsInv, Shape
<1>9. Holds(n) = [type |-> "FILE", bytes |-> Contents(n)]
  BY <1>1 DEF Holds
<1>10. Holds(n)' = Store!File(Store!Overwritten(Contents(n), bytes, off))
  <2>1. Contents(n)' = Store!Overwritten(Contents(n), bytes, off)
    BY <1>8, WritingHolds
  <2>2. Holds(n)' = [type |-> "FILE", bytes |-> Contents(n)']
    BY <1>1, <1>5 DEF Holds
  <2> QED BY <2>1, <2>2 DEF Store!File
<1>11. \A c \in 1 .. N : c # n => Holds(c)' = Holds(c)
  BY <1>5 DEF Holds, Contents
<1>12. at[n] \in DOMAIN Tree /\ Tree[at[n]].type = "FILE" /\ Tree[at[n]].bytes = Contents(n)
  BY <1>5, <1>6, <1>9
<1>13. Len(Contents(n)) = nodes[n].len /\ off \in 0 .. nodes[n].len
  <2>1. nodes[n] \in Node
    BY <1>0, <1>5, <1>8, ElementOfSeq
  <2>2. nodes[n].buf \in Seq(Byte \cup {Garbage})
    BY <2>1 DEF Node
  <2>3. Len(Contents(n)) = nodes[n].len
    BY <1>8, <2>2, FrontIs DEF Contents
  <2>4. nodes[n].len \in Nat
    BY <2>1 DEF Node
  <2> QED BY <1>1, <2>3, <2>4
<1>14. Tree' = [Tree EXCEPT ![at[n]] = Store!File(Store!Overwritten(@.bytes, bytes, off))]
  <2> DEFINE f == Store!File(Store!Overwritten(Contents(n), bytes, off))
  <2> HIDE DEF f
  <2>1. \A q \in DOMAIN Tree' : Tree'[q] = IF q = at[n] THEN f ELSE Tree[q]
    <3>1. ASSUME NEW q \in DOMAIN Tree'
          PROVE  Tree'[q] = IF q = at[n] THEN f ELSE Tree[q]
      <4>1. PICK c \in 1 .. N : q = at[c]
        BY <1>6
      <4>2. CASE c = n
        BY <1>6, <1>10, <4>1, <4>2 DEF f
      <4>3. CASE c # n
        BY <1>6, <1>7, <1>11, <4>1, <4>3
      <4> QED BY <4>2, <4>3
    <3> QED BY <3>1
  <2>2. Tree' = [q \in DOMAIN Tree' |-> Tree'[q]]
    BY DEF Tree
  <2>3. Tree = [q \in DOMAIN Tree |-> Tree[q]]
    BY TreeIsFunction
  <2>4. DOMAIN Tree' = DOMAIN Tree
    BY <1>6
  <2>5. Tree' = [Tree EXCEPT ![at[n]] = f]
    BY <2>1, <2>2, <2>3, <2>4
  <2> QED BY <1>12, <2>5 DEF f
<1> QED BY <1>12, <1>13, <1>14, <1>1 DEF Store!Write

LEMMA StoreInit == FsInit => Store!Init
<1>1. ASSUME FsInit
      PROVE  Store!Init
  <2>1. FsInv /\ nodes = << NewNode("", "DIR") >>
    BY <1>1, FsInitInv DEF FsInit
  <2>2. PICK up : Shape(nodes, up)
    BY <2>1 DEF FsInv
  <2>3. PICK at : PathsAre(nodes, up, at)
    BY <2>2, PathsExist
  <2>4. TreeAt(at)
    BY <2>1, <2>2, <2>3, TreeIs DEF TreeFits, FsInv
  <2>5. Ids = {1} /\ nodes[1].type = "DIR"
    <3> DEFINE r == NewNode("", "DIR")
    <3>1. r.type = "DIR"
      BY DEF NewNode
    <3> HIDE DEF r
    <3>2. Len(<< r >>) = 1 /\ << r >>[1] = r /\ 1 .. 1 = {1}
      OBVIOUS
    <3>3. nodes = << r >>
      BY <2>1 DEF r
    <3> QED BY <3>1, <3>2, <3>3 DEF Ids
  <2>6. at[1] = << >>
    BY <2>3 DEF PathsAre, Top
  <2>7. DOMAIN Tree = {<< >>} /\ Tree[<< >>] = Store!Dir
    <3>1. Tree[at[1]] = Holds(1) /\ DOMAIN Tree = {at[n] : n \in Ids}
      BY <2>4, <2>5 DEF TreeAt
    <3>2. Holds(1) = Store!Dir
      BY <2>5 DEF Holds, Store!Dir
    <3> QED BY <2>5, <2>6, <3>1, <3>2
  <2>8. Tree = [p \in {<< >>} |-> Store!Dir]
    BY <2>7, TreeIsFunction
  <2> QED BY <2>8 DEF Store!Init
<1> QED BY <1>1

LEMMA TreeUnchanged ==
  ASSUME UNCHANGED nodes
  PROVE  UNCHANGED Tree
<1>1. \A p, start : LookupAt(p, start)' = LookupAt(p, start)
  BY DEF LookupAt
<1>2. \A p : Lookup(Root, p)' = Lookup(Root, p)
  BY <1>1 DEF Lookup, Root
<1>3. \A n : Contents(n)' = Contents(n)
  BY DEF Contents
<1> QED BY <1>2, <1>3 DEF Tree

LEMMA StoreNext == FsInv /\ FsInv' /\ TreeFits /\ TreeFits' /\ [FsNext]_fsVars => [Store!Next]_Tree
<1> SUFFICES ASSUME FsInv, FsInv', TreeFits, TreeFits', [FsNext]_fsVars
             PROVE  [Store!Next]_Tree
  OBVIOUS
<1>1. PICK up : Shape(nodes, up)
  BY DEF FsInv
<1>2. PICK at : PathsAre(nodes, up, at)
  BY <1>1, PathsExist
<1>3. CASE Crash \/ Halted \/ UNCHANGED fsVars
  <2>1. UNCHANGED nodes
    BY <1>3 DEF Crash, Halted, fsVars
  <2> QED BY <2>1, TreeUnchanged
<1>4. ASSUME NEW root \in Ids, NEW p \in Paths, NEW type \in {"DIR", "FILE"}, NEW rec \in BOOLEAN,
             Create(root, p, type, rec), ~ Crash
      PROVE  Store!Next
  <2>1. PICK n, dir, count, data : Creation(up, at, root, p, type, n, dir, count, data)
    BY <1>1, <1>2, <1>4, CreateMakes
  <2>2. p \in AllPaths
    BY PathsAreSequences
  <2>3. \E q \in TreePaths, leaf \in {Store!Dir, Store!File(<< >>)} : Store!Make(q, leaf)
    BY <1>1, <1>2, <2>1, <2>2, CreationMakes
  <2> QED BY <2>3 DEF Store!Next
<1>5. ASSUME NEW n \in Ids, NEW bytes \in Chunks, NEW off \in 0 .. MaxFile,
             Write(n, bytes, off), ~ Crash
      PROVE  Store!Next
  <2>1. PICK cap : Writing(n, bytes, off, cap)
    BY <1>5, WriteWrites
  <2>2. off \in Nat
    BY SizesAssumption
  <2>3. /\ at[n] \in DOMAIN Tree /\ Tree[at[n]].type = "FILE"
        /\ off \in 0 .. Len(Tree[at[n]].bytes)
        /\ Store!Write(at[n], bytes, off)
    BY <1>1, <1>2, <2>1, <2>2, WritingWrites
  <2> QED BY <2>3 DEF Store!Next
<1> QED BY <1>3, <1>4, <1>5 DEF FsNext

\* The linked nodes of the file system implement the tree of FileStore: every
\* call that succeeds does what it says under one path and nothing anywhere
\* else, one that fails on the way leaves directories on that path only.
THEOREM NodesImplementStore == FsSpec => ImplementsStore
<1>1. TreeFits
  BY TreeIs
<1>2. Store!Spec <=> Store!Init /\ [][Store!Next]_Tree
  BY DEF Store!Spec
<1> QED BY <1>1, <1>2, StoreInit, StoreNext, FsInvariant, PTL DEF FsSpec, ImplementsStore
=============================================================================
