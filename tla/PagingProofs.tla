---------------------------- MODULE PagingProofs ----------------------------
(***************************************************************************)
(* Proofs about virtual memory, module Paging, for any size of the tables  *)
(* and of the pool, and any regions.                                       *)
(***************************************************************************)
EXTENDS PagingProps, Integers, FiniteSetTheorems, WellFoundedInduction, TLAPS

-----------------------------------------------------------------------------
(***************************************************************************)
(* Numbers: an address is the sequence of its four indices.                *)
(***************************************************************************)
LEMMA MultipleIsFar ==
  ASSUME NEW N \in Nat \ {0}, NEW q \in Int, N * q < N, -N < N * q
  PROVE  q = 0
<1>1. CASE q >= 1
  <2>1. N * q >= N
    BY <1>1
  <2> QED BY <2>1
<1>2. CASE q <= -1
  <2>1. N * q <= -N
    BY <1>2
  <2> QED BY <2>1
<1> QED BY <1>1, <1>2

\* A number is its quotient and its remainder, which are unique.
LEMMA DivIs ==
  ASSUME NEW a \in Nat, NEW N \in Nat \ {0}
  PROVE  /\ a \div N \in Nat /\ a % N \in 0 .. N - 1
         /\ a = N * (a \div N) + (a % N)
  OBVIOUS

LEMMA QuotientUnique ==
  ASSUME NEW N \in Nat \ {0}, NEW p \in Int, NEW q \in Int,
         NEW r \in 0 .. N - 1, NEW s \in 0 .. N - 1, N * p + r = N * q + s
  PROVE  p = q /\ r = s
<1>1. N * (p - q) = N * p - N * q /\ N * p \in Int /\ N * q \in Int
  OBVIOUS
<1>2. N * (p - q) = s - r
  BY <1>1
<1>3. p - q \in Int /\ N * (p - q) < N /\ -N < N * (p - q)
  BY <1>2
<1>4. p - q = 0
  BY <1>3, MultipleIsFar
<1>5. p = q
  BY <1>4
<1> QED BY <1>1, <1>5

\* Dividing twice.
LEMMA DivDiv ==
  ASSUME NEW a \in Nat, NEW S \in Nat \ {0}, NEW N \in Nat \ {0}
  PROVE  S * N \in Nat \ {0} /\ (a \div S) \div N = a \div (S * N)
<1> DEFINE q == a \div S
           r == a % S
           p == q \div N
           t == q % N
           P == S * N
           d == a \div P
           e == a % P
<1>1. q \in Nat /\ r \in 0 .. S - 1 /\ a = S * q + r
  BY DivIs
<1>2. p \in Nat /\ t \in 0 .. N - 1 /\ q = N * p + t
  BY <1>1, DivIs
<1>3. P \in Nat \ {0}
  OBVIOUS
<1>4. d \in Nat /\ e \in 0 .. P - 1 /\ a = P * d + e
  BY <1>3, DivIs
<1> HIDE DEF q, r, p, t, d, e
<1>5. S * q = S * (N * p) + S * t /\ S * (N * p) = P * p /\ S * t \in Nat
  BY <1>2
<1>6. S * t <= S * (N - 1) /\ S * (N - 1) = P - S
  BY <1>2
<1> HIDE DEF P
<1>7. S * t + r \in 0 .. P - 1 /\ a = P * p + (S * t + r)
  <2> DEFINE x == S * t
             y == P * p
             z == S * q
  <2>1. x \in Nat /\ y \in Int /\ z = y + x /\ x <= P - S /\ a = z + r
    BY <1>1, <1>2, <1>3, <1>5, <1>6
  <2> HIDE DEF x, y, z
  <2>2. x + r \in 0 .. P - 1 /\ a = y + (x + r)
    BY <1>1, <1>3, <2>1
  <2> QED BY <2>2 DEF x, y
<1>8. p = d
  BY <1>2, <1>3, <1>4, <1>7, QuotientUnique
<1> QED BY <1>3, <1>8 DEF p, q, d, P

\* The part of v that the tables down to the given level have translated.
Part(v, level) == v \div Span(level)

LEMMA Spans ==
  /\ \A level \in 1 .. 4 : Span(level) \in Nat \ {0}
  /\ \A level \in 1 .. 3 : Span(level) = Span(level + 1) * Fanout
  /\ Span(4) = 1 /\ Span(1) * Fanout = Fanout * Fanout * Fanout * Fanout
  /\ Fanout \in Nat \ {0}
<1>1. Fanout \in Nat \ {0}
  BY SizeAssumption
<1>2. /\ Span(1) = Fanout * Fanout * Fanout /\ Span(2) = Fanout * Fanout
      /\ Span(3) = Fanout /\ Span(4) = 1
  BY DEF Span
<1>3. Fanout * Fanout \in Nat \ {0}
  BY <1>1
<1>4. Fanout * Fanout * Fanout \in Nat \ {0}
  BY <1>1, <1>3
<1>5. \A level \in 1 .. 4 : level = 1 \/ level = 2 \/ level = 3 \/ level = 4
  OBVIOUS
<1>6. \A level \in 1 .. 3 : level = 1 \/ level = 2 \/ level = 3
  OBVIOUS
<1>7. 1 * Fanout = Fanout
  BY <1>1
<1> QED BY <1>1, <1>2, <1>3, <1>4, <1>5, <1>6, <1>7

LEMMA PartIs ==
  ASSUME NEW v \in Virt
  PROVE  /\ \A level \in 1 .. 4 : Part(v, level) \in Nat /\ Index(v, level) \in 0 .. Fanout - 1
         /\ Part(v, 1) = Index(v, 1) /\ Part(v, 4) = v
         /\ \A level \in 2 .. 4 :
              Part(v, level) = Fanout * Part(v, level - 1) + Index(v, level)
<1>1. v \in Nat /\ v < Fanout * Fanout * Fanout * Fanout /\ Fanout \in Nat \ {0}
  BY Spans DEF Virt
<1>2. ASSUME NEW level \in 1 .. 4
      PROVE  Part(v, level) \in Nat /\ Index(v, level) \in 0 .. Fanout - 1
  <2>1. Span(level) \in Nat \ {0}
    BY Spans
  <2>2. v \div Span(level) \in Nat
    BY <1>1, <2>1, DivIs
  <2>3. (v \div Span(level)) % Fanout \in 0 .. Fanout - 1
    BY <1>1, <2>2, DivIs
  <2> QED BY <2>2, <2>3 DEF Part, Index
<1>3. ASSUME NEW level \in 2 .. 4
      PROVE  Part(v, level) = Fanout * Part(v, level - 1) + Index(v, level)
  <2>1. level - 1 \in 1 .. 3 /\ (level - 1) + 1 = level /\ level \in 1 .. 4
    OBVIOUS
  <2>2. Span(level) \in Nat \ {0} /\ Span(level - 1) = Span(level) * Fanout
    BY <2>1, Spans
  <2>3. (v \div Span(level)) \div Fanout = v \div Span(level - 1)
    BY <1>1, <2>2, DivDiv
  <2>4. v \div Span(level) \in Nat
    BY <1>1, <2>2, DivIs
  <2>5. v \div Span(level) = Fanout * ((v \div Span(level)) \div Fanout)
                               + ((v \div Span(level)) % Fanout)
    BY <1>1, <2>4, DivIs
  <2> QED BY <2>3, <2>5 DEF Part, Index
<1>4. Part(v, 4) = v
  <2>1. v \div 1 = v
    BY <1>1
  <2> QED BY <2>1, Spans DEF Part
<1>5. Part(v, 1) = Index(v, 1)
  <2>1. Span(1) \in Nat \ {0} /\ Span(1) * Fanout = Fanout * Fanout * Fanout * Fanout
    BY Spans
  <2> DEFINE q == v \div Span(1)
             P == Span(1) * Fanout
  <2>2. P \in Nat \ {0} /\ q \div Fanout = v \div P
    BY <1>1, <2>1, DivDiv
  <2>3. v \div P = 0
    <3>1. v < P /\ v \in Nat /\ P \in Nat \ {0}
      BY <1>1, <2>1, <2>2
    <3> HIDE DEF P
    <3>2. v \div P \in Nat /\ v % P \in 0 .. P - 1 /\ v = P * (v \div P) + (v % P)
      BY <3>1, DivIs
    <3>3. v \in 0 .. P - 1 /\ P * 0 + v = v
      BY <3>1
    <3> QED BY <3>1, <3>2, <3>3, QuotientUnique
  <2>4. q \in Nat
    BY <1>1, <2>1, DivIs
  <2>6. q \div Fanout = 0
    BY <2>2, <2>3
  <2> HIDE DEF q, P
  <2>5. q = Fanout * (q \div Fanout) + (q % Fanout) /\ q % Fanout \in Nat
    BY <1>1, <2>4, DivIs
  <2>7. q = q % Fanout
    <3>1. Fanout * 0 = 0
      BY <1>1
    <3> QED BY <2>5, <2>6, <3>1
  <2> QED BY <2>7 DEF q, Part, Index
<1> QED BY <1>2, <1>3, <1>4, <1>5

\* Addresses v and w are translated by the same table of the given level.
Together(v, w, level) == \A k \in 1 .. level - 1 : Index(v, k) = Index(w, k)

LEMMA TogetherNext ==
  ASSUME NEW v, NEW w, NEW level \in 1 .. 4
  PROVE  /\ Together(v, w, 1)
         /\ Together(v, w, level + 1) <=>
              Together(v, w, level) /\ Index(v, level) = Index(w, level)
<1>1. \A k : k \in 1 .. (level + 1) - 1 <=> k \in 1 .. level - 1 \/ k = level
  OBVIOUS
<1>2. \A k : k \notin 1 .. 1 - 1
  OBVIOUS
<1> QED BY <1>1, <1>2 DEF Together

LEMMA TogetherIs ==
  ASSUME NEW v \in Virt, NEW w \in Virt
  PROVE  /\ \A level \in 1 .. 4 : Together(v, w, level + 1) <=> Part(v, level) = Part(w, level)
         /\ Together(v, w, 5) <=> v = w
<1> DEFINE Agree(level) == Together(v, w, level + 1) <=> Part(v, level) = Part(w, level)
<1>1. Agree(1)
  <2>1. Together(v, w, 1 + 1) <=> Index(v, 1) = Index(w, 1)
    BY TogetherNext
  <2> QED BY <2>1, PartIs
<1>2. ASSUME NEW level \in 2 .. 4, Agree(level - 1)
      PROVE  Agree(level)
  <2>1. /\ level \in 1 .. 4 /\ level - 1 \in 1 .. 4 /\ (level - 1) + 1 = level
    OBVIOUS
  <2> DEFINE p == Part(v, level - 1)
             q == Part(w, level - 1)
             i == Index(v, level)
             j == Index(w, level)
  <2>2. /\ p \in Nat /\ q \in Nat /\ i \in 0 .. Fanout - 1 /\ j \in 0 .. Fanout - 1
        /\ Part(v, level) = Fanout * p + i /\ Part(w, level) = Fanout * q + j
    BY <2>1, PartIs
  <2>3. Together(v, w, level) <=> p = q
    BY <1>2, <2>1
  <2>4. Together(v, w, level + 1) <=> Together(v, w, level) /\ i = j
    BY <2>1, TogetherNext
  <2> HIDE DEF p, q, i, j
  <2>5. Fanout * p + i = Fanout * q + j <=> p = q /\ i = j
    BY <2>2, Spans, QuotientUnique
  <2> QED BY <2>2, <2>3, <2>4, <2>5
<1> HIDE DEF Agree
<1>3. Agree(2) /\ Agree(3) /\ Agree(4)
  <2>1. Agree(2)
    BY <1>1, <1>2
  <2>2. Agree(3)
    BY <1>2, <2>1
  <2> QED BY <1>2, <2>1, <2>2
<1>4. \A level \in 1 .. 4 : Agree(level)
  <2>1. \A level \in 1 .. 4 : level = 1 \/ level = 2 \/ level = 3 \/ level = 4
    OBVIOUS
  <2> QED BY <1>1, <1>3, <2>1
<1>5. Together(v, w, 4 + 1) <=> v = w
  BY <1>4, PartIs DEF Agree
<1> QED BY <1>4, <1>5 DEF Agree

-----------------------------------------------------------------------------
(***************************************************************************)
(* Walks.                                                                  *)
(***************************************************************************)
\* What is found at the given level on the way to v: a table, and at last the
\* physical page.
Found(t, v, level) == IF level = 5 THEN Walk(t, v) ELSE TableFor(t, v, level)

LEMMA FoundIs ==
  ASSUME NEW t, NEW v
  PROVE  /\ Found(t, v, 1) = Root
         /\ \A level \in 1 .. 4 :
              /\ Found(t, v, level + 1) = Entry(t, Found(t, v, level), v, level)
              /\ Found(t, v, level) = TableFor(t, v, level)
         /\ Found(t, v, 5) = Walk(t, v)
<1> DEFINE pdpt == Entry(t, Root, v, 1)
           pd == Entry(t, pdpt, v, 2)
           pt == Entry(t, pd, v, 3)
<1>1. /\ TableFor(t, v, 1) = Root /\ TableFor(t, v, 2) = pdpt
      /\ TableFor(t, v, 3) = pd /\ TableFor(t, v, 4) = pt
  BY DEF TableFor
<1>2. Walk(t, v) = Entry(t, pt, v, 4)
  BY <1>1 DEF Walk
<1> HIDE DEF pdpt, pd, pt
<1>3. /\ Found(t, v, 1) = Root /\ Found(t, v, 2) = pdpt /\ Found(t, v, 3) = pd
      /\ Found(t, v, 4) = pt /\ Found(t, v, 5) = Entry(t, pt, v, 4)
  BY <1>1, <1>2 DEF Found
<1>4. ASSUME NEW level \in 1 .. 4
      PROVE  /\ Found(t, v, level + 1) = Entry(t, Found(t, v, level), v, level)
             /\ Found(t, v, level) = TableFor(t, v, level)
  <2>1. level = 1 \/ level = 2 \/ level = 3 \/ level = 4
    OBVIOUS
  <2>2. Found(t, v, level + 1) = Entry(t, Found(t, v, level), v, level)
    <3>1. CASE level = 1
      <4>1. Found(t, v, 1 + 1) = Entry(t, Found(t, v, 1), v, 1)
        BY <1>3 DEF pdpt
      <4> QED BY <3>1, <4>1
    <3>2. CASE level = 2
      <4>1. Found(t, v, 2 + 1) = Entry(t, Found(t, v, 2), v, 2)
        BY <1>3 DEF pd
      <4> QED BY <3>2, <4>1
    <3>3. CASE level = 3
      <4>1. Found(t, v, 3 + 1) = Entry(t, Found(t, v, 3), v, 3)
        BY <1>3 DEF pt
      <4> QED BY <3>3, <4>1
    <3>4. CASE level = 4
      <4>1. Found(t, v, 4 + 1) = Entry(t, Found(t, v, 4), v, 4)
        BY <1>3
      <4> QED BY <3>4, <4>1
    <3> QED BY <2>1, <3>1, <3>2, <3>3, <3>4
  <2>3. level # 5
    OBVIOUS
  <2> QED BY <2>2, <2>3 DEF Found
<1> QED BY <1>2, <1>3, <1>4

\* Nothing lies beyond a missing table.
LEMMA NothingBeyond ==
  ASSUME NEW t, NEW v, NEW k \in 1 .. 5, Found(t, v, k) = 0, NEW l \in k .. 5
  PROVE  Found(t, v, l) = 0
<1>1. ASSUME NEW i \in 1 .. 4, Found(t, v, i) = 0
      PROVE  Found(t, v, i + 1) = 0
  BY <1>1, FoundIs DEF Entry
<1>2. /\ Found(t, v, 1) = 0 => Found(t, v, 2) = 0
      /\ Found(t, v, 2) = 0 => Found(t, v, 3) = 0
      /\ Found(t, v, 3) = 0 => Found(t, v, 4) = 0
      /\ Found(t, v, 4) = 0 => Found(t, v, 5) = 0
  <2>1. 1 + 1 = 2 /\ 2 + 1 = 3 /\ 3 + 1 = 4 /\ 4 + 1 = 5
    OBVIOUS
  <2> QED BY <1>1, <2>1
<1>3. /\ k = 1 \/ k = 2 \/ k = 3 \/ k = 4 \/ k = 5
      /\ l = 1 \/ l = 2 \/ l = 3 \/ l = 4 \/ l = 5
      /\ k <= l
  OBVIOUS
<1> QED BY <1>2, <1>3

\* Addresses that agree in their first indices find the same.
LEMMA SameTable ==
  ASSUME NEW t, NEW v, NEW w, NEW k \in 1 .. 5, Together(v, w, k)
  PROVE  Found(t, v, k) = Found(t, w, k)
<1> DEFINE Same(l) == Together(v, w, l) => Found(t, v, l) = Found(t, w, l)
<1>1. Same(1)
  BY FoundIs
<1>2. ASSUME NEW l \in 1 .. 4, Same(l)
      PROVE  Same(l + 1)
  BY <1>2, FoundIs, TogetherNext DEF Entry
<1> HIDE DEF Same
<1>3. Same(2) /\ Same(3) /\ Same(4) /\ Same(5)
  <2>1. Same(2)
    BY <1>1, <1>2
  <2>2. Same(3)
    BY <1>2, <2>1
  <2>3. Same(4)
    BY <1>2, <2>2
  <2> QED BY <1>2, <2>1, <2>2, <2>3
<1>4. k = 1 \/ k = 2 \/ k = 3 \/ k = 4 \/ k = 5
  OBVIOUS
<1> QED BY <1>1, <1>3, <1>4 DEF Same

-----------------------------------------------------------------------------
(***************************************************************************)
(* The tree: every table is free or found, never both, and found at one    *)
(* place only.                                                             *)
(***************************************************************************)
Table == [0 .. Fanout - 1 -> Nat]

Shape(t, F) ==
  /\ t \in [Tables -> Table] /\ F \subseteq Tables \ {Root}
  /\ \A v \in Virt, k \in 1 .. 4 : Found(t, v, k) # 0 => Found(t, v, k) \in Tables \ F
  /\ \A v, w \in Virt, k, l \in 1 .. 4 :
       Found(t, v, k) = Found(t, w, l) /\ Found(t, v, k) # 0 => k = l /\ Together(v, w, k)
  /\ \A x \in Tables \ F : \E v \in Virt, k \in 1 .. 4 : Found(t, v, k) = x

\* No table is empty but, perhaps, a.
FullBut(t, a) ==
  \A v \in Virt, k \in 1 .. 4 : Found(t, v, k) \notin {0, a} => t[Found(t, v, k)] # EmptyTable

LEMMA TablesAre ==
  /\ Root \in Tables /\ 0 \notin Tables /\ IsFiniteSet(Tables)
  /\ EmptyTable \in Table
  /\ \A v \in Virt, k \in 1 .. 4 : Index(v, k) \in 0 .. Fanout - 1 /\ EmptyTable[Index(v, k)] = 0
<1>1. NumTables \in Nat \ {0}
  BY SizeAssumption
<1>2. Root \in Tables /\ 0 \notin Tables /\ IsFiniteSet(Tables)
  BY <1>1, FS_Interval DEF Root, Tables
<1>3. EmptyTable \in Table
  BY DEF EmptyTable, Table
<1>4. \A v \in Virt, k \in 1 .. 4 : Index(v, k) \in 0 .. Fanout - 1
  BY PartIs
<1> QED BY <1>2, <1>3, <1>4 DEF EmptyTable

\* u has e where t has another entry, in entry i of table at, or at a free table.
Replaces(u, t, F, at, i, e) ==
  /\ \A x \in Tables \ F : x # at => u[x] = t[x]
  /\ u[at][i] = e
  /\ \A j \in 0 .. Fanout - 1 : j # i => u[at][j] = t[at][j]

\* Writing one entry changes only what is found through it.
LEMMA Replaced ==
  ASSUME NEW t, NEW F, Shape(t, F), NEW v \in Virt, NEW l \in 1 .. 4,
         NEW at, at = Found(t, v, l), at # 0,
         NEW u, NEW e, Replaces(u, t, F, at, Index(v, l), e),
         NEW w \in Virt
  PROVE  /\ \A k \in 1 .. 5 : k <= l \/ ~Together(v, w, l + 1) => Found(u, w, k) = Found(t, w, k)
         /\ Together(v, w, l + 1) => Found(u, w, l + 1) = e
<1> DEFINE Kept(k) == k <= l \/ ~Together(v, w, l + 1) => Found(u, w, k) = Found(t, w, k)
<1>1. Kept(1)
  BY FoundIs
<1>2. ASSUME NEW k \in 1 .. 4, Kept(k)
      PROVE  Kept(k + 1)
  <2> SUFFICES ASSUME k + 1 <= l \/ ~Together(v, w, l + 1)
               PROVE  Found(u, w, k + 1) = Found(t, w, k + 1)
    OBVIOUS
  <2> DEFINE x == Found(t, w, k)
  <2>1. Found(u, w, k) = x
    BY <1>2
  <2>2. /\ Found(u, w, k + 1) = Entry(u, x, w, k)
        /\ Found(t, w, k + 1) = Entry(t, x, w, k)
    BY <2>1, FoundIs
  <2>3. CASE x = 0
    BY <2>2, <2>3 DEF Entry
  <2>4. CASE x # 0 /\ x # at
    <3>1. x \in Tables \ F
      BY <2>4 DEF Shape
    <3> QED BY <2>2, <2>4, <3>1 DEF Entry, Replaces
  <2>5. CASE x = at
    <3>1. k = l /\ Together(v, w, l)
      BY <2>5 DEF Shape
    <3>2. Index(w, k) # Index(v, l)
      BY <3>1, TogetherNext
    <3>3. Index(w, k) \in 0 .. Fanout - 1
      BY TablesAre
    <3>4. u[at][Index(w, k)] = t[at][Index(w, k)]
      BY <3>2, <3>3 DEF Replaces
    <3> QED BY <2>2, <2>5, <3>4 DEF Entry
  <2> QED BY <2>3, <2>4, <2>5
<1> HIDE DEF Kept
<1>3. \A k \in 1 .. 5 : Kept(k)
  <2>1. Kept(2)
    BY <1>1, <1>2
  <2>2. Kept(3)
    BY <1>2, <2>1
  <2>3. Kept(4)
    BY <1>2, <2>2
  <2>4. Kept(5)
    BY <1>2, <2>3
  <2>5. \A k \in 1 .. 5 : k = 1 \/ k = 2 \/ k = 3 \/ k = 4 \/ k = 5
    OBVIOUS
  <2> QED BY <1>1, <2>1, <2>2, <2>3, <2>4, <2>5
<1>4. ASSUME Together(v, w, l + 1)
      PROVE  Found(u, w, l + 1) = e
  <2>1. Together(v, w, l) /\ Index(v, l) = Index(w, l)
    BY <1>4, TogetherNext
  <2>2. Found(t, w, l) = at /\ l \in 1 .. 5
    BY <2>1, SameTable
  <2>3. Found(u, w, l) = at
    BY <1>3, <2>2 DEF Kept
  <2> QED BY <2>1, <2>3, FoundIs DEF Entry, Replaces
<1> QED BY <1>3, <1>4 DEF Kept

\* A new, empty table at the place of a missing one.
WithTable(t, at, i, page) == [[t EXCEPT ![page] = EmptyTable] EXCEPT ![at][i] = page]

Grows(u, t, F, at, page, v, l) ==
  /\ Shape(t, F) /\ at = Found(t, v, l) /\ at # 0 /\ Found(t, v, l + 1) = 0
  /\ page \in F /\ u = WithTable(t, at, Index(v, l), page)

LEMMA Grown ==
  ASSUME NEW t, NEW F, NEW v \in Virt, NEW l \in 1 .. 3, NEW at, NEW page, NEW u,
         Grows(u, t, F, at, page, v, l)
  PROVE  /\ \A w \in Virt, k \in 1 .. 5 :
              Found(u, w, k) = IF k = l + 1 /\ Together(v, w, k) THEN page ELSE Found(t, w, k)
         /\ Shape(u, F \ {page})
         /\ FullBut(t, at) => FullBut(u, page)
<1> USE DEF Grows
<1>1. /\ t \in [Tables -> Table] /\ F \subseteq Tables \ {Root}
      /\ l \in 1 .. 4 /\ l + 1 \in 1 .. 4 /\ l + 1 \in 1 .. 5
  BY DEF Shape
<1>2. at \in Tables \ F /\ page \in Tables /\ page # at /\ page # 0
  BY <1>1, TablesAre DEF Shape
<1>3. Index(v, l) \in 0 .. Fanout - 1
  BY <1>1, TablesAre
<1>4. /\ u \in [Tables -> Table]
      /\ \A x \in Tables : x # at /\ x # page => u[x] = t[x]
      /\ u[page] = EmptyTable /\ u[at][Index(v, l)] = page
      /\ \A i \in 0 .. Fanout - 1 : i # Index(v, l) => u[at][i] = t[at][i]
  <2>1. page \in Nat
    BY <1>2 DEF Tables
  <2>2. EmptyTable \in Table
    BY TablesAre
  <2> QED BY <1>1, <1>2, <1>3, <2>1, <2>2 DEF Table, WithTable
<1>5. ASSUME NEW w \in Virt, NEW k \in 1 .. 5
      PROVE  Found(u, w, k) = IF k = l + 1 /\ Together(v, w, k) THEN page ELSE Found(t, w, k)
  <2>0. Replaces(u, t, F, at, Index(v, l), page)
    BY <1>4 DEF Replaces
  <2>1. /\ \A j \in 1 .. 5 : j <= l \/ ~Together(v, w, l + 1) => Found(u, w, j) = Found(t, w, j)
        /\ Together(v, w, l + 1) => Found(u, w, l + 1) = page
    BY <1>1, <2>0, Replaced
  <2>2. CASE k <= l \/ ~Together(v, w, l + 1)
    BY <2>1, <2>2
  <2>3. CASE k = l + 1 /\ Together(v, w, l + 1)
    BY <2>1, <2>3
  <2>4. CASE k > l + 1 /\ Together(v, w, l + 1)
    <3>1. Found(t, w, l + 1) = 0
      BY <1>1, <2>4, SameTable
    <3>2. Found(t, w, k) = 0
      BY <1>1, <2>4, <3>1, NothingBeyond
    <3>3. Found(u, w, (l + 1) + 1) = Entry(u, page, w, l + 1)
      BY <1>1, <2>1, <2>4, FoundIs
    <3>4. Found(u, w, (l + 1) + 1) = 0
      BY <1>1, <1>4, <3>3, TablesAre DEF Entry
    <3>5. (l + 1) + 1 \in 1 .. 5 /\ k \in (l + 1) + 1 .. 5
      BY <2>4
    <3>6. Found(u, w, k) = 0
      BY <3>4, <3>5, NothingBeyond
    <3> QED BY <2>4, <3>2, <3>6
  <2> QED BY <2>2, <2>3, <2>4
<1>6. /\ \A w \in Virt, k \in 1 .. 4 : k \in 1 .. 5
      /\ \A w \in Virt : Together(v, w, l + 1) => Found(t, w, l + 1) = 0
  BY <1>1, SameTable
<1>7. F \ {page} \subseteq Tables \ {Root}
  BY <1>1
<1>8. ASSUME NEW w \in Virt, NEW k \in 1 .. 4, Found(u, w, k) # 0
      PROVE  Found(u, w, k) \in Tables \ (F \ {page})
  <2>1. Found(u, w, k) = page \/ Found(u, w, k) = Found(t, w, k)
    BY <1>5, <1>6
  <2>2. Found(t, w, k) # 0 => Found(t, w, k) \in Tables \ F
    BY DEF Shape
  <2> QED BY <1>2, <1>8, <2>1, <2>2
<1>9. ASSUME NEW w \in Virt, NEW z \in Virt, NEW k \in 1 .. 4, NEW j \in 1 .. 4,
             Found(u, w, k) = Found(u, z, j), Found(u, w, k) # 0
      PROVE  k = j /\ Together(w, z, k)
  <2>1. \A y \in Virt, i \in 1 .. 4 : Found(t, y, i) # page
    BY <1>2 DEF Shape
  <2>2. CASE Found(u, w, k) = page
    <3>1. \A y \in Virt, i \in 1 .. 4 :
            Found(u, y, i) = page => i = l + 1 /\ Together(v, y, i)
      BY <1>5, <1>6, <2>1
    <3>2. k = l + 1 /\ Together(v, w, k) /\ j = l + 1 /\ Together(v, z, j)
      BY <1>9, <2>2, <3>1
    <3> QED BY <3>2 DEF Together
  <2>3. CASE Found(u, w, k) # page
    <3>1. Found(u, w, k) = Found(t, w, k) /\ Found(u, z, j) = Found(t, z, j)
      BY <1>5, <1>6, <1>9, <2>3
    <3> QED BY <1>9, <3>1 DEF Shape
  <2> QED BY <2>2, <2>3
<1>10. ASSUME NEW x \in Tables \ (F \ {page})
       PROVE  \E w \in Virt, k \in 1 .. 4 : Found(u, w, k) = x
  <2>1. CASE x = page
    <3>1. Together(v, v, l + 1)
      BY DEF Together
    <3>2. Found(u, v, l + 1) = page
      BY <1>1, <1>5, <3>1
    <3> QED BY <1>1, <2>1, <3>2
  <2>2. CASE x # page
    <3>1. x # 0
      BY TablesAre
    <3>2. PICK w \in Virt, k \in 1 .. 4 : Found(t, w, k) = x
      BY <2>2 DEF Shape
    <3>3. Found(u, w, k) = x
      BY <1>5, <1>6, <3>1, <3>2
    <3> QED BY <3>3
  <2> QED BY <2>1, <2>2
<1>11. Shape(u, F \ {page})
  BY <1>4, <1>7, <1>8, <1>9, <1>10 DEF Shape
<1>12. ASSUME FullBut(t, at)
       PROVE  FullBut(u, page)
  <2> SUFFICES ASSUME NEW w \in Virt, NEW k \in 1 .. 4, Found(u, w, k) \notin {0, page}
               PROVE  u[Found(u, w, k)] # EmptyTable
    BY DEF FullBut
  <2> DEFINE x == Found(t, w, k)
  <2>1. Found(u, w, k) = x /\ x \notin {0, page}
    BY <1>5, <1>6
  <2>2. CASE x = at
    <3>1. EmptyTable[Index(v, l)] = 0
      BY <1>1, TablesAre
    <3> QED BY <1>2, <1>4, <2>1, <2>2, <3>1
  <2>3. CASE x # at
    <3>1. t[x] # EmptyTable
      BY <1>12, <2>1, <2>3 DEF FullBut
    <3>2. x \in Tables
      BY <2>1 DEF Shape
    <3> QED BY <1>4, <2>1, <2>3, <3>1, <3>2
  <2> QED BY <2>2, <2>3
<1> QED BY <1>5, <1>11, <1>12

\* An entry of a last table: a physical page, or none.
LEMMA Put ==
  ASSUME NEW t, NEW F, Shape(t, F), NEW v \in Virt,
         NEW at, at = Found(t, v, 4), at # 0,
         NEW p \in Nat, NEW u, u = [t EXCEPT ![at][Index(v, 4)] = p]
  PROVE  /\ \A w \in Virt, k \in 1 .. 4 : Found(u, w, k) = Found(t, w, k)
         /\ \A w \in Virt : Walk(u, w) = IF w = v THEN p ELSE Walk(t, w)
         /\ Shape(u, F)
         /\ FullBut(t, at) /\ p # 0 => FullBut(u, 0)
         /\ FullBut(t, 0) => FullBut(u, at)
<1>1. /\ t \in [Tables -> Table] /\ F \subseteq Tables \ {Root}
      /\ at \in Tables \ F /\ Index(v, 4) \in 0 .. Fanout - 1
  BY TablesAre DEF Shape
<1>2. /\ u \in [Tables -> Table]
      /\ \A x \in Tables : x # at => u[x] = t[x]
      /\ u[at][Index(v, 4)] = p
      /\ \A i \in 0 .. Fanout - 1 : i # Index(v, 4) => u[at][i] = t[at][i]
  BY <1>1 DEF Table
<1>3. Replaces(u, t, F, at, Index(v, 4), p)
  BY <1>2 DEF Replaces
<1>4. ASSUME NEW w \in Virt
      PROVE  /\ \A k \in 1 .. 5 : k <= 4 \/ ~Together(v, w, 4 + 1) => Found(u, w, k) = Found(t, w, k)
             /\ Together(v, w, 4 + 1) => Found(u, w, 4 + 1) = p
  BY <1>3, Replaced
<1>5. \A w \in Virt, k \in 1 .. 4 : Found(u, w, k) = Found(t, w, k)
  <2>1. \A k \in 1 .. 4 : k \in 1 .. 5 /\ k <= 4
    OBVIOUS
  <2> QED BY <1>4, <2>1
<1>6. ASSUME NEW w \in Virt
      PROVE  Walk(u, w) = IF w = v THEN p ELSE Walk(t, w)
  <2>1. Found(u, w, 5) = Walk(u, w) /\ Found(t, w, 5) = Walk(t, w)
    BY FoundIs
  <2>2. Together(v, w, 5) <=> v = w
    BY TogetherIs
  <2>3. 4 + 1 = 5 /\ 5 \in 1 .. 5
    OBVIOUS
  <2> QED BY <1>4, <2>1, <2>2, <2>3
<1>7. Shape(u, F)
  <2>1. ASSUME NEW w \in Virt, NEW k \in 1 .. 4, Found(u, w, k) # 0
        PROVE  Found(u, w, k) \in Tables \ F
    <3>1. Found(u, w, k) = Found(t, w, k)
      BY <1>5
    <3> QED BY <2>1, <3>1 DEF Shape
  <2>2. ASSUME NEW w \in Virt, NEW z \in Virt, NEW k \in 1 .. 4, NEW j \in 1 .. 4,
               Found(u, w, k) = Found(u, z, j), Found(u, w, k) # 0
        PROVE  k = j /\ Together(w, z, k)
    <3>1. Found(t, w, k) = Found(t, z, j) /\ Found(t, w, k) # 0
      BY <1>5, <2>2
    <3> QED BY <3>1 DEF Shape
  <2>3. ASSUME NEW x \in Tables \ F
        PROVE  \E w \in Virt, k \in 1 .. 4 : Found(u, w, k) = x
    <3>1. PICK w \in Virt, k \in 1 .. 4 : Found(t, w, k) = x
      BY DEF Shape
    <3> QED BY <1>5, <3>1
  <2> QED BY <1>1, <1>2, <2>1, <2>2, <2>3 DEF Shape
<1>8. \A x \in Tables : t[x] # EmptyTable /\ x # at => u[x] # EmptyTable
  BY <1>2
<1>9. \A w \in Virt, k \in 1 .. 4 : Found(u, w, k) # 0 => Found(u, w, k) \in Tables
  BY <1>7 DEF Shape
<1>10. ASSUME FullBut(t, 0)
       PROVE  FullBut(u, at)
  <2>1. ASSUME NEW w \in Virt, NEW k \in 1 .. 4, Found(u, w, k) \notin {0, at}
        PROVE  u[Found(u, w, k)] # EmptyTable
    <3>1. Found(u, w, k) = Found(t, w, k) /\ Found(u, w, k) \in Tables
      BY <1>5, <1>9, <2>1
    <3>2. t[Found(t, w, k)] # EmptyTable
      BY <1>10, <2>1, <3>1 DEF FullBut
    <3> QED BY <1>8, <2>1, <3>1, <3>2
  <2> QED BY <2>1 DEF FullBut
<1>11. p # 0 => u[at] # EmptyTable
  <2>1. EmptyTable[Index(v, 4)] = 0
    BY TablesAre
  <2> QED BY <1>2, <2>1
<1>12. ASSUME FullBut(t, at), p # 0
       PROVE  FullBut(u, 0)
  <2>1. ASSUME NEW w \in Virt, NEW k \in 1 .. 4, Found(u, w, k) # 0
        PROVE  u[Found(u, w, k)] # EmptyTable
    <3>1. Found(u, w, k) = Found(t, w, k) /\ Found(u, w, k) \in Tables
      BY <1>5, <1>9, <2>1
    <3>2. CASE Found(t, w, k) # at
      <4>1. t[Found(t, w, k)] # EmptyTable
        BY <1>12, <2>1, <3>1, <3>2 DEF FullBut
      <4> QED BY <1>8, <3>1, <3>2, <4>1
    <3>3. CASE Found(t, w, k) = at
      BY <1>11, <1>12, <3>1, <3>3
    <3> QED BY <3>2, <3>3
  <2> QED BY <2>1 DEF FullBut
<1> QED BY <1>5, <1>6, <1>7, <1>10, <1>12

\* An empty table is unlinked.
Without(t, at, i) == [t EXCEPT ![at][i] = 0]

Prunes(u, t, F, at, child, v, l) ==
  /\ Shape(t, F) /\ at = Found(t, v, l) /\ child = Found(t, v, l + 1)
  /\ child # 0 /\ t[child] = EmptyTable
  /\ u = Without(t, at, Index(v, l))

LEMMA Pruned ==
  ASSUME NEW t, NEW F, NEW v \in Virt, NEW l \in 1 .. 3, NEW at, NEW child, NEW u,
         Prunes(u, t, F, at, child, v, l)
  PROVE  /\ \A w \in Virt, k \in 1 .. 5 :
              Found(u, w, k) = IF k = l + 1 /\ Together(v, w, k) THEN 0 ELSE Found(t, w, k)
         /\ Shape(u, F \cup {child})
         /\ FullBut(t, child) => FullBut(u, at)
<1> USE DEF Prunes
<1>1. /\ t \in [Tables -> Table] /\ F \subseteq Tables \ {Root}
      /\ l \in 1 .. 4 /\ l \in 1 .. 5 /\ l + 1 \in 1 .. 4 /\ l + 1 \in 1 .. 5 /\ l + 1 \in l .. 5
  BY DEF Shape
<1>2. at # 0
  BY <1>1, NothingBeyond
<1>3. at \in Tables \ F /\ child \in Tables \ F
  BY <1>1, <1>2 DEF Shape
<1>4. child # Root
  <2>1. Found(t, v, 1) = Root /\ 1 \in 1 .. 4 /\ l + 1 # 1
    BY FoundIs
  <2> QED BY <1>1, <2>1 DEF Shape
<1>5. Index(v, l) \in 0 .. Fanout - 1 /\ 0 \in Nat
  BY <1>1, TablesAre
<1>6. /\ u \in [Tables -> Table]
      /\ \A x \in Tables : x # at => u[x] = t[x]
      /\ u[at][Index(v, l)] = 0
      /\ \A i \in 0 .. Fanout - 1 : i # Index(v, l) => u[at][i] = t[at][i]
  BY <1>1, <1>3, <1>5 DEF Table, Without
<1>7. Replaces(u, t, F, at, Index(v, l), 0)
  BY <1>6 DEF Replaces
<1>8. ASSUME NEW w \in Virt, NEW k \in 1 .. 5
      PROVE  Found(u, w, k) = IF k = l + 1 /\ Together(v, w, k) THEN 0 ELSE Found(t, w, k)
  <2>1. /\ \A j \in 1 .. 5 : j <= l \/ ~Together(v, w, l + 1) => Found(u, w, j) = Found(t, w, j)
        /\ Together(v, w, l + 1) => Found(u, w, l + 1) = 0
    BY <1>1, <1>2, <1>7, Replaced
  <2>2. CASE k <= l \/ ~Together(v, w, l + 1)
    BY <2>1, <2>2
  <2>3. CASE k = l + 1 /\ Together(v, w, l + 1)
    BY <2>1, <2>3
  <2>4. CASE k > l + 1 /\ Together(v, w, l + 1)
    <3>1. Found(t, w, l + 1) = child
      BY <1>1, <2>4, SameTable
    <3>2. Found(t, w, (l + 1) + 1) = Entry(t, child, w, l + 1)
      BY <1>1, <3>1, FoundIs
    <3>3. Found(t, w, (l + 1) + 1) = 0
      BY <1>1, <3>2, TablesAre DEF Entry
    <3>4. (l + 1) + 1 \in 1 .. 5 /\ k \in (l + 1) + 1 .. 5 /\ k \in l + 1 .. 5
      BY <2>4
    <3>5. Found(t, w, k) = 0
      BY <3>3, <3>4, NothingBeyond
    <3>6. Found(u, w, k) = 0
      BY <1>1, <2>1, <2>4, <3>4, NothingBeyond
    <3> QED BY <2>4, <3>5, <3>6
  <2> QED BY <2>2, <2>3, <2>4
<1>9. \A k \in 1 .. 4 : k \in 1 .. 5
  OBVIOUS
<1>10. ASSUME NEW w \in Virt, NEW k \in 1 .. 4, Found(u, w, k) # 0
       PROVE  Found(u, w, k) = Found(t, w, k) /\ Found(u, w, k) \in Tables \ (F \cup {child})
  <2>1. Found(u, w, k) = Found(t, w, k) /\ ~(k = l + 1 /\ Together(v, w, k))
    BY <1>8, <1>9, <1>10
  <2>2. Found(t, w, k) \in Tables \ F
    BY <1>10, <2>1 DEF Shape
  <2>3. Found(t, w, k) # child
    <3>1. CASE Found(t, w, k) = child
      <4>1. l + 1 = k /\ Together(v, w, l + 1)
        BY <1>1, <3>1 DEF Shape
      <4> QED BY <2>1, <4>1
    <3> QED BY <3>1
  <2> QED BY <2>1, <2>2, <2>3
<1>11. F \cup {child} \subseteq Tables \ {Root}
  BY <1>1, <1>3, <1>4
<1>12. ASSUME NEW w \in Virt, NEW z \in Virt, NEW k \in 1 .. 4, NEW j \in 1 .. 4,
              Found(u, w, k) = Found(u, z, j), Found(u, w, k) # 0
       PROVE  k = j /\ Together(w, z, k)
  <2>1. Found(u, w, k) = Found(t, w, k) /\ Found(u, z, j) = Found(t, z, j)
    BY <1>10, <1>12
  <2> QED BY <1>12, <2>1 DEF Shape
<1>13. ASSUME NEW x \in Tables \ (F \cup {child})
       PROVE  \E w \in Virt, k \in 1 .. 4 : Found(u, w, k) = x
  <2>1. PICK w \in Virt, k \in 1 .. 4 : Found(t, w, k) = x
    BY DEF Shape
  <2>2. ~(k = l + 1 /\ Together(v, w, k))
    <3>1. CASE k = l + 1 /\ Together(v, w, k)
      <4>1. Found(t, w, l + 1) = child
        BY <1>1, <3>1, SameTable
      <4> QED BY <2>1, <3>1, <4>1
    <3> QED BY <3>1
  <2>3. Found(u, w, k) = x
    BY <1>8, <1>9, <2>1, <2>2
  <2> QED BY <2>3
<1>14. Shape(u, F \cup {child})
  BY <1>6, <1>10, <1>11, <1>12, <1>13 DEF Shape
<1>15. ASSUME FullBut(t, child)
       PROVE  FullBut(u, at)
  <2> SUFFICES ASSUME NEW w \in Virt, NEW k \in 1 .. 4, Found(u, w, k) \notin {0, at}
               PROVE  u[Found(u, w, k)] # EmptyTable
    BY DEF FullBut
  <2>1. Found(u, w, k) = Found(t, w, k) /\ Found(u, w, k) \in Tables \ (F \cup {child})
    BY <1>10
  <2>2. t[Found(t, w, k)] # EmptyTable
    BY <1>15, <2>1 DEF FullBut
  <2> QED BY <1>6, <2>1, <2>2
<1> QED BY <1>8, <1>14, <1>15

-----------------------------------------------------------------------------
(***************************************************************************)
(* What mapping one page does.                                             *)
(***************************************************************************)
Status == {"ok", "ENOMEM", "EINVAL", "fault", "assert"}
Sound(m) ==
  /\ m \in [tables : [Tables -> Table], free : SUBSET Tables, status : Status]
  /\ Shape(m.tables, m.free)

\* What the region r lacks compared with what is free.
Budget(m, r, d) == Cardinality(m.free) + d = Cardinality(Lacking(m.tables, r))

LEMMA LackingIs ==
  ASSUME NEW r, VirtPages(r) \subseteq Virt, NEW t
  PROVE  /\ IsFiniteSet(Lacking(t, r))
         /\ \A x : x \in Lacking(t, r) <=>
              \E l \in 1 .. 3, w \in VirtPages(r) :
                Found(t, w, l + 1) = 0 /\ x = <<l + 1, Part(w, l)>>
<1>1. ASSUME NEW x
      PROVE  x \in Lacking(t, r) <=>
              \E l \in 1 .. 3, w \in VirtPages(r) :
                Found(t, w, l + 1) = 0 /\ x = <<l + 1, Part(w, l)>>
  <2>1. ASSUME x \in Lacking(t, r)
        PROVE  \E l \in 1 .. 3, w \in VirtPages(r) :
                 Found(t, w, l + 1) = 0 /\ x = <<l + 1, Part(w, l)>>
    <3>1. PICK k \in 2 .. 4 :
            x \in {<<k, v \div Span(k - 1)>> : v \in {w \in VirtPages(r) : TableFor(t, w, k) = 0}}
      BY <2>1 DEF Lacking
    <3>2. PICK w \in VirtPages(r) : TableFor(t, w, k) = 0 /\ x = <<k, w \div Span(k - 1)>>
      BY <3>1
    <3>3. k - 1 \in 1 .. 3 /\ (k - 1) + 1 = k /\ k \in 1 .. 4
      OBVIOUS
    <3>4. Found(t, w, (k - 1) + 1) = 0 /\ x = <<(k - 1) + 1, Part(w, k - 1)>>
      BY <3>2, <3>3, FoundIs DEF Part
    <3> QED BY <3>3, <3>4
  <2>2. ASSUME NEW l \in 1 .. 3, NEW w \in VirtPages(r),
               Found(t, w, l + 1) = 0, x = <<l + 1, Part(w, l)>>
        PROVE  x \in Lacking(t, r)
    <3> DEFINE k == l + 1
    <3>1. k \in 2 .. 4 /\ k \in 1 .. 4 /\ k - 1 = l
      OBVIOUS
    <3>2. TableFor(t, w, k) = 0 /\ x = <<k, w \div Span(k - 1)>>
      BY <2>2, <3>1, FoundIs DEF Part
    <3> HIDE DEF k
    <3>3. x \in {<<k, v \div Span(k - 1)>> : v \in {y \in VirtPages(r) : TableFor(t, y, k) = 0}}
      BY <3>2
    <3> QED BY <3>1, <3>3 DEF Lacking
  <2> QED BY <2>1, <2>2
<1>2. IsFiniteSet(Lacking(t, r))
  <2> DEFINE N == Fanout * Fanout * Fanout * Fanout
             Places == (2 .. 4) \X (0 .. N)
  <2>1. N \in Nat
    BY Spans
  <2>2. IsFiniteSet(Places)
    <3> HIDE DEF N
    <3>1. 2 \in Int /\ 4 \in Int /\ 0 \in Int /\ N \in Int
      BY <2>1
    <3>2. IsFiniteSet(2 .. 4)
      BY <3>1, FS_Interval
    <3>3. IsFiniteSet(0 .. N)
      BY <3>1, FS_Interval
    <3> QED BY <3>2, <3>3, FS_Product
  <2> HIDE DEF N
  <2>3. ASSUME NEW x \in Lacking(t, r)
        PROVE  x \in Places
    <3>1. PICK l \in 1 .. 3, w \in VirtPages(r) : x = <<l + 1, Part(w, l)>>
      BY <1>1
    <3>2. w \in Nat /\ w <= N /\ Span(l) \in Nat \ {0}
      BY <2>1, Spans DEF Virt, N
    <3> DEFINE q == w \div Span(l)
               e == w % Span(l)
               S == Span(l)
    <3>3. q \in Nat /\ e \in 0 .. S - 1 /\ w = S * q + e
      BY <3>2, DivIs
    <3>4. S \in Nat \ {0}
      BY <3>2
    <3> HIDE DEF q, e, S
    <3>5. S * q >= q /\ S * q \in Nat
      BY <3>3, <3>4
    <3>6. q <= N
      BY <2>1, <3>2, <3>3, <3>5
    <3> QED BY <2>1, <3>1, <3>3, <3>6 DEF q, Part
  <2>4. Lacking(t, r) \subseteq Places
    BY <2>3
  <2> QED BY <2>2, <2>4, FS_Subset
<1> QED BY <1>1, <1>2

\* The steps of pt_map, before the table of level l is entered.
Getting(ms, m, n, v, l, r, d) ==
  /\ Sound(n) /\ n.status \in {"ok", "ENOMEM", "fault", "assert"}
  /\ n.status = "assert" => ~CanEnter(ms)
  /\ n.status \in {"ENOMEM", "fault"} => d > 0
  /\ \A w \in Virt : Walk(n.tables, w) = Walk(m.tables, w)
  /\ n.status = "ok" =>
       /\ Found(n.tables, v, l) # 0
       /\ Budget(n, r, d)
       /\ FullBut(m.tables, Root) => FullBut(n.tables, Found(n.tables, v, l))

LEMMA FreeIsFinite ==
  ASSUME NEW m, Sound(m)
  PROVE  /\ IsFiniteSet(m.free) /\ m.tables \in [Tables -> Table]
         /\ m.free \subseteq Tables /\ Shape(m.tables, m.free)
         /\ m.status \in Status
         /\ m = [tables |-> m.tables, free |-> m.free, status |-> m.status]
<1>1. /\ m.tables \in [Tables -> Table] /\ m.free \subseteq Tables /\ m.status \in Status
      /\ m = [tables |-> m.tables, free |-> m.free, status |-> m.status]
  BY DEF Sound
<1> QED BY <1>1, TablesAre, FS_Subset DEF Sound

LEMMA GetsNothing ==
  ASSUME NEW ms, NEW m, NEW n, NEW r, NEW v, NEW l, NEW d \in Int,
         Getting(ms, m, n, v, l, r, d), NEW s \in {"ENOMEM", "fault", "assert"},
         NEW o, o = [n EXCEPT !.status = s],
         s = "assert" => ~CanEnter(ms), s \in {"ENOMEM", "fault"} => d > 0, NEW k
  PROVE  Getting(ms, m, o, v, k, r, d)
<1>1. /\ n.tables \in [Tables -> Table] /\ n.free \subseteq Tables
      /\ Shape(n.tables, n.free)
      /\ n = [tables |-> n.tables, free |-> n.free, status |-> n.status]
  BY FreeIsFinite DEF Getting
<1>2. o = [tables |-> n.tables, free |-> n.free, status |-> s]
  BY <1>1
<1>3. o.tables = n.tables /\ o.free = n.free /\ o.status = s
  BY <1>2
<1>4. Sound(o)
  <2>1. s \in Status
    BY DEF Status
  <2>2. o \in [tables : [Tables -> Table], free : SUBSET Tables, status : Status]
    BY <1>1, <1>2, <2>1
  <2> QED BY <1>1, <1>3, <2>2 DEF Sound
<1>5. \A w \in Virt : Walk(o.tables, w) = Walk(m.tables, w)
  BY <1>3 DEF Getting
<1> QED BY <1>3, <1>4, <1>5 DEF Getting

LEMMA Gets ==
  ASSUME NEW ms, NEW m, NEW n, NEW r, VirtPages(r) \subseteq Virt, NEW v \in VirtPages(r),
         NEW l \in 1 .. 3, NEW d \in Int, Getting(ms, m, n, v, l, r, d)
  PROVE  Getting(ms, m, GetOrAlloc(ms, n, v, l), v, l + 1, r, d)
<1> DEFINE at == Found(n.tables, v, l)
           entry == Found(n.tables, v, l + 1)
           o == GetOrAlloc(ms, n, v, l)
<1>1. /\ v \in Virt /\ l \in 1 .. 4 /\ l \in 1 .. 5 /\ l + 1 \in 1 .. 4 /\ l + 1 \in l .. 5
      /\ l + 1 # 5
  OBVIOUS
<1>2. /\ TableFor(n.tables, v, l) = at /\ Entry(n.tables, at, v, l) = entry
  BY <1>1, FoundIs
<1>3. /\ IsFiniteSet(n.free) /\ n.tables \in [Tables -> Table]
      /\ n.free \subseteq Tables /\ Shape(n.tables, n.free) /\ n.status \in Status
      /\ n = [tables |-> n.tables, free |-> n.free, status |-> n.status]
  BY FreeIsFinite DEF Getting
<1>4. CASE n.status # "ok"
  <2>1. o = n
    BY <1>4 DEF GetOrAlloc
  <2> QED BY <1>4, <2>1 DEF Getting
<1>5. CASE n.status = "ok" /\ entry # 0
  <2>1. o = IF CanEnter(ms) THEN n ELSE [n EXCEPT !.status = "assert"]
    BY <1>2, <1>5 DEF GetOrAlloc
  <2>2. CASE CanEnter(ms)
    <3>1. at # 0 => n.tables[at] # EmptyTable
      <4>1. ASSUME at # 0
            PROVE  n.tables[at][Index(v, l)] # 0
        BY <1>2, <1>5, <4>1 DEF Entry
      <4>2. EmptyTable[Index(v, l)] = 0
        BY <1>1, TablesAre
      <4> QED BY <4>1, <4>2
    <3>2. FullBut(n.tables, at) => FullBut(n.tables, entry)
      BY <3>1 DEF FullBut
    <3>3. o = n
      BY <2>1, <2>2
    <3> QED BY <1>5, <3>2, <3>3 DEF Getting
  <2>3. CASE ~CanEnter(ms)
    <3>1. /\ o = [n EXCEPT !.status = "assert"]
      BY <2>1, <2>3
    <3> QED BY <2>3, <3>1, GetsNothing
  <2> QED BY <2>2, <2>3
<1>6. CASE n.status = "ok" /\ entry = 0 /\ n.free = {}
  <2> DEFINE s == IF l = 3 THEN "fault" ELSE "ENOMEM"
  <2>1. o = [n EXCEPT !.status = s] /\ s \in {"ENOMEM", "fault", "assert"} /\ s # "assert"
    BY <1>2, <1>6 DEF GetOrAlloc
  <2>3. d > 0
    <3>1. <<l + 1, Part(v, l)>> \in Lacking(n.tables, r)
      BY <1>6, LackingIs
    <3>2. IsFiniteSet(Lacking(n.tables, r))
      BY LackingIs
    <3>3. Cardinality(Lacking(n.tables, r)) \in Nat /\ Cardinality(Lacking(n.tables, r)) # 0
      BY <3>1, <3>2, FS_CardinalityType, FS_EmptySet
    <3>4. Cardinality(n.free) = 0
      BY <1>6, FS_EmptySet
    <3>5. Budget(n, r, d)
      BY <1>6 DEF Getting
    <3> QED BY <3>3, <3>4, <3>5 DEF Budget
  <2> HIDE DEF s
  <2> QED BY <2>1, <2>3, GetsNothing
<1>7. CASE n.status = "ok" /\ entry = 0 /\ n.free # {}
  <2> DEFINE page == CHOOSE x \in n.free : TRUE
             u == WithTable(n.tables, at, Index(v, l), page)
  <2>1. page \in n.free
    BY <1>7
  <2>2. o = [PoolAlloc(n).memory EXCEPT !.tables[at][Index(v, l)] = PoolAlloc(n).page]
    BY <1>2, <1>7 DEF GetOrAlloc
  <2>3. /\ PoolAlloc(n).page = page
        /\ PoolAlloc(n).memory = [n EXCEPT !.tables[page] = EmptyTable, !.free = @ \ {page}]
    BY DEF PoolAlloc
  <2>4. PoolAlloc(n).memory = [tables |-> [n.tables EXCEPT ![page] = EmptyTable],
                               free |-> n.free \ {page}, status |-> n.status]
    BY <1>3, <2>3
  <2>5. o = [tables |-> u, free |-> n.free \ {page}, status |-> n.status]
    <3> HIDE DEF page, o, at
    <3>1. PICK mem : mem = PoolAlloc(n).memory
      OBVIOUS
    <3>2. o = [mem EXCEPT !.tables[at][Index(v, l)] = page]
      BY <2>2, <2>3, <3>1
    <3>3. PICK g : g = [n.tables EXCEPT ![page] = EmptyTable]
      OBVIOUS
    <3>4. mem = [tables |-> g, free |-> n.free \ {page}, status |-> n.status]
      BY <2>4, <3>1, <3>3
    <3>5. o = [tables |-> [g EXCEPT ![at][Index(v, l)] = page],
               free |-> n.free \ {page}, status |-> n.status]
      BY <3>2, <3>4
    <3>6. u = [g EXCEPT ![at][Index(v, l)] = page]
      BY <3>3 DEF WithTable
    <3> HIDE DEF u
    <3> QED BY <3>5, <3>6
  <2>6. at # 0 /\ Budget(n, r, d) /\ (FullBut(m.tables, Root) => FullBut(n.tables, at))
    BY <1>7 DEF Getting
  <2> HIDE DEF page, o
  <2>7. PICK z : z = u
    OBVIOUS
  <2> HIDE DEF u
  <2>8. /\ \A w \in Virt, k \in 1 .. 5 :
             Found(z, w, k) = IF k = l + 1 /\ Together(v, w, k) THEN page ELSE Found(n.tables, w, k)
        /\ Shape(z, n.free \ {page})
        /\ FullBut(n.tables, at) => FullBut(z, page)
    <3>1. Grows(z, n.tables, n.free, at, page, v, l)
      BY <1>3, <1>7, <2>1, <2>6, <2>7 DEF Grows, u
    <3> HIDE DEF at
    <3> QED BY <3>1, Grown
  <2>9. /\ o.tables = z /\ o.free = n.free \ {page} /\ o.status = "ok"
        /\ o \in [tables : [Tables -> Table], free : SUBSET Tables, status : Status]
    <3>1. z \in [Tables -> Table] /\ n.free \ {page} \subseteq Tables /\ "ok" \in Status
      BY <1>3, <2>8 DEF Shape, Status
    <3> QED BY <1>7, <2>5, <2>7, <3>1
  <2>10. \A w \in Virt : Walk(z, w) = Walk(m.tables, w)
    <3>1. \A w \in Virt : Found(z, w, 5) = Found(n.tables, w, 5)
      BY <1>1, <2>8
    <3> QED BY <3>1, FoundIs DEF Getting
  <2>11. Found(z, v, l + 1) = page /\ page # 0
    <3>1. Together(v, v, l + 1) /\ l + 1 \in 1 .. 5
      BY DEF Together
    <3> QED BY <1>1, <1>3, <2>1, <2>8, <3>1, TablesAre
  <2>12. Budget(o, r, d)
    <3> DEFINE x == <<l + 1, Part(v, l)>>
    <3>1. x \in Lacking(n.tables, r)
      BY <1>7, LackingIs
    <3>2. Lacking(z, r) = Lacking(n.tables, r) \ {x}
      <4>1. ASSUME NEW k \in 1 .. 3, NEW w \in VirtPages(r)
            PROVE  Found(z, w, k + 1) = 0 <=>
                     Found(n.tables, w, k + 1) = 0 /\ <<k + 1, Part(w, k)>> # x
        <5>1. Found(z, w, k + 1) = IF k + 1 = l + 1 /\ Together(v, w, k + 1)
                                   THEN page ELSE Found(n.tables, w, k + 1)
          BY <2>8
        <5>2. k \in 1 .. 4 /\ w \in Virt
          OBVIOUS
        <5>3. Together(v, w, k + 1) <=> Part(v, k) = Part(w, k)
          BY <1>1, <5>2, TogetherIs
        <5>4. <<k + 1, Part(w, k)>> = x <=> k = l /\ Part(w, k) = Part(v, k)
          OBVIOUS
        <5>5. k = l /\ Together(v, w, k + 1) => Found(n.tables, w, k + 1) = 0
          <6>1. ASSUME k = l, Together(v, w, k + 1)
                PROVE  Found(n.tables, w, k + 1) = 0
            <7>1. l + 1 \in 1 .. 5
              OBVIOUS
            <7> QED BY <1>7, <6>1, <7>1, SameTable
          <6> QED BY <6>1
        <5> HIDE DEF x
        <5> QED BY <2>11, <5>1, <5>3, <5>4, <5>5
      <4> HIDE DEF x
      <4>2. \A y : y \in Lacking(z, r) <=> y \in Lacking(n.tables, r) /\ y # x
        <5>1. ASSUME NEW y
              PROVE  y \in Lacking(z, r) <=>
                       \E k \in 1 .. 3, w \in VirtPages(r) :
                         Found(z, w, k + 1) = 0 /\ y = <<k + 1, Part(w, k)>>
          BY LackingIs
        <5>2. ASSUME NEW y
              PROVE  y \in Lacking(n.tables, r) <=>
                       \E k \in 1 .. 3, w \in VirtPages(r) :
                         Found(n.tables, w, k + 1) = 0 /\ y = <<k + 1, Part(w, k)>>
          BY LackingIs
        <5>3. ASSUME NEW y, y \in Lacking(z, r)
              PROVE  y \in Lacking(n.tables, r) /\ y # x
          <6>1. PICK k \in 1 .. 3, w \in VirtPages(r) :
                  Found(z, w, k + 1) = 0 /\ y = <<k + 1, Part(w, k)>>
            BY <5>1, <5>3
          <6>2. Found(n.tables, w, k + 1) = 0 /\ y # x
            BY <4>1, <6>1
          <6> QED BY <5>2, <6>1, <6>2
        <5>4. ASSUME NEW y, y \in Lacking(n.tables, r), y # x
              PROVE  y \in Lacking(z, r)
          <6>1. PICK k \in 1 .. 3, w \in VirtPages(r) :
                  Found(n.tables, w, k + 1) = 0 /\ y = <<k + 1, Part(w, k)>>
            BY <5>2, <5>4
          <6>2. Found(z, w, k + 1) = 0
            BY <4>1, <5>4, <6>1
          <6> QED BY <5>1, <6>1, <6>2
        <5> QED BY <5>3, <5>4
      <4> QED BY <4>2
    <3> HIDE DEF x
    <3>3. Cardinality(Lacking(z, r)) = Cardinality(Lacking(n.tables, r)) - 1
      BY <3>1, <3>2, LackingIs, FS_RemoveElement
    <3>4. Cardinality(n.free \ {page}) = Cardinality(n.free) - 1
      BY <1>3, <2>1, FS_RemoveElement
    <3>5. Cardinality(n.free) \in Nat /\ Cardinality(Lacking(n.tables, r)) \in Nat
      BY <1>3, LackingIs, FS_CardinalityType
    <3> QED BY <2>6, <2>9, <3>3, <3>4, <3>5 DEF Budget
  <2>13. Sound(o)
    BY <2>8, <2>9 DEF Sound
  <2>14. Getting(ms, m, o, v, l + 1, r, d)
    BY <2>6, <2>8, <2>9, <2>10, <2>11, <2>12, <2>13 DEF Getting
  <2> QED BY <2>14 DEF o
<1> QED BY <1>4, <1>5, <1>6, <1>7

LEMMA LackingSame ==
  ASSUME NEW r, VirtPages(r) \subseteq Virt, NEW t, NEW u,
         \A w \in Virt, k \in 1 .. 4 : Found(u, w, k) = Found(t, w, k)
  PROVE  Lacking(u, r) = Lacking(t, r)
<1>1. \A k \in 1 .. 3, w \in VirtPages(r) : Found(u, w, k + 1) = Found(t, w, k + 1)
  <2>1. \A k \in 1 .. 3 : k + 1 \in 1 .. 4
    OBVIOUS
  <2> QED BY <2>1
<1>2. ASSUME NEW x
      PROVE  x \in Lacking(u, r) <=> x \in Lacking(t, r)
  <2>1. x \in Lacking(u, r) <=>
          \E k \in 1 .. 3, w \in VirtPages(r) : Found(u, w, k + 1) = 0 /\ x = <<k + 1, Part(w, k)>>
    BY LackingIs
  <2>2. x \in Lacking(t, r) <=>
          \E k \in 1 .. 3, w \in VirtPages(r) : Found(t, w, k + 1) = 0 /\ x = <<k + 1, Part(w, k)>>
    BY LackingIs
  <2> QED BY <1>1, <2>1, <2>2
<1> QED BY <1>2

\* A page is mapped, or nothing is but for new tables.
PageMapped(ms, m, n, r, v, p, d) ==
  /\ Sound(n) /\ n.status \in {"ok", "ENOMEM", "fault", "assert"}
  /\ n.status = "assert" => ~CanEnter(ms)
  /\ n.status \in {"ENOMEM", "fault"} => d > 0
  /\ n.status # "ok" => \A w \in Virt : Walk(n.tables, w) = Walk(m.tables, w)
  /\ n.status = "ok" =>
       /\ \A w \in Virt : Walk(n.tables, w) = IF w = v THEN p ELSE Walk(m.tables, w)
       /\ Budget(n, r, d)
       /\ FullBut(m.tables, Root) => FullBut(n.tables, 0)

LEMMA PtMapIs ==
  ASSUME NEW ms, NEW m, Sound(m), m.status = "ok",
         NEW r, VirtPages(r) \subseteq Virt, NEW v \in VirtPages(r), NEW p \in Nat \ {0},
         NEW d \in Int, Budget(m, r, d), NEW n, n = PtMap(ms, m, v, p)
  PROVE  PageMapped(ms, m, n, r, v, p, d)
<1> USE DEF PageMapped
<1>1. Getting(ms, m, m, v, 1, r, d)
  <2>1. Found(m.tables, v, 1) = Root /\ Root # 0
    BY FoundIs DEF Root
  <2> QED BY <2>1 DEF Getting
<1>2. PICK f : f = AllTables(ms, m, v)
  OBVIOUS
<1>3. Getting(ms, m, f, v, 4, r, d)
  <2>1. PICK g : g = GetOrAlloc(ms, m, v, 1)
    OBVIOUS
  <2>2. PICK h : h = GetOrAlloc(ms, g, v, 2)
    OBVIOUS
  <2>3. Getting(ms, m, g, v, 1 + 1, r, d)
    BY <1>1, <2>1, Gets
  <2>4. Getting(ms, m, h, v, 2 + 1, r, d)
    BY <2>2, <2>3, Gets
  <2>5. f = GetOrAlloc(ms, h, v, 3)
    BY <1>2, <2>1, <2>2 DEF AllTables
  <2>6. Getting(ms, m, f, v, 3 + 1, r, d)
    BY <2>4, <2>5, Gets
  <2> QED BY <2>6
<1>4. CASE f.status # "ok"
  <2>1. n = f
    BY <1>2, <1>4 DEF PtMap
  <2> QED BY <1>3, <1>4, <2>1 DEF Getting
<1>5. CASE f.status = "ok"
  <2> DEFINE at == Found(f.tables, v, 4)
             u == [f.tables EXCEPT ![at][Index(v, 4)] = p]
  <2>1. /\ f.tables \in [Tables -> Table] /\ f.free \subseteq Tables /\ Shape(f.tables, f.free)
        /\ f = [tables |-> f.tables, free |-> f.free, status |-> f.status]
    BY <1>3, FreeIsFinite DEF Getting
  <2>2. at # 0 /\ Budget(f, r, d) /\ (FullBut(m.tables, Root) => FullBut(f.tables, at))
    BY <1>3, <1>5 DEF Getting
  <2>3. TableFor(f.tables, v, 4) = at
    BY FoundIs
  <2>4. n = [f EXCEPT !.tables[at][Index(v, 4)] = p]
    BY <1>2, <1>5, <2>3 DEF PtMap
  <2>5. n = [tables |-> u, free |-> f.free, status |-> f.status]
    BY <2>1, <2>4
  <2> HIDE DEF at
  <2>6. PICK z : z = u
    OBVIOUS
  <2>7. /\ \A w \in Virt, k \in 1 .. 4 : Found(z, w, k) = Found(f.tables, w, k)
        /\ \A w \in Virt : Walk(z, w) = IF w = v THEN p ELSE Walk(f.tables, w)
        /\ Shape(z, f.free)
        /\ FullBut(f.tables, at) /\ p # 0 => FullBut(z, 0)
    BY <2>1, <2>2, <2>6, Put DEF at
  <2>8. n.tables = z /\ n.free = f.free /\ n.status = "ok"
    BY <1>5, <2>5, <2>6
  <2>9. Sound(n)
    <3>1. z \in [Tables -> Table] /\ "ok" \in Status
      BY <2>7 DEF Shape, Status
    <3>2. n \in [tables : [Tables -> Table], free : SUBSET Tables, status : Status]
      BY <1>5, <2>1, <2>5, <2>6, <3>1
    <3> QED BY <2>7, <2>8, <3>2 DEF Sound
  <2>10. Budget(n, r, d)
    <3>1. Lacking(z, r) = Lacking(f.tables, r)
      BY <2>7, LackingSame
    <3> QED BY <2>2, <2>8, <3>1 DEF Budget
  <2>11. \A w \in Virt : Walk(z, w) = IF w = v THEN p ELSE Walk(m.tables, w)
    BY <1>3, <2>7 DEF Getting
  <2> QED BY <2>2, <2>7, <2>8, <2>9, <2>10, <2>11
<1> QED BY <1>4, <1>5

-----------------------------------------------------------------------------
(***************************************************************************)
(* What unmapping one page does.                                           *)
(***************************************************************************)
\* Between the steps of pt_unmap: only the table of level l may be empty.
Clearing(m, n, v, l) ==
  /\ Sound(n) /\ n.status = m.status
  /\ Found(n.tables, v, l) # 0
  /\ \A w \in Virt : Walk(n.tables, w) = IF w = v THEN 0 ELSE Walk(m.tables, w)
  /\ FullBut(m.tables, 0) => FullBut(n.tables, Found(n.tables, v, l))

LEMMA Frees ==
  ASSUME NEW m, NEW n, NEW v \in Virt, NEW l \in 1 .. 3, Clearing(m, n, v, l + 1)
  PROVE  Clearing(m, FreeIfEmpty(n, v, l + 1), v, l)
<1> DEFINE at == Found(n.tables, v, l)
           child == Found(n.tables, v, l + 1)
           o == FreeIfEmpty(n, v, l + 1)
<1>1. /\ l \in 1 .. 4 /\ l \in 1 .. 5 /\ l + 1 \in 1 .. 4 /\ l + 1 \in l .. 5
      /\ l + 1 # 5 /\ (l + 1) - 1 = l /\ l # l + 1
  OBVIOUS
<1>2. TableFor(n.tables, v, l) = at /\ TableFor(n.tables, v, l + 1) = child
  BY <1>1, FoundIs
<1>3. /\ n.tables \in [Tables -> Table] /\ n.free \subseteq Tables /\ Shape(n.tables, n.free)
      /\ n.status \in Status
      /\ n = [tables |-> n.tables, free |-> n.free, status |-> n.status]
  BY FreeIsFinite DEF Clearing
<1>4. child # 0 /\ at # 0
  <2>1. child # 0
    BY DEF Clearing
  <2> QED BY <1>1, <2>1, NothingBeyond
<1>5. CASE n.tables[child] # EmptyTable
  <2>1. o = n
    BY <1>1, <1>2, <1>5 DEF FreeIfEmpty
  <2>2. FullBut(n.tables, child) => FullBut(n.tables, at)
    BY <1>5 DEF FullBut
  <2> QED BY <1>4, <2>1, <2>2 DEF Clearing
<1>6. CASE n.tables[child] = EmptyTable
  <2> DEFINE u == [n.tables EXCEPT ![at][Index(v, l)] = 0]
  <2>1. o = PoolFree([n EXCEPT !.tables[at][Index(v, l)] = 0], child)
    BY <1>1, <1>2, <1>6 DEF FreeIfEmpty
  <2> HIDE DEF at, child, o
  <2>2. PICK g : g = [n EXCEPT !.tables[at][Index(v, l)] = 0]
    OBVIOUS
  <2>3. g = [tables |-> u, free |-> n.free, status |-> n.status]
    BY <1>3, <2>2
  <2> HIDE DEF u
  <2>4. o = [tables |-> u, free |-> n.free \cup {child}, status |-> n.status]
    <3>1. o = [g EXCEPT !.free = @ \cup {child}]
      BY <2>1, <2>2 DEF PoolFree
    <3> QED BY <2>3, <3>1
  <2>5. PICK z : z = u
    OBVIOUS
  <2>6. /\ \A w \in Virt, k \in 1 .. 5 :
             Found(z, w, k) = IF k = l + 1 /\ Together(v, w, k) THEN 0 ELSE Found(n.tables, w, k)
        /\ Shape(z, n.free \cup {child})
        /\ FullBut(n.tables, child) => FullBut(z, at)
    <3>1. z = [n.tables EXCEPT ![at][Index(v, l)] = 0]
      BY <2>5 DEF u
    <3>2. at = Found(n.tables, v, l) /\ child = Found(n.tables, v, l + 1)
      BY DEF at, child
    <3>3. PICK t : t = n.tables
      OBVIOUS
    <3>4. Shape(t, n.free) /\ child # 0 /\ t[child] = EmptyTable
      BY <1>3, <1>4, <1>6, <3>3
    <3>5. z = [t EXCEPT ![at][Index(v, l)] = 0]
      BY <3>1, <3>3
    <3>6. at = Found(t, v, l) /\ child = Found(t, v, l + 1)
      BY <3>2, <3>3
    <3>7. PICK F : F = n.free
      OBVIOUS
    <3>8. PICK a, c : a = at /\ c = child
      OBVIOUS
    <3>9. Prunes(z, t, F, a, c, v, l)
      BY <3>4, <3>5, <3>6, <3>7, <3>8 DEF Prunes, Without
    <3>10. /\ \A w \in Virt, k \in 1 .. 5 :
                Found(z, w, k) = IF k = l + 1 /\ Together(v, w, k) THEN 0 ELSE Found(t, w, k)
           /\ Shape(z, F \cup {c})
           /\ FullBut(t, c) => FullBut(z, a)
      BY <3>9, Pruned
    <3> QED BY <3>3, <3>7, <3>8, <3>10
  <2>7. o.tables = z /\ o.free = n.free \cup {child} /\ o.status = n.status
    BY <2>4, <2>5
  <2>8. Sound(o)
    <3>1. z \in [Tables -> Table] /\ n.free \cup {child} \subseteq Tables
      BY <2>6 DEF Shape
    <3>2. o \in [tables : [Tables -> Table], free : SUBSET Tables, status : Status]
      BY <1>3, <2>4, <2>5, <3>1
    <3> QED BY <2>6, <2>7, <3>2 DEF Sound
  <2>9. \A w \in Virt : Walk(z, w) = Walk(n.tables, w)
    <3>1. \A w \in Virt : Found(z, w, 5) = Found(n.tables, w, 5)
      BY <1>1, <2>6
    <3> QED BY <3>1, FoundIs
  <2>10. Found(z, v, l) = at
    BY <1>1, <2>6 DEF at
  <2>11. Clearing(m, o, v, l)
    <3>1. FullBut(m.tables, 0) => FullBut(z, at)
      BY <2>6 DEF Clearing, child
    <3>2. \A w \in Virt : Walk(z, w) = IF w = v THEN 0 ELSE Walk(m.tables, w)
      BY <2>9 DEF Clearing
    <3>3. n.status = m.status
      BY DEF Clearing
    <3> QED BY <1>4, <2>7, <2>8, <2>10, <3>1, <3>2, <3>3 DEF Clearing
  <2> QED BY <2>11 DEF o
<1> QED BY <1>5, <1>6

\* A page is unmapped, or it was not mapped.
PageUnmapped(ms, m, n, v) ==
  /\ Sound(n) /\ n.status \in {m.status, "EINVAL", "assert"}
  /\ \/ n.status = "assert" /\ ~CanEnter(ms)
     \/ n.status = "EINVAL" /\ Walk(m.tables, v) = 0
          /\ n.tables = m.tables /\ n.free = m.free
     \/ n.status = m.status /\ Walk(m.tables, v) # 0
  /\ \A w \in Virt : \/ Walk(n.tables, w) = Walk(m.tables, w)
                     \/ Walk(n.tables, w) = 0 /\ w = v
  /\ \/ n.status = "assert"
     \/ \A w \in Virt : Walk(n.tables, w) = IF w = v THEN 0 ELSE Walk(m.tables, w)
  /\ FullBut(m.tables, 0) => FullBut(n.tables, Root)

LEMMA PtUnmapIs ==
  ASSUME NEW ms, NEW m, Sound(m), NEW v \in Virt, NEW n, n = PtUnmap(ms, m, v)
  PROVE  PageUnmapped(ms, m, n, v)
<1> USE DEF PageUnmapped
<1>1. /\ m.tables \in [Tables -> Table] /\ m.free \subseteq Tables /\ Shape(m.tables, m.free)
      /\ m.status \in Status
      /\ m = [tables |-> m.tables, free |-> m.free, status |-> m.status]
  BY FreeIsFinite
<1>2. FullBut(m.tables, 0) => FullBut(m.tables, Root)
  BY DEF FullBut
<1>3. ASSUME NEW s \in Status, n = [m EXCEPT !.status = s]
      PROVE  Sound(n) /\ n.tables = m.tables /\ n.free = m.free /\ n.status = s
  <2>1. n = [tables |-> m.tables, free |-> m.free, status |-> s]
    BY <1>1, <1>3
  <2>2. n.tables = m.tables /\ n.free = m.free /\ n.status = s
    BY <2>1
  <2>3. n \in [tables : [Tables -> Table], free : SUBSET Tables, status : Status]
    BY <1>1, <2>1
  <2> QED BY <1>1, <2>2, <2>3 DEF Sound
<1>4. "assert" \in Status /\ "EINVAL" \in Status
  BY DEF Status
<1>5. CASE TableFor(m.tables, v, 2) # 0 /\ ~CanEnter(ms)
  <2>1. n = [m EXCEPT !.status = "assert"]
    BY <1>5 DEF PtUnmap
  <2> QED BY <1>2, <1>3, <1>4, <1>5, <2>1
<1>6. CASE ~(TableFor(m.tables, v, 2) # 0 /\ ~CanEnter(ms)) /\ Walk(m.tables, v) = 0
  <2>1. n = [m EXCEPT !.status = "EINVAL"]
    BY <1>6 DEF PtUnmap
  <2> QED BY <1>2, <1>3, <1>4, <1>6, <2>1
<1>7. CASE ~(TableFor(m.tables, v, 2) # 0 /\ ~CanEnter(ms)) /\ Walk(m.tables, v) # 0
  <2> DEFINE at == Found(m.tables, v, 4)
             u == [m.tables EXCEPT ![at][Index(v, 4)] = 0]
  <2>1. TableFor(m.tables, v, 4) = at
    BY FoundIs
  <2>2. PICK g : g = [m EXCEPT !.tables[at][Index(v, 4)] = 0]
    OBVIOUS
  <2>3. n = FreeIfEmpty(FreeIfEmpty(FreeIfEmpty(g, v, 4), v, 3), v, 2)
    BY <1>7, <2>1, <2>2 DEF PtUnmap
  <2>4. at # 0
    <3>1. Found(m.tables, v, 5) # 0
      BY <1>7, FoundIs
    <3> QED BY <3>1, NothingBeyond
  <2> HIDE DEF at
  <2>5. g = [tables |-> u, free |-> m.free, status |-> m.status]
    BY <1>1, <2>2
  <2>6. PICK z : z = u
    OBVIOUS
  <2>7. /\ \A w \in Virt, k \in 1 .. 4 : Found(z, w, k) = Found(m.tables, w, k)
        /\ \A w \in Virt : Walk(z, w) = IF w = v THEN 0 ELSE Walk(m.tables, w)
        /\ Shape(z, m.free)
        /\ FullBut(m.tables, 0) => FullBut(z, at)
    BY <1>1, <2>4, <2>6, Put DEF at
  <2>8. g.tables = z /\ g.free = m.free /\ g.status = m.status
    BY <2>5, <2>6
  <2>9. Sound(g)
    <3>1. z \in [Tables -> Table]
      BY <2>7 DEF Shape
    <3>2. g \in [tables : [Tables -> Table], free : SUBSET Tables, status : Status]
      BY <1>1, <2>5, <2>6, <3>1
    <3> QED BY <2>7, <2>8, <3>2 DEF Sound
  <2>10. Found(z, v, 4) = at
    BY <2>7 DEF at
  <2>11. Clearing(m, g, v, 3 + 1)
    BY <2>4, <2>7, <2>8, <2>9, <2>10 DEF Clearing
  <2>12. Clearing(m, FreeIfEmpty(g, v, 4), v, 2 + 1)
    <3>1. Clearing(m, FreeIfEmpty(g, v, 3 + 1), v, 3)
      BY <2>11, Frees
    <3> QED BY <3>1
  <2>13. Clearing(m, FreeIfEmpty(FreeIfEmpty(g, v, 4), v, 3), v, 1 + 1)
    <3>1. Clearing(m, FreeIfEmpty(FreeIfEmpty(g, v, 4), v, 2 + 1), v, 2)
      BY <2>12, Frees
    <3> QED BY <3>1
  <2>14. Clearing(m, n, v, 1)
    <3>1. Clearing(m, FreeIfEmpty(FreeIfEmpty(FreeIfEmpty(g, v, 4), v, 3), v, 1 + 1), v, 1)
      BY <2>13, Frees
    <3> QED BY <2>3, <3>1
  <2>15. Found(n.tables, v, 1) = Root
    BY FoundIs
  <2> QED BY <1>7, <2>14, <2>15 DEF Clearing
<1> QED BY <1>5, <1>6, <1>7

\* Something is mapped: the first table is not empty.
LEMMA RootIsFull ==
  ASSUME NEW t, NEW v \in Virt, Walk(t, v) # 0
  PROVE  FullBut(t, Root) => FullBut(t, 0)
<1>1. Found(t, v, 1 + 1) # 0
  <2>1. Found(t, v, 5) # 0
    BY FoundIs
  <2> QED BY <2>1, NothingBeyond
<1>2. Found(t, v, 1 + 1) = Entry(t, Root, v, 1)
  BY FoundIs
<1>3. t[Root][Index(v, 1)] # 0
  BY <1>1, <1>2 DEF Entry
<1>4. t[Root] # EmptyTable
  BY <1>3, TablesAre
<1> QED BY <1>4 DEF FullBut

-----------------------------------------------------------------------------
(***************************************************************************)
(* Loops over the pages of a region.                                       *)
(***************************************************************************)
\* Induction, for a property given as a set.
LEMMA Induct ==
  ASSUME NEW S, 0 \in S, \A n \in Nat : n \in S => n + 1 \in S
  PROVE  Nat \subseteq S
<1> DEFINE Others == {n \in Nat : n \notin S}
           Before == {ij \in Nat \X Nat : ij[1] < ij[2]}
<1>1. IsWellFoundedOn(Before, Nat)
  <2>1. Before = OpToRel(<, Nat)
    BY DEF OpToRel
  <2> QED BY <2>1, NatLessThanWellFounded
<1>2. \A a, b \in Nat : a < b => <<a, b>> \in Before
  OBVIOUS
<1>3. ASSUME Others # {}
      PROVE  FALSE
  <2> HIDE DEF Before
  <2>1. PICK n \in Others : \A k \in Others : ~ (<<k, n>> \in Before)
    BY <1>1, <1>3, WFMin
  <2>2. n \in Nat /\ n # 0 /\ n - 1 \in Nat /\ n - 1 < n
    OBVIOUS
  <2>3. n - 1 \notin Others
    BY <1>2, <2>1, <2>2
  <2>4. n - 1 \in S /\ (n - 1) + 1 = n
    BY <2>2, <2>3
  <2> QED BY <2>2, <2>4
<1> QED BY <1>3

\* A state x to which the steps of a loop are applied: F[i] is the i-th.
LEMMA Recursion ==
  ASSUME NEW S, NEW x \in S, NEW N \in Nat, NEW F \in [1 .. N -> [S -> S]]
  PROVE  \E f \in [0 .. N -> S] : f[0] = x /\ \A i \in 1 .. N : f[i] = F[i][f[i - 1]]
<1> DEFINE Upto(n, f) == f[0] = x /\ \A i \in 1 .. n : f[i] = F[i][f[i - 1]]
           Good == {n \in Nat : n <= N => \E f \in [0 .. n -> S] : Upto(n, f)}
<1>1. 0 \in Good
  <2>1. [i \in 0 .. 0 |-> x] \in [0 .. 0 -> S] /\ Upto(0, [i \in 0 .. 0 |-> x])
    OBVIOUS
  <2> QED BY <2>1
<1>2. ASSUME NEW n \in Nat, n \in Good
      PROVE  n + 1 \in Good
  <2>1. ASSUME n + 1 <= N
        PROVE  \E f \in [0 .. n + 1 -> S] : Upto(n + 1, f)
    <3>1. n <= N /\ n + 1 \in 1 .. N
      BY <2>1
    <3>2. PICK f \in [0 .. n -> S] : Upto(n, f)
      BY <1>2, <3>1
    <3> DEFINE y == F[n + 1][f[n]]
               g == [i \in 0 .. n + 1 |-> IF i = n + 1 THEN y ELSE f[i]]
    <3>3. f[n] \in S /\ F[n + 1] \in [S -> S]
      BY <3>1
    <3>4. y \in S
      BY <3>3
    <3> HIDE DEF y
    <3>5. g \in [0 .. n + 1 -> S]
      BY <3>4
    <3>6. \A i \in 0 .. n : g[i] = f[i]
      OBVIOUS
    <3>7. g[n + 1] = y
      OBVIOUS
    <3> HIDE DEF g
    <3>8. g[0] = x
      BY <3>2, <3>6
    <3>9. ASSUME NEW i \in 1 .. n + 1
          PROVE  g[i] = F[i][g[i - 1]]
      <4>1. CASE i \in 1 .. n
        <5>1. i \in 0 .. n /\ i - 1 \in 0 .. n
          BY <4>1
        <5> QED BY <3>2, <3>6, <4>1, <5>1
      <4>2. CASE i = n + 1
        <5>1. i - 1 = n /\ n \in 0 .. n
          BY <4>2
        <5> QED BY <3>6, <3>7, <4>2, <5>1 DEF y
      <4> QED BY <4>1, <4>2
    <3> QED BY <3>5, <3>8, <3>9
  <2> QED BY <2>1
<1>3. N \in Good
  <2> HIDE DEF Good
  <2> QED BY <1>1, <1>2, Induct
<1> QED BY <1>3

\* What may be mapped.
Region(r) ==
  /\ r.vbase \in Nat /\ r.pbase \in Nat \ {0} /\ r.len \in Nat \ {0}
  /\ VirtPages(r) \subseteq Virt

LEMMA PagesIn ==
  ASSUME NEW r, Region(r)
  PROVE  /\ \A i \in 1 .. r.len :
              /\ r.vbase + i - 1 \in VirtPages(r) /\ r.pbase + i - 1 \in Nat \ {0}
              /\ PhysOf(r, r.vbase + i - 1) = r.pbase + i - 1
         /\ \A w \in VirtPages(r) : w - r.vbase + 1 \in 1 .. r.len
         /\ r.len \in Nat /\ r.vbase \in VirtPages(r)
  BY DEF Region, VirtPages, PhysOf

\* Every memory lacks or has left some number of tables for a region.
LEMMA BudgetIs ==
  ASSUME NEW m, Sound(m), NEW r, VirtPages(r) \subseteq Virt
  PROVE  \E d \in Int : Budget(m, r, d)
<1>1. Cardinality(m.free) \in Nat /\ Cardinality(Lacking(m.tables, r)) \in Nat
  BY FreeIsFinite, LackingIs, FS_CardinalityType
<1> DEFINE d == Cardinality(Lacking(m.tables, r)) - Cardinality(m.free)
<1>2. d \in Int /\ Budget(m, r, d)
  BY <1>1 DEF Budget
<1> QED BY <1>2

\* The loop of paging_map_region.
MapRun(f, ms, m, r) ==
  /\ f[0] = m /\ MapPages(ms, m, r) = f[r.len]
  /\ \A i \in 1 .. r.len :
       f[i] = IF f[i - 1].status # "ok" THEN f[i - 1]
              ELSE PtMap(ms, f[i - 1], r.vbase + i - 1, r.pbase + i - 1)

LEMMA MapRuns ==
  ASSUME NEW ms, NEW r, Region(r), NEW m, Sound(m)
  PROVE  \E f : MapRun(f, ms, m, r)
<1> USE DEF MapRun
<1> DEFINE N == r.len
           Is(f) == f = [i \in 0 .. N |->
                           IF i = 0 THEN m
                           ELSE IF f[i - 1].status # "ok" THEN f[i - 1]
                           ELSE PtMap(ms, f[i - 1], r.vbase + i - 1, r.pbase + i - 1)]
           after == CHOOSE f : Is(f)
           S == {n \in [tables : [Tables -> Table], free : SUBSET Tables, status : Status] :
                   Sound(n)}
           Step(i, n) == IF n.status # "ok" THEN n
                         ELSE PtMap(ms, n, r.vbase + i - 1, r.pbase + i - 1)
           F == [i \in 1 .. N |-> [n \in S |-> Step(i, n)]]
<1>1. MapPages(ms, m, r) = after[N]
  BY DEF MapPages
<1>2. N \in Nat /\ m \in S
  BY PagesIn DEF Sound
<1>3. F \in [1 .. N -> [S -> S]]
  <2>1. ASSUME NEW i \in 1 .. N, NEW n \in S
        PROVE  Step(i, n) \in S
    <3>1. CASE n.status # "ok"
      BY <3>1
    <3>2. CASE n.status = "ok"
      <4>1. PICK d \in Int : Budget(n, r, d)
        BY BudgetIs DEF Region
      <4>2. /\ r.vbase + i - 1 \in VirtPages(r) /\ r.pbase + i - 1 \in Nat \ {0}
            /\ VirtPages(r) \subseteq Virt
        BY PagesIn DEF Region
      <4>3. PICK o : o = PtMap(ms, n, r.vbase + i - 1, r.pbase + i - 1)
        OBVIOUS
      <4>4. Sound(n)
        OBVIOUS
      <4>5. Sound(o)
        <5> HIDE DEF S
        <5>1. PICK v \in VirtPages(r) : v = r.vbase + i - 1
          BY <4>2
        <5>2. PICK p \in Nat \ {0} : p = r.pbase + i - 1
          BY <4>2
        <5>3. o = PtMap(ms, n, v, p)
          BY <4>3, <5>1, <5>2
        <5> QED BY <3>2, <4>1, <4>2, <4>4, <5>3, PtMapIs DEF PageMapped
      <4> QED BY <3>2, <4>3, <4>5 DEF Sound
    <3> QED BY <3>1, <3>2
  <2> HIDE DEF S, Step
  <2> QED BY <2>1
<1>4. PICK g \in [0 .. N -> S] : g[0] = m /\ \A i \in 1 .. N : g[i] = F[i][g[i - 1]]
  <2> HIDE DEF N, S, F
  <2> QED BY <1>2, <1>3, Recursion
<1>5. Is(g)
  <2>1. ASSUME NEW i \in 1 .. N
        PROVE  g[i] = Step(i, g[i - 1])
    <3>1. i - 1 \in 0 .. N
      BY <1>2
    <3>2. g[i - 1] \in S
      BY <3>1
    <3>3. F[i][g[i - 1]] = Step(i, g[i - 1])
      <4> HIDE DEF S, Step
      <4> QED BY <3>2
    <3> QED BY <1>4, <3>3
  <2>2. \A i \in 0 .. N : i # 0 => i \in 1 .. N
    BY <1>2
  <2>3. \A i \in 0 .. N : g[i] = IF i = 0 THEN m ELSE Step(i, g[i - 1])
    <3> HIDE DEF Step
    <3> QED BY <1>4, <2>1, <2>2
  <2> QED BY <2>3
<1>6. Is(after)
  <2> HIDE DEF Is
  <2> QED BY <1>5
<1>7. /\ after[0] = m
      /\ \A i \in 1 .. N : after[i] = Step(i, after[i - 1])
  <2> HIDE DEF after
  <2>1. \A i \in 0 .. N : after[i] = IF i = 0 THEN m ELSE Step(i, after[i - 1])
    BY <1>6
  <2>2. 0 \in 0 .. N /\ \A i \in 1 .. N : i \in 0 .. N /\ i # 0
    BY <1>2
  <2> HIDE DEF Step
  <2> QED BY <2>1, <2>2
<1> HIDE DEF after
<1> QED BY <1>1, <1>7

\* The loop of paging_unmap_region.
UnmapRun(f, ms, m, r) ==
  /\ f[0] = m /\ UnmapPages(ms, m, r) = f[r.len]
  /\ \A i \in 1 .. r.len :
       f[i] = IF f[i - 1].status # "ok" THEN f[i - 1]
              ELSE PtUnmap(ms, f[i - 1], r.vbase + i - 1)

LEMMA UnmapRuns ==
  ASSUME NEW ms, NEW r, Region(r), NEW m, Sound(m)
  PROVE  \E f : UnmapRun(f, ms, m, r)
<1> USE DEF UnmapRun
<1> DEFINE N == r.len
           Is(f) == f = [i \in 0 .. N |->
                           IF i = 0 THEN m
                           ELSE IF f[i - 1].status # "ok" THEN f[i - 1]
                           ELSE PtUnmap(ms, f[i - 1], r.vbase + i - 1)]
           after == CHOOSE f : Is(f)
           S == {n \in [tables : [Tables -> Table], free : SUBSET Tables, status : Status] :
                   Sound(n)}
           Step(i, n) == IF n.status # "ok" THEN n
                         ELSE PtUnmap(ms, n, r.vbase + i - 1)
           F == [i \in 1 .. N |-> [n \in S |-> Step(i, n)]]
<1>1. UnmapPages(ms, m, r) = after[N]
  BY DEF UnmapPages
<1>2. N \in Nat /\ m \in S
  BY PagesIn DEF Sound
<1>3. F \in [1 .. N -> [S -> S]]
  <2>1. ASSUME NEW i \in 1 .. N, NEW n \in S
        PROVE  Step(i, n) \in S
    <3>1. CASE n.status # "ok"
      BY <3>1
    <3>2. CASE n.status = "ok"
      <4>1. PICK v \in Virt : v = r.vbase + i - 1
        BY PagesIn DEF Region
      <4>2. PICK o : o = PtUnmap(ms, n, r.vbase + i - 1)
        OBVIOUS
      <4>3. Sound(n)
        OBVIOUS
      <4>4. Sound(o)
        <5> HIDE DEF S
        <5>1. o = PtUnmap(ms, n, v)
          BY <4>1, <4>2
        <5> QED BY <4>3, <5>1, PtUnmapIs DEF PageUnmapped
      <4> QED BY <3>2, <4>2, <4>4 DEF Sound
    <3> QED BY <3>1, <3>2
  <2> HIDE DEF S, Step
  <2> QED BY <2>1
<1>4. PICK g \in [0 .. N -> S] : g[0] = m /\ \A i \in 1 .. N : g[i] = F[i][g[i - 1]]
  <2> HIDE DEF N, S, F
  <2> QED BY <1>2, <1>3, Recursion
<1>5. Is(g)
  <2>1. ASSUME NEW i \in 1 .. N
        PROVE  g[i] = Step(i, g[i - 1])
    <3>1. i - 1 \in 0 .. N
      BY <1>2
    <3>2. g[i - 1] \in S
      BY <3>1
    <3>3. F[i][g[i - 1]] = Step(i, g[i - 1])
      <4> HIDE DEF S, Step
      <4> QED BY <3>2
    <3> QED BY <1>4, <3>3
  <2>2. \A i \in 0 .. N : i # 0 => i \in 1 .. N
    BY <1>2
  <2>3. \A i \in 0 .. N : g[i] = IF i = 0 THEN m ELSE Step(i, g[i - 1])
    <3> HIDE DEF Step
    <3> QED BY <1>4, <2>1, <2>2
  <2> QED BY <2>3
<1>6. Is(after)
  <2> HIDE DEF Is
  <2> QED BY <1>5
<1>7. /\ after[0] = m
      /\ \A i \in 1 .. N : after[i] = Step(i, after[i - 1])
  <2> HIDE DEF after
  <2>1. \A i \in 0 .. N : after[i] = IF i = 0 THEN m ELSE Step(i, after[i - 1])
    BY <1>6
  <2>2. 0 \in 0 .. N /\ \A i \in 1 .. N : i \in 0 .. N /\ i # 0
    BY <1>2
  <2> HIDE DEF Step
  <2> QED BY <2>1, <2>2
<1> HIDE DEF after
<1> QED BY <1>1, <1>7

Ok(m) == [m EXCEPT !.status = "ok"]

LEMMA SoundOk ==
  ASSUME NEW m, Sound(m), NEW n, n = Ok(m)
  PROVE  /\ Sound(n) /\ n.tables = m.tables /\ n.free = m.free /\ n.status = "ok"
<1>1. /\ m.tables \in [Tables -> Table] /\ m.free \subseteq Tables
      /\ Shape(m.tables, m.free)
      /\ m = [tables |-> m.tables, free |-> m.free, status |-> m.status]
  BY FreeIsFinite
<1>2. n = [tables |-> m.tables, free |-> m.free, status |-> "ok"]
  BY <1>1 DEF Ok
<1>3. n \in [tables : [Tables -> Table], free : SUBSET Tables, status : Status]
  BY <1>1, <1>2 DEF Status
<1> QED BY <1>1, <1>2, <1>3 DEF Sound

\* The loop that unmaps the pages after a failure.
UnmapAnyRun(f, ms, m, r) ==
  /\ f[0] = m /\ UnmapAnyPages(ms, m, r) = f[r.len]
  /\ \A i \in 1 .. r.len :
       f[i] = IF f[i - 1].status = "assert" THEN f[i - 1]
              ELSE PtUnmap(ms, Ok(f[i - 1]), r.vbase + i - 1)

LEMMA UnmapAnyRuns ==
  ASSUME NEW ms, NEW r, Region(r), NEW m, Sound(m)
  PROVE  \E f : UnmapAnyRun(f, ms, m, r)
<1> USE DEF UnmapAnyRun
<1> DEFINE N == r.len
           Is(f) == f = [i \in 0 .. N |->
                           IF i = 0 THEN m
                           ELSE IF f[i - 1].status = "assert" THEN f[i - 1]
                           ELSE PtUnmap(ms, Ok(f[i - 1]), r.vbase + i - 1)]
           after == CHOOSE f : Is(f)
           S == {n \in [tables : [Tables -> Table], free : SUBSET Tables, status : Status] :
                   Sound(n)}
           Step(i, n) == IF n.status = "assert" THEN n
                         ELSE PtUnmap(ms, Ok(n), r.vbase + i - 1)
           F == [i \in 1 .. N |-> [n \in S |-> Step(i, n)]]
<1>1. UnmapAnyPages(ms, m, r) = after[N]
  BY DEF UnmapAnyPages, Ok
<1>2. N \in Nat /\ m \in S
  BY PagesIn DEF Sound
<1>3. F \in [1 .. N -> [S -> S]]
  <2>1. ASSUME NEW i \in 1 .. N, NEW n \in S
        PROVE  Step(i, n) \in S
    <3>1. CASE n.status = "assert"
      BY <3>1
    <3>2. CASE n.status # "assert"
      <4>1. PICK v \in Virt : v = r.vbase + i - 1
        BY PagesIn DEF Region
      <4>2. PICK o : o = PtUnmap(ms, Ok(n), r.vbase + i - 1)
        OBVIOUS
      <4>3. Sound(n)
        OBVIOUS
      <4>4. Sound(o)
        <5> HIDE DEF S
        <5>1. PICK g : g = Ok(n)
          OBVIOUS
        <5>2. Sound(g)
          BY <4>3, <5>1, SoundOk
        <5>3. o = PtUnmap(ms, g, v)
          BY <4>1, <4>2, <5>1
        <5> QED BY <5>2, <5>3, PtUnmapIs DEF PageUnmapped
      <4> QED BY <3>2, <4>2, <4>4 DEF Sound
    <3> QED BY <3>1, <3>2
  <2> HIDE DEF S, Step
  <2> QED BY <2>1
<1>4. PICK g \in [0 .. N -> S] : g[0] = m /\ \A i \in 1 .. N : g[i] = F[i][g[i - 1]]
  <2> HIDE DEF N, S, F
  <2> QED BY <1>2, <1>3, Recursion
<1>5. Is(g)
  <2>1. ASSUME NEW i \in 1 .. N
        PROVE  g[i] = Step(i, g[i - 1])
    <3>1. i - 1 \in 0 .. N
      BY <1>2
    <3>2. g[i - 1] \in S
      BY <3>1
    <3>3. F[i][g[i - 1]] = Step(i, g[i - 1])
      <4> HIDE DEF S, Step
      <4> QED BY <3>2
    <3> QED BY <1>4, <3>3
  <2>2. \A i \in 0 .. N : i # 0 => i \in 1 .. N
    BY <1>2
  <2>3. \A i \in 0 .. N : g[i] = IF i = 0 THEN m ELSE Step(i, g[i - 1])
    <3> HIDE DEF Step
    <3> QED BY <1>4, <2>1, <2>2
  <2> QED BY <2>3
<1>6. Is(after)
  <2> HIDE DEF Is
  <2> QED BY <1>5
<1>7. /\ after[0] = m
      /\ \A i \in 1 .. N : after[i] = Step(i, after[i - 1])
  <2> HIDE DEF after
  <2>1. \A i \in 0 .. N : after[i] = IF i = 0 THEN m ELSE Step(i, after[i - 1])
    BY <1>6
  <2>2. 0 \in 0 .. N /\ \A i \in 1 .. N : i \in 0 .. N /\ i # 0
    BY <1>2
  <2> HIDE DEF Step
  <2> QED BY <2>1, <2>2
<1> HIDE DEF after
<1> QED BY <1>1, <1>7

\* paging_map_region: the pages of r are mapped, or none of the others change.
Mapped(ms, m, n, r, d, i) ==
  /\ Sound(n) /\ n.status \in {"ok", "ENOMEM", "fault", "assert"}
  /\ n.status = "assert" => ~CanEnter(ms)
  /\ n.status \in {"ENOMEM", "fault"} => d > 0
  /\ \A w \in Virt \ VirtPages(r) : Walk(n.tables, w) = Walk(m.tables, w)
  /\ n.status = "ok" =>
       /\ \A w \in VirtPages(r) : w < r.vbase + i => Walk(n.tables, w) = PhysOf(r, w)
       /\ Budget(n, r, d)
       /\ FullBut(m.tables, Root) => FullBut(n.tables, IF i = 0 THEN Root ELSE 0)

LEMMA MapPagesIs ==
  ASSUME NEW ms, NEW r, Region(r), NEW m, Sound(m), m.status = "ok",
         NEW d \in Int, Budget(m, r, d)
  PROVE  Mapped(ms, m, MapPages(ms, m, r), r, d, r.len)
<1>1. PICK f : MapRun(f, ms, m, r)
  BY MapRuns
<1> USE DEF MapRun
<1> DEFINE S == {i \in Nat : i <= r.len => Mapped(ms, m, f[i], r, d, i)}
<1>2. 0 \in S
  <2>1. \A w \in VirtPages(r) : ~ (w < r.vbase + 0)
    BY DEF Region, VirtPages
  <2>2. Mapped(ms, m, m, r, d, 0)
    BY <2>1 DEF Mapped
  <2> QED BY <1>1, <2>2
<1>3. ASSUME NEW i \in Nat, i \in S
      PROVE  i + 1 \in S
  <2>1. ASSUME i + 1 <= r.len
        PROVE  Mapped(ms, m, f[i + 1], r, d, i + 1)
    <3>1. i + 1 \in 1 .. r.len /\ (i + 1) - 1 = i /\ i <= r.len
      BY <2>1, PagesIn
    <3>2. PICK g : g = f[i]
      OBVIOUS
    <3>3. PICK v \in VirtPages(r) : v = r.vbase + (i + 1) - 1
      BY <3>1, PagesIn
    <3>4. PICK p \in Nat \ {0} : p = r.pbase + (i + 1) - 1 /\ PhysOf(r, v) = p
      BY <3>1, <3>3, PagesIn
    <3>5. Mapped(ms, m, g, r, d, i)
      BY <1>3, <3>1, <3>2
    <3>6. f[i + 1] = IF g.status # "ok" THEN g ELSE PtMap(ms, g, v, p)
      BY <1>1, <3>1, <3>2, <3>3, <3>4
    <3>7. CASE g.status # "ok"
      BY <3>5, <3>6, <3>7 DEF Mapped
    <3>8. CASE g.status = "ok"
      <4>1. PICK n : n = PtMap(ms, g, v, p)
        OBVIOUS
      <4>2. Sound(g) /\ VirtPages(r) \subseteq Virt /\ Budget(g, r, d)
        BY <3>5, <3>8 DEF Mapped, Region
      <4>3. /\ Sound(n) /\ n.status \in {"ok", "ENOMEM", "fault", "assert"}
            /\ n.status = "assert" => ~CanEnter(ms)
            /\ n.status \in {"ENOMEM", "fault"} => d > 0
            /\ n.status # "ok" => \A w \in Virt : Walk(n.tables, w) = Walk(g.tables, w)
            /\ n.status = "ok" =>
                 /\ \A w \in Virt :
                      Walk(n.tables, w) = IF w = v THEN p ELSE Walk(g.tables, w)
                 /\ Budget(n, r, d)
                 /\ FullBut(g.tables, Root) => FullBut(n.tables, 0)
        <5>1. PageMapped(ms, g, n, r, v, p, d)
          BY <3>8, <4>1, <4>2, PtMapIs
        <5> QED BY <5>1 DEF PageMapped
      <4>4. \A w \in Virt \ VirtPages(r) : Walk(n.tables, w) = Walk(m.tables, w)
        BY <3>5, <4>3 DEF Mapped
      <4>5. ASSUME n.status = "ok", NEW w \in VirtPages(r), w < r.vbase + (i + 1)
            PROVE  Walk(n.tables, w) = PhysOf(r, w)
        <5>1. w \in Virt /\ (w = v \/ w < r.vbase + i)
          BY <3>3, <4>2, <4>5 DEF Region, VirtPages
        <5> QED BY <3>4, <3>5, <3>8, <4>3, <4>5, <5>1 DEF Mapped
      <4>6. FullBut(m.tables, Root) => FullBut(g.tables, Root)
        BY <3>5, <3>8 DEF Mapped, FullBut
      <4>7. Mapped(ms, m, n, r, d, i + 1)
        BY <4>3, <4>4, <4>5, <4>6 DEF Mapped
      <4> QED BY <3>6, <3>8, <4>1, <4>7
    <3> QED BY <3>7, <3>8
  <2> QED BY <2>1
<1>4. r.len \in S
  <2> HIDE DEF S
  <2> QED BY <1>2, <1>3, Induct, PagesIn
<1> QED BY <1>1, <1>4

\* What is left of m when the first i pages of r are unmapped.
Unmapped(ms, m, n, r, i) ==
  /\ Sound(n)
  /\ n.status = "assert" => ~CanEnter(ms)
  /\ n.status # "assert" =>
       \A w \in Virt : Walk(n.tables, w) = IF w \in VirtPages(r) /\ w < r.vbase + i
                                           THEN 0 ELSE Walk(m.tables, w)

LEMMA UnmapsOne ==
  ASSUME NEW ms, NEW r, Region(r), NEW m, NEW g, g.status # "assert", NEW i \in Nat,
         Unmapped(ms, m, g, r, i), NEW v \in VirtPages(r), v = r.vbase + i,
         NEW n, n = PtUnmap(ms, g, v)
  PROVE  Unmapped(ms, m, n, r, i + 1)
<1>1. v \in Virt /\ Sound(g)
  BY DEF Unmapped, Region
<1>2. /\ Sound(n)
      /\ n.status = "assert" => ~CanEnter(ms)
      /\ n.status # "assert" =>
           \A w \in Virt : Walk(n.tables, w) = IF w = v THEN 0 ELSE Walk(g.tables, w)
  <2>1. PageUnmapped(ms, g, n, v)
    BY <1>1, PtUnmapIs
  <2> QED BY <2>1 DEF PageUnmapped
<1>3. ASSUME n.status # "assert", NEW w \in Virt
      PROVE  Walk(n.tables, w) = IF w \in VirtPages(r) /\ w < r.vbase + (i + 1)
                                 THEN 0 ELSE Walk(m.tables, w)
  <2>1. w \in VirtPages(r) => (w < r.vbase + (i + 1) <=> w < r.vbase + i \/ w = v)
    BY DEF Region, VirtPages
  <2> QED BY <1>2, <1>3, <2>1 DEF Unmapped
<1> QED BY <1>2, <1>3 DEF Unmapped

\* The loop after a failure: nothing of r stays mapped.
LEMMA UnmapAnyPagesIs ==
  ASSUME NEW ms, NEW r, Region(r), NEW m, Sound(m), m.status = "ENOMEM"
  PROVE  /\ Unmapped(ms, m, UnmapAnyPages(ms, m, r), r, r.len)
         /\ UnmapAnyPages(ms, m, r).status # "fault"
<1>1. PICK f : UnmapAnyRun(f, ms, m, r)
  BY UnmapAnyRuns
<1> USE DEF UnmapAnyRun
<1> DEFINE S == {i \in Nat : i <= r.len => Unmapped(ms, m, f[i], r, i) /\ f[i].status # "fault"}
<1>2. 0 \in S
  <2>1. \A w \in VirtPages(r) : ~ (w < r.vbase + 0)
    BY DEF Region, VirtPages
  <2>2. Unmapped(ms, m, m, r, 0)
    BY <2>1 DEF Unmapped
  <2> QED BY <1>1, <2>2
<1>3. ASSUME NEW i \in Nat, i \in S
      PROVE  i + 1 \in S
  <2>1. ASSUME i + 1 <= r.len
        PROVE  Unmapped(ms, m, f[i + 1], r, i + 1) /\ f[i + 1].status # "fault"
    <3>1. i + 1 \in 1 .. r.len /\ (i + 1) - 1 = i /\ i <= r.len
      BY <2>1, PagesIn
    <3>2. PICK g : g = f[i]
      OBVIOUS
    <3>3. PICK v \in VirtPages(r) : v = r.vbase + (i + 1) - 1
      BY <3>1, PagesIn
    <3>4. v = r.vbase + i
      BY <3>3 DEF Region
    <3>5. Unmapped(ms, m, g, r, i) /\ g.status # "fault"
      BY <1>3, <3>1, <3>2
    <3>6. PICK h : h = Ok(g)
      OBVIOUS
    <3>7. f[i + 1] = IF g.status = "assert" THEN g ELSE PtUnmap(ms, h, v)
      BY <1>1, <3>1, <3>2, <3>3, <3>6
    <3>8. CASE g.status = "assert"
      BY <3>5, <3>7, <3>8 DEF Unmapped
    <3>9. CASE g.status # "assert"
      <4>1. PICK n : n = PtUnmap(ms, h, v)
        OBVIOUS
      <4>2. Sound(h) /\ h.tables = g.tables /\ h.status = "ok"
        BY <3>5, <3>6, SoundOk DEF Unmapped
      <4>3. Unmapped(ms, m, h, r, i)
        BY <3>5, <3>9, <4>2 DEF Unmapped
      <4>4. Unmapped(ms, m, n, r, i + 1)
        BY <3>4, <4>1, <4>2, <4>3, UnmapsOne
      <4>5. n.status # "fault"
        <5>1. v \in Virt
          BY DEF Region
        <5>2. PageUnmapped(ms, h, n, v)
          BY <4>1, <4>2, <5>1, PtUnmapIs
        <5> QED BY <4>2, <5>2 DEF PageUnmapped
      <4> QED BY <3>7, <3>9, <4>1, <4>4, <4>5
    <3> QED BY <3>8, <3>9
  <2> QED BY <2>1
<1>4. r.len \in S
  <2> HIDE DEF S
  <2> QED BY <1>2, <1>3, Induct, PagesIn
<1> QED BY <1>1, <1>4

\* paging_unmap_region, for a region whose pages are mapped, and page x that
\* is not of the region is mapped too.
LEMMA UnmapPagesIs ==
  ASSUME NEW ms, NEW r, Region(r), NEW m, Sound(m), m.status = "ok",
         \A w \in VirtPages(r) : Walk(m.tables, w) # 0,
         NEW x \in Virt \ VirtPages(r), Walk(m.tables, x) # 0,
         NEW n, n = UnmapPages(ms, m, r)
  PROVE  /\ Unmapped(ms, m, n, r, r.len) /\ n.status \in {"ok", "assert"}
         /\ n.status = "ok" => (FullBut(m.tables, 0) => FullBut(n.tables, 0))
<1>1. PICK f : UnmapRun(f, ms, m, r)
  BY UnmapRuns
<1> USE DEF UnmapRun
<1> DEFINE Done(g, i) == /\ Unmapped(ms, m, g, r, i) /\ g.status \in {"ok", "assert"}
                         /\ g.status = "ok" => (FullBut(m.tables, 0) => FullBut(g.tables, 0))
           S == {i \in Nat : i <= r.len => Done(f[i], i)}
<1>2. 0 \in S
  <2>1. \A w \in VirtPages(r) : ~ (w < r.vbase + 0)
    BY DEF Region, VirtPages
  <2>2. Unmapped(ms, m, m, r, 0)
    BY <2>1 DEF Unmapped
  <2> QED BY <1>1, <2>2
<1>3. ASSUME NEW i \in Nat, i \in S
      PROVE  i + 1 \in S
  <2>1. ASSUME i + 1 <= r.len
        PROVE  Done(f[i + 1], i + 1)
    <3>1. i + 1 \in 1 .. r.len /\ (i + 1) - 1 = i /\ i <= r.len
      BY <2>1, PagesIn
    <3>2. PICK g : g = f[i]
      OBVIOUS
    <3>3. PICK v \in VirtPages(r) : v = r.vbase + (i + 1) - 1
      BY <3>1, PagesIn
    <3>4. v = r.vbase + i /\ v \in Virt
      BY <3>3 DEF Region
    <3>5. Done(g, i)
      BY <1>3, <3>1, <3>2
    <3>6. f[i + 1] = IF g.status # "ok" THEN g ELSE PtUnmap(ms, g, v)
      BY <1>1, <3>1, <3>2, <3>3
    <3>7. CASE g.status # "ok"
      BY <3>5, <3>6, <3>7 DEF Unmapped
    <3>8. CASE g.status = "ok"
      <4>1. PICK n1 : n1 = PtUnmap(ms, g, v)
        OBVIOUS
      <4>2. PageUnmapped(ms, g, n1, v)
        <5>1. Sound(g)
          BY <3>5 DEF Unmapped
        <5> QED BY <3>4, <4>1, <5>1, PtUnmapIs
      <4>3. Unmapped(ms, m, n1, r, i + 1)
        BY <3>4, <3>5, <3>8, <4>1, UnmapsOne
      <4>4. Walk(g.tables, v) # 0 /\ Walk(g.tables, x) # 0 /\ x # v /\ x \in Virt
        <5>1. ~ (v < r.vbase + i) /\ v \in Virt
          BY <3>4 DEF Region
        <5> QED BY <3>5, <3>8, <5>1 DEF Unmapped
      <4>5. n1.status \in {"ok", "assert"}
        BY <3>8, <4>2, <4>4 DEF PageUnmapped
      <4>6. ASSUME n1.status = "ok", FullBut(m.tables, 0)
            PROVE  FullBut(n1.tables, 0)
        <5>1. FullBut(g.tables, 0)
          BY <3>5, <3>8, <4>6
        <5>2. FullBut(n1.tables, Root)
          BY <4>2, <5>1 DEF PageUnmapped
        <5>3. Walk(n1.tables, x) # 0
          BY <4>2, <4>4, <4>6 DEF PageUnmapped
        <5> QED BY <4>4, <5>2, <5>3, RootIsFull
      <4> QED BY <3>6, <3>8, <4>1, <4>3, <4>5, <4>6
    <3> QED BY <3>7, <3>8
  <2> QED BY <2>1
<1>4. r.len \in S
  <2> HIDE DEF S
  <2> QED BY <1>2, <1>3, Induct, PagesIn
<1>5. Done(n, r.len)
  BY <1>1, <1>4, PagesIn
<1> QED BY <1>5

\* paging_unmap_region fails for a region whose first page is not mapped.
LEMMA UnmapNothing ==
  ASSUME NEW ms, NEW r, Region(r), NEW m, Sound(m), m.status = "ok",
         Walk(m.tables, r.vbase) = 0, NEW n, n = UnmapPages(ms, m, r)
  PROVE  /\ n.status \in {"EINVAL", "assert"}
         /\ n.status = "assert" => ~CanEnter(ms)
         /\ n.status = "EINVAL" => n.tables = m.tables /\ n.free = m.free
<1>1. PICK f : UnmapRun(f, ms, m, r)
  BY UnmapRuns
<1> USE DEF UnmapRun
<1> DEFINE Done(g) == /\ g.status \in {"EINVAL", "assert"}
                      /\ g.status = "assert" => ~CanEnter(ms)
                      /\ g.status = "EINVAL" => g.tables = m.tables /\ g.free = m.free
           S == {i \in Nat : i + 1 <= r.len => Done(f[i + 1])}
<1>2. 0 \in S
  <2>1. PICK v \in Virt : v = r.vbase
    BY PagesIn DEF Region
  <2>2. 1 \in 1 .. r.len /\ 1 - 1 = 0 /\ r.vbase + 1 - 1 = r.vbase
    BY DEF Region
  <2>3. PICK g : g = PtUnmap(ms, m, v)
    OBVIOUS
  <2>4. f[1] = g
    BY <1>1, <2>1, <2>2, <2>3
  <2>5. PageUnmapped(ms, m, g, v)
    BY <2>3, PtUnmapIs
  <2>6. Done(g)
    BY <2>1, <2>5 DEF PageUnmapped
  <2> HIDE DEF Done
  <2> QED BY <2>4, <2>6
<1>3. ASSUME NEW i \in Nat, i \in S
      PROVE  i + 1 \in S
  <2>1. ASSUME (i + 1) + 1 <= r.len
        PROVE  Done(f[(i + 1) + 1])
    <3>1. (i + 1) + 1 \in 1 .. r.len /\ ((i + 1) + 1) - 1 = i + 1 /\ i + 1 <= r.len
      BY <2>1, PagesIn
    <3>2. PICK g : g = f[i + 1]
      OBVIOUS
    <3>3. Done(g)
      BY <1>3, <3>1, <3>2
    <3>4. f[(i + 1) + 1] = g
      BY <1>1, <3>1, <3>2, <3>3
    <3> HIDE DEF Done
    <3> QED BY <3>3, <3>4
  <2> QED BY <2>1
<1>4. Done(f[r.len])
  <2>1. r.len - 1 \in Nat /\ (r.len - 1) + 1 = r.len
    BY DEF Region
  <2>2. r.len - 1 \in S
    <3> HIDE DEF S
    <3> QED BY <1>2, <1>3, <2>1, Induct
  <2> HIDE DEF Done
  <2> QED BY <2>1, <2>2
<1> QED BY <1>1, <1>4

-----------------------------------------------------------------------------
(***************************************************************************)
(* The inductive invariant.                                                *)
(***************************************************************************)
\* The tables cannot be entered only for a second canonical mapping of them.
LEMMA CanEnterUnless ==
  ASSUME NEW ms, DynAddrs \in ms, ~CanEnter(ms)
  PROVE  \E m \in ms \ {DynAddrs} : m.type = "canonical" /\ DynAddrs.pbase \in PhysPages(m)
<1> DEFINE p == DynAddrs.pbase
           at == {m \in ms : p \in PhysPages(m)}
<1>1. p \in PhysPages(DynAddrs) /\ DynAddrs.type = "canonical"
  BY DEF DynAddrs, Mapping, PhysPages
<1> HIDE DEF p
<1>2. Number(at, "canonical") # 1
  BY DEF CanEnter, Translatable, p
<1>3. ASSUME \A m \in at \ {DynAddrs} : m.type # "canonical"
      PROVE  FALSE
  <2>1. {m \in at : m.type = "canonical"} = {DynAddrs}
    BY <1>1, <1>3
  <2>2. Cardinality({DynAddrs}) = 1
    BY FS_Singleton
  <2> QED BY <1>2, <2>1, <2>2 DEF Number
<1> QED BY <1>3 DEF p

\* What the processor finds, given the regions ms that are mapped.
Matches(ms, t) ==
  \A v \in Virt :
    /\ (\A m \in ms : v \notin VirtPages(m)) => Walk(t, v) = 0
    /\ \A m \in ms : v \in VirtPages(m) => Walk(t, v) = PhysOf(m, v)

\* The mappings do not overlap, and those of paging_init stay.
MapsApart ==
  /\ IsFiniteSet(maps) /\ maps \subseteq Regions \cup {CodeAddrs, DynAddrs}
  /\ Cardinality(maps) <= NumMappings
  /\ {CodeAddrs, DynAddrs} \subseteq maps \ failed /\ failed \subseteq maps
  /\ crashed \in {"no", "fault", "assert"}
  /\ \A a, b \in maps : a # b => VirtPages(a) \cap VirtPages(b) = {}

IInv ==
  /\ MapsApart /\ Shape(tables, free)
  /\ failed = {} => FullBut(tables, 0)
  /\ crashed = "no" => Matches(maps \ failed, tables)
  /\ CrashExplained

LEMMA RegionsAre ==
  /\ \A r \in Regions : Region(r)
  /\ Region(CodeAddrs) /\ Region(DynAddrs)
  /\ VirtPages(CodeAddrs) = {Code} /\ VirtPages(DynAddrs) = {Dyn}
  /\ Code \in Virt /\ Dyn \in Virt
<1>1. ASSUME NEW r \in Regions
      PROVE  Region(r)
  <2>1. PICK v \in VBases, p \in PBases, n \in Lens, type \in Types :
          r = Mapping(v, p, n, type)
    BY DEF Regions
  <2>2. r.vbase \in Nat \ {0} /\ r.pbase \in Nat \ {0} /\ r.len \in Nat \ {0}
    BY <2>1, SizeAssumption DEF Mapping
  <2> QED BY <2>2, AddressAssumption DEF Region
<1>2. Code \in Virt /\ Dyn \in Virt /\ Code \in Nat /\ Dyn \in Nat
  BY AddressAssumption, SizeAssumption
<1>3. CodeAddrs.vbase = Code /\ CodeAddrs.pbase = 1 /\ CodeAddrs.len = 1
  BY DEF CodeAddrs, Mapping
<1>4. DynAddrs.vbase = Dyn /\ DynAddrs.pbase = 2 /\ DynAddrs.len = 1
  BY DEF DynAddrs, Mapping
<1>5. VirtPages(CodeAddrs) = {Code} /\ VirtPages(DynAddrs) = {Dyn}
  BY <1>2, <1>3, <1>4 DEF VirtPages
<1>6. Region(CodeAddrs) /\ Region(DynAddrs)
  BY <1>2, <1>3, <1>4, <1>5 DEF Region
<1> QED BY <1>1, <1>2, <1>5, <1>6

LEMMA MemoryIs ==
  ASSUME Shape(tables, free)
  PROVE  /\ Sound(Memory) /\ Memory.status = "ok"
         /\ Memory.tables = tables /\ Memory.free = free
<1>1. tables \in [Tables -> Table] /\ free \subseteq Tables
  BY DEF Shape
<1>2. Memory.status = "ok" /\ Memory.tables = tables /\ Memory.free = free
  BY DEF Memory
<1>3. Memory \in [tables : [Tables -> Table], free : SUBSET Tables, status : Status]
  BY <1>1 DEF Memory, Status
<1> QED BY <1>2, <1>3 DEF Sound

\* A region that is accepted covers pages where nothing is mapped.
LEMMA AcceptedIs ==
  ASSUME MapsApart, NEW r \in Regions, Accepts(r)
  PROVE  /\ r \notin maps /\ \A m \in maps : VirtPages(m) \cap VirtPages(r) = {}
         /\ IsFiniteSet(maps \cup {r}) /\ Cardinality(maps \cup {r}) <= NumMappings
         /\ \A a, b \in maps \cup {r} : a # b => VirtPages(a) \cap VirtPages(b) = {}
<1>1. /\ \A m \in maps : VirtPages(m) \cap VirtPages(r) = {}
      /\ Cardinality(maps) < NumMappings
  BY DEF Accepts
<1>2. r \notin maps
  <2>1. r.vbase \in VirtPages(r)
    BY RegionsAre, PagesIn
  <2> QED BY <1>1, <2>1
<1>3. IsFiniteSet(maps \cup {r}) /\ Cardinality(maps \cup {r}) = Cardinality(maps) + 1
  BY <1>2, FS_AddElement DEF MapsApart
<1>4. Cardinality(maps) \in Nat /\ NumMappings \in Nat
  BY FS_CardinalityType, SizeAssumption DEF MapsApart
<1>5. \A a, b \in maps \cup {r} : a # b => VirtPages(a) \cap VirtPages(b) = {}
  BY <1>1 DEF MapsApart
<1> QED BY <1>1, <1>2, <1>3, <1>4, <1>5

\* What a call does to the map that the tables are.
Adds(r) ==
  \A v \in Virt : Walk(tables', v) = IF v \in VirtPages(r) THEN PhysOf(r, v) ELSE Walk(tables, v)
Removes(r) ==
  \A v \in Virt : Walk(tables', v) = IF v \in VirtPages(r) THEN 0 ELSE Walk(tables, v)
Keeps == \A v \in Virt : Walk(tables', v) = Walk(tables, v)

Crashes == /\ crashed' \in {"fault", "assert"} /\ CrashExplained'
           /\ UNCHANGED <<tables, free, failed>>

LEMMA MapRegionDoes ==
  ASSUME IInv, NEW r \in Regions, MapRegion(r)
  PROVE  /\ crashed = "no" /\ maps' = maps \cup {r} /\ Accepts(r)
         /\ \/ Crashes
            \/ /\ crashed' = "no" /\ Shape(tables', free')
               /\ failed' = failed /\ Adds(r)
               /\ FullBut(tables, 0) => FullBut(tables', 0)
            \/ /\ crashed' = "no" /\ Shape(tables', free')
               /\ failed' = failed \cup {r} /\ Keeps
<1>1. Region(r) /\ VirtPages(r) \subseteq Virt
  BY RegionsAre DEF Region
<1>2. /\ Sound(Memory) /\ Memory.status = "ok"
      /\ Memory.tables = tables /\ Memory.free = free
  BY MemoryIs DEF IInv
<1>3. crashed = "no" /\ Accepts(r) /\ maps' = maps \cup {r}
  BY DEF MapRegion
<1>4. PICK ms : ms = maps \cup {r}
  OBVIOUS
<1>5. PICK d \in Int : Budget(Memory, r, d)
  BY <1>1, <1>2, BudgetIs
<1>6. PICK m : m = MapPages(ms, Memory, r)
  OBVIOUS
<1>7. Mapped(ms, Memory, m, r, d, r.len)
  BY <1>1, <1>2, <1>5, <1>6, MapPagesIs
<1>8. PICK e : e = UnmapAnyPages(ms, m, r)
  OBVIOUS
<1>9. PICK ended : ended = IF m.status = "ENOMEM" THEN e ELSE m
  OBVIOUS
<1>10. IF ended.status \in {"fault", "assert"} THEN Crash(ended.status)
       ELSE /\ Write(ended)
            /\ failed' = IF m.status = "ok" THEN failed ELSE failed \cup {r}
  BY <1>4, <1>6, <1>8, <1>9 DEF MapRegion
<1>11. DynAddrs \in ms /\ maps' = ms
  BY <1>3, <1>4 DEF IInv, MapsApart
<1>12. ASSUME ended.status = "assert"
       PROVE  ~CanEnter(ms)
  <2>1. CASE m.status = "ENOMEM"
    <3>1. Unmapped(ms, m, e, r, r.len)
      BY <1>1, <1>7, <1>8, <2>1, UnmapAnyPagesIs DEF Mapped
    <3> QED BY <1>9, <1>12, <2>1, <3>1 DEF Unmapped
  <2>2. CASE m.status # "ENOMEM"
    BY <1>7, <1>9, <1>12, <2>2 DEF Mapped
  <2> QED BY <2>1, <2>2
<1>13. CASE ended.status = "assert"
  <2>1. crashed' = "assert" /\ UNCHANGED <<tables, free, failed>>
    BY <1>10, <1>13 DEF Crash
  <2>2. CrashExplained'
    <3>1. \E x \in maps' \ {DynAddrs} : x.type = "canonical" /\ DynAddrs.pbase \in PhysPages(x)
      BY <1>11, <1>12, <1>13, CanEnterUnless
    <3> QED BY <2>1, <3>1 DEF CrashExplained
  <2> QED BY <1>3, <2>1, <2>2 DEF Crashes
<1>14. CASE ended.status = "fault"
  <2>1. crashed' = "fault" /\ UNCHANGED <<tables, free, failed>>
    BY <1>10, <1>14 DEF Crash
  <2>2. m.status = "fault"
    <3>1. m.status = "ENOMEM" => e.status # "fault"
      BY <1>1, <1>7, <1>8, UnmapAnyPagesIs DEF Mapped
    <3> QED BY <1>9, <1>14, <3>1
  <2>3. d > 0 /\ Cardinality(free) + d = Cardinality(Lacking(tables, r))
    BY <1>2, <1>5, <1>7, <2>2 DEF Mapped, Budget
  <2>4. Cardinality(free) \in Nat /\ Cardinality(Lacking(tables, r)) \in Nat
    <3>1. IsFiniteSet(free)
      BY <1>2, FreeIsFinite
    <3> QED BY <1>1, <3>1, LackingIs, FS_CardinalityType
  <2>5. Cardinality(free) < Cardinality(Lacking(tables, r))
    BY <2>3, <2>4
  <2>6. r \in maps'
    BY <1>3
  <2>7. \E x \in maps' : Cardinality(free') < Cardinality(Lacking(tables', x))
    BY <2>1, <2>5, <2>6
  <2>8. CrashExplained'
    BY <2>1, <2>7 DEF CrashExplained, Missing
  <2> QED BY <1>3, <2>1, <2>8 DEF Crashes
<1>15. CASE ended.status \notin {"fault", "assert"}
  <2>1. /\ tables' = ended.tables /\ free' = ended.free /\ crashed' = crashed
        /\ failed' = IF m.status = "ok" THEN failed ELSE failed \cup {r}
    BY <1>10, <1>15 DEF Write
  <2>2. CASE m.status = "ok"
    <3>1. ended = m
      BY <1>9, <2>2
    <3>2. Shape(tables', free')
      BY <1>7, <2>1, <3>1 DEF Mapped, Sound
    <3>3. r.len # 0 /\ r.len \in Nat
      BY <1>1 DEF Region
    <3>4. FullBut(tables, 0) => FullBut(tables', 0)
      <4>1. FullBut(tables, 0) => FullBut(tables, Root)
        BY DEF FullBut
      <4> QED BY <1>2, <1>7, <2>1, <2>2, <3>1, <3>3, <4>1 DEF Mapped
    <3>5. \A w \in VirtPages(r) : w < r.vbase + r.len
      BY <1>1 DEF VirtPages, Region
    <3>6. Adds(r)
      BY <1>1, <1>2, <1>7, <2>1, <2>2, <3>1, <3>5 DEF Mapped, Adds
    <3> QED BY <1>3, <2>1, <2>2, <3>2, <3>4, <3>6
  <2>3. CASE m.status = "ENOMEM"
    <3>1. ended = e
      BY <1>9, <2>3
    <3>2. Unmapped(ms, m, e, r, r.len)
      BY <1>1, <1>7, <1>8, <2>3, UnmapAnyPagesIs DEF Mapped
    <3>3. Shape(tables', free')
      BY <2>1, <3>1, <3>2 DEF Unmapped, Sound
    <3>4. \A w \in VirtPages(r) : w < r.vbase + r.len
      BY <1>1 DEF VirtPages, Region
    <3>5. \A w \in VirtPages(r) : Walk(tables, w) = 0
      <4>1. \A w \in VirtPages(r), x \in maps \ failed : w \notin VirtPages(x)
        BY <1>3, AcceptedIs DEF IInv
      <4> QED BY <1>1, <1>3, <4>1 DEF IInv, Matches
    <3>6. \A w \in Virt : Walk(e.tables, w) = IF w \in VirtPages(r) THEN 0 ELSE Walk(m.tables, w)
      BY <1>15, <3>1, <3>2, <3>4 DEF Unmapped
    <3>7. \A w \in Virt \ VirtPages(r) : Walk(m.tables, w) = Walk(tables, w)
      BY <1>2, <1>7 DEF Mapped
    <3>8. Keeps
      BY <2>1, <3>1, <3>5, <3>6, <3>7 DEF Keeps
    <3> QED BY <1>3, <2>1, <2>3, <3>3, <3>8
  <2>4. m.status \in {"ok", "ENOMEM"}
    BY <1>7, <1>9, <1>15 DEF Mapped
  <2> QED BY <2>2, <2>3, <2>4
<1> QED BY <1>13, <1>14, <1>15

LEMMA UnmapRegionDoes ==
  ASSUME IInv, NEW r \in Regions, UnmapRegion(r)
  PROVE  /\ crashed = "no" /\ r \in maps
         /\ \/ Crashes /\ maps' = maps
            \/ crashed' = "no" /\ r \in failed /\ UNCHANGED <<maps, tables, free, failed>>
            \/ /\ crashed' = "no" /\ r \notin failed /\ Shape(tables', free')
               /\ failed' = failed /\ maps' = maps \ {r} /\ Removes(r)
               /\ FullBut(tables, 0) => FullBut(tables', 0)
<1>1. Region(r) /\ VirtPages(r) \subseteq Virt
  BY RegionsAre DEF Region
<1>2. /\ Sound(Memory) /\ Memory.status = "ok"
      /\ Memory.tables = tables /\ Memory.free = free
  BY MemoryIs DEF IInv
<1>3. crashed = "no" /\ r \in maps
  BY DEF UnmapRegion
<1>4. PICK m : m = UnmapPages(maps, Memory, r)
  OBVIOUS
<1>5. IF m.status = "assert" THEN Crash("assert") /\ UNCHANGED maps
      ELSE /\ Write(m)
           /\ maps' = IF m.status = "ok" THEN Removed(r) ELSE maps
           /\ UNCHANGED failed
  BY <1>4 DEF UnmapRegion
<1>6. \A w \in VirtPages(r), x \in maps : x # r => w \notin VirtPages(x)
  BY <1>3 DEF IInv, MapsApart
<1>7. CASE r \in failed
  <2>1. Walk(tables, r.vbase) = 0
    <3>1. r.vbase \in VirtPages(r)
      BY <1>1, PagesIn
    <3>2. \A x \in maps \ failed : r.vbase \notin VirtPages(x)
      BY <1>6, <1>7, <3>1
    <3> QED BY <1>1, <1>3, <3>1, <3>2 DEF IInv, Matches
  <2>2. /\ m.status \in {"EINVAL", "assert"}
        /\ m.status = "assert" => ~CanEnter(maps)
        /\ m.status = "EINVAL" => m.tables = tables /\ m.free = free
    BY <1>1, <1>2, <1>4, <2>1, UnmapNothing
  <2>3. CASE m.status = "EINVAL"
    BY <1>3, <1>5, <1>7, <2>2, <2>3 DEF Write
  <2>4. CASE m.status = "assert"
    <3>1. crashed' = "assert" /\ UNCHANGED <<tables, free, failed, maps>>
      BY <1>5, <2>4 DEF Crash
    <3>2. \E x \in maps \ {DynAddrs} : x.type = "canonical" /\ DynAddrs.pbase \in PhysPages(x)
      BY <2>2, <2>4, CanEnterUnless DEF IInv, MapsApart
    <3>3. CrashExplained'
      BY <3>1, <3>2 DEF CrashExplained
    <3> QED BY <1>3, <3>1, <3>3 DEF Crashes
  <2> QED BY <2>2, <2>3, <2>4
<1>8. CASE r \notin failed
  <2>1. \A w \in VirtPages(r) : Walk(tables, w) # 0
    <3>1. ASSUME NEW w \in VirtPages(r)
          PROVE  Walk(tables, w) # 0
      <4>1. Walk(tables, w) = PhysOf(r, w)
        BY <1>1, <1>3, <1>8 DEF IInv, Matches
      <4>2. PhysOf(r, w) # 0
        BY <1>1 DEF PhysOf, VirtPages, Region
      <4> QED BY <4>1, <4>2
    <3> QED BY <3>1
  <2>2. Code \in Virt \ VirtPages(r) /\ Walk(tables, Code) # 0
    <3>1. CodeAddrs \in maps \ failed /\ CodeAddrs # r
      BY AddressAssumption DEF IInv, MapsApart
    <3>2. Code \in VirtPages(CodeAddrs) /\ Code \in Virt
      BY RegionsAre
    <3>3. Code \notin VirtPages(r)
      BY <1>6, <3>1, <3>2
    <3>4. Walk(tables, Code) = PhysOf(CodeAddrs, Code)
      BY <1>3, <3>1, <3>2 DEF IInv, Matches
    <3>5. PhysOf(CodeAddrs, Code) = 1
      BY SizeAssumption DEF PhysOf, CodeAddrs, Mapping
    <3> QED BY <3>2, <3>3, <3>4, <3>5
  <2>3. /\ Unmapped(maps, Memory, m, r, r.len) /\ m.status \in {"ok", "assert"}
        /\ m.status = "ok" => (FullBut(tables, 0) => FullBut(m.tables, 0))
    BY <1>1, <1>2, <1>4, <2>1, <2>2, UnmapPagesIs
  <2>4. CASE m.status = "assert"
    <3>1. crashed' = "assert" /\ UNCHANGED <<tables, free, failed, maps>>
      BY <1>5, <2>4 DEF Crash
    <3>2. \E x \in maps \ {DynAddrs} : x.type = "canonical" /\ DynAddrs.pbase \in PhysPages(x)
      BY <2>3, <2>4, CanEnterUnless DEF IInv, MapsApart, Unmapped
    <3>3. CrashExplained'
      BY <3>1, <3>2 DEF CrashExplained
    <3> QED BY <1>3, <3>1, <3>3 DEF Crashes
  <2>5. CASE m.status = "ok"
    <3>1. /\ tables' = m.tables /\ free' = m.free /\ crashed' = "no" /\ failed' = failed
          /\ maps' = maps \ {r}
      BY <1>3, <1>5, <2>5 DEF Write, Removed
    <3>2. Shape(tables', free')
      BY <2>3, <3>1 DEF Unmapped, Sound
    <3>3. \A w \in VirtPages(r) : w < r.vbase + r.len
      BY <1>1 DEF VirtPages, Region
    <3>4. Removes(r)
      BY <1>2, <2>3, <2>5, <3>1, <3>3 DEF Unmapped, Removes
    <3> QED BY <1>3, <1>8, <2>3, <2>5, <3>1, <3>2, <3>4
  <2> QED BY <2>3, <2>4, <2>5
<1> QED BY <1>7, <1>8

\* A region of one page lacks three tables at the most.
LEMMA LacksFew ==
  ASSUME NEW r, Region(r), r.len = 1, NEW t
  PROVE  Cardinality(Lacking(t, r)) \in Nat /\ Cardinality(Lacking(t, r)) <= 3
<1> DEFINE x == <<2, Part(r.vbase, 1)>>
           y == <<3, Part(r.vbase, 2)>>
           z == <<4, Part(r.vbase, 3)>>
<1>1. x # y /\ y # z /\ x # z
  OBVIOUS
<1>2. VirtPages(r) = {r.vbase}
  BY DEF VirtPages, Region
<1>3. Lacking(t, r) \subseteq {x, y, z}
  <2>1. ASSUME NEW e \in Lacking(t, r)
        PROVE  e \in {x, y, z}
    <3>1. PICK l \in 1 .. 3, w \in VirtPages(r) : e = <<l + 1, Part(w, l)>>
      BY LackingIs DEF Region
    <3>2. w = r.vbase
      BY <1>2
    <3>3. l = 1 \/ l = 2 \/ l = 3
      OBVIOUS
    <3> QED BY <3>1, <3>2, <3>3
  <2> QED BY <2>1
<1> HIDE DEF x, y, z
<1>4. IsFiniteSet({x, y, z}) /\ Cardinality({x, y, z}) = 3
  <2>1. IsFiniteSet({x}) /\ Cardinality({x}) = 1
    BY FS_Singleton
  <2>2. IsFiniteSet({x} \cup {y}) /\ Cardinality({x} \cup {y}) = 2
    BY <1>1, <2>1, FS_AddElement
  <2>3. z \notin {x} \cup {y}
    BY <1>1
  <2>4. IsFiniteSet(({x} \cup {y}) \cup {z}) /\ Cardinality(({x} \cup {y}) \cup {z}) = 3
    BY <2>2, <2>3, FS_AddElement
  <2>5. ({x} \cup {y}) \cup {z} = {x, y, z}
    OBVIOUS
  <2> QED BY <2>4, <2>5
<1>5. Cardinality(Lacking(t, r)) <= Cardinality({x, y, z}) /\ IsFiniteSet(Lacking(t, r))
  BY <1>3, <1>4, FS_Subset
<1> QED BY <1>4, <1>5, FS_CardinalityType

\* Before paging_init: only the first table is in use, and it is empty.
LEMMA EmptyIs ==
  ASSUME NEW t, t = [x \in Tables |-> EmptyTable]
  PROVE  /\ Shape(t, Tables \ {Root}) /\ FullBut(t, Root)
         /\ \A w \in Virt : Walk(t, w) = 0
<1>1. t \in [Tables -> Table]
  BY TablesAre
<1>2. ASSUME NEW w \in Virt
      PROVE  \A k \in 2 .. 5 : Found(t, w, k) = 0
  <2>1. Found(t, w, 1) = Root /\ 1 \in 1 .. 4 /\ 2 = 1 + 1
    BY FoundIs
  <2>2. Found(t, w, 2) = Entry(t, Root, w, 1)
    BY <2>1, FoundIs
  <2>3. t[Root] = EmptyTable /\ EmptyTable[Index(w, 1)] = 0
    BY <2>1, TablesAre
  <2>4. Found(t, w, 2) = 0
    BY <2>2, <2>3 DEF Entry
  <2>5. 2 \in 1 .. 5 /\ \A k \in 2 .. 5 : k \in 2 .. 5
    OBVIOUS
  <2> QED BY <2>4, <2>5, NothingBeyond
<1>3. \A w \in Virt : Found(t, w, 1) = Root
  BY FoundIs
<1>4. ASSUME NEW w \in Virt, NEW k \in 1 .. 4, Found(t, w, k) # 0
      PROVE  k = 1 /\ Found(t, w, k) = Root
  <2>1. k = 1 \/ k \in 2 .. 5
    OBVIOUS
  <2> QED BY <1>2, <1>3, <1>4, <2>1
<1>5. \A v, w \in Virt : Together(v, w, 1)
  BY DEF Together
<1>6. Shape(t, Tables \ {Root})
  <2>1. \A v \in Virt, k \in 1 .. 4 :
          Found(t, v, k) # 0 => Found(t, v, k) \in Tables \ (Tables \ {Root})
    BY <1>4, TablesAre
  <2>2. \A v, w \in Virt, k, l \in 1 .. 4 :
          Found(t, v, k) = Found(t, w, l) /\ Found(t, v, k) # 0 => k = l /\ Together(v, w, k)
    BY <1>4, <1>5
  <2>3. ASSUME NEW x \in Tables \ (Tables \ {Root})
        PROVE  \E v \in Virt, k \in 1 .. 4 : Found(t, v, k) = x
    <3>1. x = Root /\ Found(t, Code, 1) = Root /\ Code \in Virt /\ 1 \in 1 .. 4
      BY <1>3, RegionsAre
    <3> QED BY <3>1
  <2> QED BY <1>1, <2>1, <2>2, <2>3 DEF Shape
<1>7. FullBut(t, Root)
  BY <1>4 DEF FullBut
<1>8. \A w \in Virt : Walk(t, w) = 0
  <2>1. 5 \in 2 .. 5
    OBVIOUS
  <2> QED BY <1>2, <2>1, FoundIs
<1> QED BY <1>6, <1>7, <1>8

\* A page is mapped in any memory with three free tables that can be entered.
OneMapped(m, n, r, k) ==
  /\ Sound(n) /\ n.status = "ok" /\ Cardinality(n.free) >= k
  /\ FullBut(m.tables, Root) => FullBut(n.tables, 0)
  /\ \A w \in Virt : Walk(n.tables, w) = IF w = r.vbase THEN r.pbase ELSE Walk(m.tables, w)

LEMMA MapsOne ==
  ASSUME NEW ms, CanEnter(ms), NEW r, Region(r), r.len = 1,
         NEW m, Sound(m), m.status = "ok", NEW k \in Nat, Cardinality(m.free) = k + 3,
         NEW n, n = MapPages(ms, m, r)
  PROVE  OneMapped(m, n, r, k)
<1> USE DEF OneMapped
<1>1. PICK d \in Int : Budget(m, r, d)
  BY BudgetIs DEF Region
<1>2. Mapped(ms, m, n, r, d, r.len)
  BY <1>1, MapPagesIs
<1>3. d <= -k
  BY <1>1, LacksFew DEF Budget
<1>4. n.status = "ok" /\ Sound(n)
  BY <1>2, <1>3 DEF Mapped
<1>5. Cardinality(n.free) >= k
  <2>1. Cardinality(n.free) + d = Cardinality(Lacking(n.tables, r))
    BY <1>2, <1>4 DEF Mapped, Budget
  <2>2. Cardinality(n.free) \in Nat /\ Cardinality(Lacking(n.tables, r)) \in Nat
    <3>1. IsFiniteSet(n.free)
      BY <1>4, FreeIsFinite
    <3> QED BY <3>1, LacksFew, FS_CardinalityType
  <2> QED BY <1>3, <2>1, <2>2
<1>6. FullBut(m.tables, Root) => FullBut(n.tables, 0)
  BY <1>2, <1>4 DEF Mapped
<1>7. VirtPages(r) = {r.vbase} /\ PhysOf(r, r.vbase) = r.pbase /\ r.vbase < r.vbase + r.len
  BY DEF VirtPages, PhysOf, Region
<1>8. ASSUME NEW w \in Virt
      PROVE  Walk(n.tables, w) = IF w = r.vbase THEN r.pbase ELSE Walk(m.tables, w)
  BY <1>2, <1>4, <1>7 DEF Mapped
<1> QED BY <1>4, <1>5, <1>6, <1>8

LEMMA InitInv == Init => IInv
<1> SUFFICES ASSUME Init
             PROVE  IInv
  OBVIOUS
<1> DEFINE ms == {CodeAddrs, DynAddrs}
           t == [x \in Tables |-> EmptyTable]
           empty == [tables |-> t, free |-> Pool \ {Root}, status |-> "ok"]
           first == MapPages(ms, empty, CodeAddrs)
           both == MapPages(ms, first, DynAddrs)
<1>1. maps = ms /\ tables = both.tables /\ free = both.free /\ crashed = "no" /\ failed = {}
  BY DEF Init
<1>2. /\ CodeAddrs.vbase = Code /\ CodeAddrs.pbase = 1 /\ CodeAddrs.len = 1
      /\ DynAddrs.vbase = Dyn /\ DynAddrs.pbase = 2 /\ DynAddrs.len = 1
      /\ CodeAddrs.type = "canonical" /\ DynAddrs.type = "canonical"
      /\ Code # Dyn /\ CodeAddrs # DynAddrs
  BY AddressAssumption DEF CodeAddrs, DynAddrs, Mapping
<1>3. CanEnter(ms)
  <2>1. 2 \in PhysPages(DynAddrs) /\ 2 \notin PhysPages(CodeAddrs)
    BY <1>2 DEF PhysPages
  <2> DEFINE at == {m \in ms : 2 \in PhysPages(m)}
  <2>2. {m \in at : m.type = "canonical"} = {DynAddrs}
    BY <1>2, <2>1
  <2>3. Number(at, "canonical") = 1
    BY <2>2, FS_Singleton DEF Number
  <2> QED BY <1>2, <2>3 DEF CanEnter, Translatable
<1>4. PICK k \in Nat : Cardinality(Tables \ {Root}) = (k + 3) + 3
  <2>1. NumTables \in Nat /\ NumTables >= 7 /\ 1 \in Int
    BY SizeAssumption, RoomAssumption
  <2>2. IsFiniteSet(Tables) /\ Cardinality(Tables) = NumTables
    BY <2>1, FS_Interval DEF Tables
  <2>3. Cardinality(Tables \ {Root}) = NumTables - 1
    BY <2>2, TablesAre, FS_RemoveElement
  <2>4. NumTables - 7 \in Nat /\ NumTables - 1 = ((NumTables - 7) + 3) + 3
    BY <2>1
  <2> QED BY <2>3, <2>4
<1>5. /\ Shape(t, Tables \ {Root}) /\ FullBut(t, Root)
      /\ \A w \in Virt : Walk(t, w) = 0
  BY EmptyIs
<1> HIDE DEF t
<1>6. /\ Sound(empty) /\ empty.status = "ok" /\ empty.tables = t
      /\ empty.free = Tables \ {Root}
  BY <1>5 DEF Sound, Shape, Pool, Status
<1> HIDE DEF ms, empty
<1>7. /\ Sound(first) /\ first.status = "ok" /\ Cardinality(first.free) >= k + 3
      /\ FullBut(first.tables, 0)
      /\ \A w \in Virt : Walk(first.tables, w) = IF w = Code THEN 1 ELSE 0
  <2>1. /\ Sound(first) /\ first.status = "ok" /\ Cardinality(first.free) >= k + 3
        /\ FullBut(empty.tables, Root) => FullBut(first.tables, 0)
        /\ \A w \in Virt : Walk(first.tables, w) =
             IF w = CodeAddrs.vbase THEN CodeAddrs.pbase ELSE Walk(empty.tables, w)
    <3>1. PICK j \in Nat : j = k + 3 /\ Cardinality(empty.free) = j + 3
      <4>1. k + 3 \in Nat /\ Cardinality(empty.free) = (k + 3) + 3
        BY <1>4, <1>6
      <4> QED BY <4>1
    <3> HIDE DEF first
    <3>2. PICK f : f = first
      OBVIOUS
    <3>3. f = MapPages(ms, empty, CodeAddrs)
      BY <3>2 DEF first
    <3>4. OneMapped(empty, f, CodeAddrs, j)
      BY <1>2, <1>3, <1>6, <3>1, <3>3, RegionsAre, MapsOne
    <3> QED BY <3>1, <3>2, <3>4 DEF OneMapped
  <2> QED BY <1>2, <1>5, <1>6, <2>1
<1> HIDE DEF first
<1>8. /\ Sound(both) /\ FullBut(both.tables, 0)
      /\ \A w \in Virt : Walk(both.tables, w) = IF w = Dyn THEN 2 ELSE IF w = Code THEN 1 ELSE 0
  <2>1. PICK j \in Nat : Cardinality(first.free) = j + 3
    <3>1. Cardinality(first.free) \in Nat
      BY <1>7, FreeIsFinite, FS_CardinalityType
    <3>2. Cardinality(first.free) - 3 \in Nat
      BY <1>7, <3>1
    <3>3. Cardinality(first.free) = (Cardinality(first.free) - 3) + 3
      BY <3>1
    <3> QED BY <3>2, <3>3
  <2>2. /\ Sound(both)
        /\ FullBut(first.tables, Root) => FullBut(both.tables, 0)
        /\ \A w \in Virt : Walk(both.tables, w) =
             IF w = DynAddrs.vbase THEN DynAddrs.pbase ELSE Walk(first.tables, w)
    <3> HIDE DEF both
    <3>1. PICK b : b = both
      OBVIOUS
    <3>2. b = MapPages(ms, first, DynAddrs)
      BY <3>1 DEF both
    <3>3. OneMapped(first, b, DynAddrs, j)
      BY <1>2, <1>3, <1>7, <2>1, <3>2, RegionsAre, MapsOne
    <3> QED BY <3>1, <3>3 DEF OneMapped
  <2>3. FullBut(first.tables, Root)
    BY <1>7 DEF FullBut
  <2> QED BY <1>2, <1>7, <2>2, <2>3
<1> HIDE DEF both
<1>9. Shape(tables, free) /\ FullBut(tables, 0)
  BY <1>1, <1>8 DEF Sound
<1>10. Matches(maps \ failed, tables)
  <2>1. PhysOf(CodeAddrs, Code) = 1 /\ PhysOf(DynAddrs, Dyn) = 2
    BY <1>2, SizeAssumption DEF PhysOf
  <2>2. ASSUME NEW v \in Virt
        PROVE  /\ (\A m \in ms : v \notin VirtPages(m)) => Walk(tables, v) = 0
               /\ \A m \in ms : v \in VirtPages(m) => Walk(tables, v) = PhysOf(m, v)
    BY <1>1, <1>2, <1>8, <2>1, RegionsAre DEF ms
  <2>3. maps \ failed = ms
    BY <1>1
  <2> QED BY <2>2, <2>3 DEF Matches
<1>11. MapsApart
  <2>1. IsFiniteSet(ms) /\ Cardinality(ms) = 2
    <3>1. IsFiniteSet({CodeAddrs}) /\ Cardinality({CodeAddrs}) = 1
      BY FS_Singleton
    <3>2. IsFiniteSet({CodeAddrs} \cup {DynAddrs})
          /\ Cardinality({CodeAddrs} \cup {DynAddrs}) = 2
      BY <1>2, <3>1, FS_AddElement
    <3>3. {CodeAddrs} \cup {DynAddrs} = ms
      BY DEF ms
    <3> QED BY <3>2, <3>3
  <2>2. VirtPages(CodeAddrs) \cap VirtPages(DynAddrs) = {}
    BY <1>2, RegionsAre
  <2>3. \A a, b \in ms : a # b => VirtPages(a) \cap VirtPages(b) = {}
    BY <2>2 DEF ms
  <2>4. 2 <= NumMappings
    BY RoomAssumption, SizeAssumption
  <2>5. ms \subseteq Regions \cup {CodeAddrs, DynAddrs} /\ {CodeAddrs, DynAddrs} \subseteq ms
    BY DEF ms
  <2> QED BY <1>1, <2>1, <2>3, <2>4, <2>5 DEF MapsApart
<1> QED BY <1>1, <1>9, <1>10, <1>11 DEF IInv, CrashExplained

LEMMA NextInv == IInv /\ [Next]_vars => IInv'
<1> SUFFICES ASSUME IInv, [Next]_vars
             PROVE  IInv'
  OBVIOUS
<1>1. ASSUME Crashes, NEW r \in Regions, maps' = maps \cup {r}, MapRegion(r)
      PROVE  IInv'
  <2>1. /\ IsFiniteSet(maps') /\ Cardinality(maps') <= NumMappings /\ r \notin maps
        /\ \A a, b \in maps' : a # b => VirtPages(a) \cap VirtPages(b) = {}
    BY <1>1, MapRegionDoes, AcceptedIs DEF IInv
  <2>2. MapsApart'
    BY <1>1, <2>1 DEF IInv, MapsApart, Crashes
  <2> QED BY <1>1, <2>2 DEF IInv, Crashes, Shape, FullBut
<1>2. ASSUME Crashes, maps' = maps
      PROVE  IInv'
  <2>1. MapsApart'
    BY <1>2 DEF IInv, MapsApart, Crashes
  <2> QED BY <1>2, <2>1 DEF IInv, Crashes, Shape, FullBut
<1>3. ASSUME NEW r \in Regions, MapRegion(r)
      PROVE  IInv'
  <2>1. /\ crashed = "no" /\ maps' = maps \cup {r} /\ Accepts(r)
        /\ \/ Crashes
           \/ /\ crashed' = "no" /\ Shape(tables', free')
              /\ failed' = failed /\ Adds(r)
              /\ FullBut(tables, 0) => FullBut(tables', 0)
           \/ /\ crashed' = "no" /\ Shape(tables', free')
              /\ failed' = failed \cup {r} /\ Keeps
    BY <1>3, MapRegionDoes
  <2>2. /\ r \notin maps /\ \A m \in maps : VirtPages(m) \cap VirtPages(r) = {}
        /\ IsFiniteSet(maps \cup {r}) /\ Cardinality(maps \cup {r}) <= NumMappings
        /\ \A a, b \in maps \cup {r} : a # b => VirtPages(a) \cap VirtPages(b) = {}
    BY <2>1, AcceptedIs DEF IInv
  <2>3. r \notin {CodeAddrs, DynAddrs}
    BY AddressAssumption
  <2>4. CASE Crashes
    BY <1>1, <1>3, <2>1, <2>4
  <2>5. CASE /\ crashed' = "no" /\ Shape(tables', free') /\ failed' = failed /\ Adds(r)
             /\ FullBut(tables, 0) => FullBut(tables', 0)
    <3>1. MapsApart'
      BY <2>1, <2>2, <2>5 DEF IInv, MapsApart
    <3>2. maps' \ failed' = (maps \ failed) \cup {r}
      BY <2>1, <2>2, <2>5 DEF IInv, MapsApart
    <3>3. ASSUME NEW v \in Virt
          PROVE  /\ (\A m \in (maps \ failed) \cup {r} : v \notin VirtPages(m)) =>
                      Walk(tables', v) = 0
                 /\ \A m \in (maps \ failed) \cup {r} :
                      v \in VirtPages(m) => Walk(tables', v) = PhysOf(m, v)
      <4>1. Walk(tables', v) = IF v \in VirtPages(r) THEN PhysOf(r, v) ELSE Walk(tables, v)
        BY <2>5 DEF Adds
      <4>2. /\ (\A m \in maps \ failed : v \notin VirtPages(m)) => Walk(tables, v) = 0
            /\ \A m \in maps \ failed : v \in VirtPages(m) => Walk(tables, v) = PhysOf(m, v)
        BY <2>1 DEF IInv, Matches
      <4> QED BY <2>2, <4>1, <4>2
    <3>4. Matches(maps' \ failed', tables')
      BY <3>2, <3>3 DEF Matches
    <3> QED BY <2>5, <3>1, <3>4 DEF IInv, CrashExplained
  <2>6. CASE /\ crashed' = "no" /\ Shape(tables', free')
             /\ failed' = failed \cup {r} /\ Keeps
    <3>1. MapsApart'
      BY <2>1, <2>2, <2>3, <2>6 DEF IInv, MapsApart
    <3>2. maps' \ failed' = maps \ failed
      BY <2>1, <2>2, <2>6 DEF IInv, MapsApart
    <3>3. Matches(maps' \ failed', tables')
      BY <2>1, <2>6, <3>2 DEF IInv, Matches, Keeps
    <3>4. failed' # {}
      BY <2>6
    <3> QED BY <2>6, <3>1, <3>3, <3>4 DEF IInv, CrashExplained
  <2> QED BY <2>1, <2>4, <2>5, <2>6
<1>4. ASSUME NEW r \in Regions, UnmapRegion(r)
      PROVE  IInv'
  <2>1. /\ crashed = "no" /\ r \in maps
        /\ \/ Crashes /\ maps' = maps
           \/ crashed' = "no" /\ r \in failed /\ UNCHANGED <<maps, tables, free, failed>>
           \/ /\ crashed' = "no" /\ r \notin failed /\ Shape(tables', free')
              /\ failed' = failed /\ maps' = maps \ {r} /\ Removes(r)
              /\ FullBut(tables, 0) => FullBut(tables', 0)
    BY <1>4, UnmapRegionDoes
  <2>2. r \notin {CodeAddrs, DynAddrs}
    BY AddressAssumption
  <2>3. CASE crashed' = "no" /\ UNCHANGED <<maps, tables, free, failed>>
    <3>1. MapsApart'
      BY <2>3 DEF IInv, MapsApart
    <3>2. Matches(maps' \ failed', tables')
      BY <2>1, <2>3 DEF IInv, Matches
    <3>3. Shape(tables', free') /\ (failed' = {} => FullBut(tables', 0))
      BY <2>3 DEF IInv
    <3> QED BY <2>3, <3>1, <3>2, <3>3 DEF IInv, CrashExplained
  <2>4. CASE /\ crashed' = "no" /\ r \notin failed /\ Shape(tables', free')
             /\ failed' = failed /\ maps' = maps \ {r} /\ Removes(r)
             /\ FullBut(tables, 0) => FullBut(tables', 0)
    <3>1. IsFiniteSet(maps') /\ Cardinality(maps') <= NumMappings
      <4>1. IsFiniteSet(maps) /\ Cardinality(maps) <= NumMappings /\ NumMappings \in Nat
        BY SizeAssumption DEF IInv, MapsApart
      <4>2. IsFiniteSet(maps') /\ Cardinality(maps') <= Cardinality(maps)
        BY <2>4, <4>1, FS_Subset
      <4> QED BY <4>1, <4>2, FS_CardinalityType
    <3>2. MapsApart'
      BY <2>2, <2>4, <3>1 DEF IInv, MapsApart
    <3>3. maps' \ failed' = (maps \ failed) \ {r} /\ r \in maps \ failed
      BY <2>1, <2>4
    <3>4. ASSUME NEW v \in Virt
          PROVE  /\ (\A m \in (maps \ failed) \ {r} : v \notin VirtPages(m)) =>
                      Walk(tables', v) = 0
                 /\ \A m \in (maps \ failed) \ {r} :
                      v \in VirtPages(m) => Walk(tables', v) = PhysOf(m, v)
      <4>1. Walk(tables', v) = IF v \in VirtPages(r) THEN 0 ELSE Walk(tables, v)
        BY <2>4 DEF Removes
      <4>2. /\ (\A m \in maps \ failed : v \notin VirtPages(m)) => Walk(tables, v) = 0
            /\ \A m \in maps \ failed : v \in VirtPages(m) => Walk(tables, v) = PhysOf(m, v)
        BY <2>1 DEF IInv, Matches
      <4>3. \A m \in maps \ {r} : VirtPages(m) \cap VirtPages(r) = {}
        BY <2>1 DEF IInv, MapsApart
      <4> QED BY <3>3, <4>1, <4>2, <4>3
    <3>5. Matches(maps' \ failed', tables')
      BY <3>3, <3>4 DEF Matches
    <3> QED BY <2>4, <3>2, <3>5 DEF IInv, CrashExplained
  <2> QED BY <1>2, <2>1, <2>3, <2>4
<1>5. CASE UNCHANGED vars
  <2>1. MapsApart' /\ CrashExplained'
    BY <1>5 DEF IInv, MapsApart, CrashExplained, Missing, vars
  <2>2. Shape(tables', free') /\ (failed' = {} => FullBut(tables', 0))
    BY <1>5 DEF IInv, vars
  <2>3. crashed' = "no" => Matches(maps' \ failed', tables')
    BY <1>5 DEF IInv, vars
  <2> QED BY <2>1, <2>2, <2>3 DEF IInv
<1> QED BY <1>3, <1>4, <1>5 DEF Next

LEMMA Invariance == Spec => []IInv
  BY InitInv, NextInv, PTL DEF Spec

-----------------------------------------------------------------------------
(***************************************************************************)
(* The theorems.                                                           *)
(***************************************************************************)
\* The tables in use are those that are found on the way to an address.
LEMMA ReachedIs ==
  ASSUME NEW k \in 1 .. 4, NEW x
  PROVE  x \in Reached(k) <=> x # 0 /\ \E v \in Virt : Found(tables, v, k) = x
<1>1. \A v \in Virt : TableFor(tables, v, k) = Found(tables, v, k)
  BY FoundIs
<1> QED BY <1>1 DEF Reached

LEMMA Accounted ==
  ASSUME Shape(tables, free)
  PROVE  TablesAccounted
<1>1. ASSUME NEW x
      PROVE  x \in InUse <=> x \in Tables \ free
  <2>1. ASSUME x \in InUse
        PROVE  x \in Tables \ free
    <3>1. PICK k \in 1 .. 4 : x \in Reached(k)
      BY <2>1 DEF InUse
    <3>2. PICK v \in Virt : x # 0 /\ Found(tables, v, k) = x
      BY <3>1, ReachedIs
    <3> QED BY <3>2 DEF Shape
  <2>2. ASSUME x \in Tables \ free
        PROVE  x \in InUse
    <3>1. PICK v \in Virt, k \in 1 .. 4 : Found(tables, v, k) = x
      BY <2>2 DEF Shape
    <3>2. x \in Reached(k)
      BY <2>2, <3>1, ReachedIs, TablesAre
    <3> QED BY <3>2 DEF InUse
  <2> QED BY <2>1, <2>2
<1>2. InUse \cup free = Tables /\ InUse \cap free = {}
  <2>1. free \subseteq Tables
    BY DEF Shape
  <2> QED BY <1>1, <2>1
<1>3. ASSUME NEW k \in 1 .. 4, NEW l \in 1 .. 4, k # l
      PROVE  Reached(k) \cap Reached(l) = {}
  <2>1. ASSUME NEW x, x \in Reached(k), x \in Reached(l)
        PROVE  FALSE
    <3>1. PICK v \in Virt : x # 0 /\ Found(tables, v, k) = x
      BY <2>1, ReachedIs
    <3>2. PICK w \in Virt : Found(tables, w, l) = x
      BY <2>1, ReachedIs
    <3> QED BY <1>3, <3>1, <3>2 DEF Shape
  <2> QED BY <2>1
<1>4. ASSUME NEW level \in 2 .. 4, NEW v \in Virt, NEW w \in Virt,
             TableFor(tables, v, level) \in Reached(level),
             TableFor(tables, v, level) = TableFor(tables, w, level)
      PROVE  v \div Span(level - 1) = w \div Span(level - 1)
  <2>1. level \in 1 .. 4 /\ level - 1 \in 1 .. 4 /\ (level - 1) + 1 = level
    OBVIOUS
  <2>2. Found(tables, v, level) = Found(tables, w, level) /\ Found(tables, v, level) # 0
    BY <1>4, <2>1, FoundIs, ReachedIs
  <2>3. Together(v, w, (level - 1) + 1)
    BY <2>1, <2>2 DEF Shape
  <2>4. Part(v, level - 1) = Part(w, level - 1)
    BY <2>1, <2>3, TogetherIs
  <2> QED BY <2>4 DEF Part
<1> QED BY <1>2, <1>3, <1>4 DEF TablesAccounted

\* No table page is lost, shared or given back twice, and a table without
\* entries is given back.
THEOREM TablesAlwaysCorrect == Spec => []TablesCorrect
<1>1. IInv => TablesCorrect
  <2> SUFFICES ASSUME IInv
               PROVE  TablesCorrect
    OBVIOUS
  <2>1. TypeOK
    BY DEF IInv, MapsApart, Shape, TypeOK
  <2>2. TablesAccounted
    BY Accounted DEF IInv
  <2>3. NoEmptyTables
    <3>1. ASSUME failed = {}, NEW x \in InUse
          PROVE  tables[x] # EmptyTable
      <4>1. PICK k \in 1 .. 4 : x \in Reached(k)
        BY DEF InUse
      <4>2. PICK v \in Virt : x # 0 /\ Found(tables, v, k) = x
        BY <4>1, ReachedIs
      <4> QED BY <3>1, <4>2 DEF IInv, FullBut
    <3> QED BY <3>1 DEF NoEmptyTables
  <2> QED BY <2>1, <2>2, <2>3 DEF TablesCorrect
<1> QED BY <1>1, Invariance, PTL

\* The processor finds a page where the mapping that covers it says, and
\* nothing elsewhere or for a region that could not be mapped.
THEOREM WalkAlwaysMatches == Spec => []WalkMatches
<1>1. IInv => WalkMatches
  <2> SUFFICES ASSUME IInv, crashed = "no", NEW v \in Virt,
                      NEW covering, covering = {m \in maps \ failed : v \in VirtPages(m)}
               PROVE  IF covering = {} THEN Walk(tables, v) = 0
                      ELSE \A m \in covering : Walk(tables, v) = PhysOf(m, v)
    BY DEF WalkMatches
  <2>1. Matches(maps \ failed, tables)
    BY DEF IInv
  <2>2. CASE covering = {}
    BY <2>1, <2>2 DEF Matches
  <2>3. CASE covering # {}
    BY <2>1, <2>3 DEF Matches
  <2> QED BY <2>2, <2>3
<1> QED BY <1>1, Invariance, PTL

\* The kernel stops only if the pool has too few tables for a region, or for
\* a second canonical mapping of the tables' memory.
THEOREM CrashAlwaysExplained == Spec => []CrashExplained
<1>1. IInv => CrashExplained
  BY DEF IInv
<1> QED BY <1>1, Invariance, PTL

Space == [v \in Virt |-> Walk(tables, v)]

\* A region that is mapped or unmapped is a step of the page map.
LEMMA PageMapInit == IInv => Abstract!Init
<1> SUFFICES ASSUME IInv, NEW v \in Virt
             PROVE  Walk(tables, v) \in Nat
  BY DEF Abstract!Init
<1>1. 4 \in 1 .. 4 /\ 4 + 1 = 5
  OBVIOUS
<1>2. PICK x : x = Found(tables, v, 4)
  OBVIOUS
<1>3. Walk(tables, v) = Entry(tables, x, v, 4)
  BY <1>1, <1>2, FoundIs
<1>4. CASE x = 0
  BY <1>3, <1>4 DEF Entry
<1>5. CASE x # 0
  <2>1. x \in Tables /\ tables \in [Tables -> Table]
    BY <1>1, <1>2, <1>5 DEF IInv, Shape
  <2>2. tables[x] \in Table /\ Index(v, 4) \in 0 .. Fanout - 1
    BY <1>1, <2>1, TablesAre
  <2>3. tables[x][Index(v, 4)] \in Nat
    BY <2>2 DEF Table
  <2> QED BY <1>3, <1>5, <2>3 DEF Entry
<1> QED BY <1>4, <1>5

LEMMA PageMapNext == IInv /\ [Next]_vars => [Abstract!Next]_Space
<1> SUFFICES ASSUME IInv, [Next]_vars
             PROVE  [Abstract!Next]_Space
  OBVIOUS
<1>1. ASSUME \A v \in Virt : Walk(tables', v) = Walk(tables, v)
      PROVE  Space' = Space
  BY <1>1 DEF Space
<1>2. ASSUME NEW r \in Regions, MapRegion(r)
      PROVE  Abstract!Map(r) \/ Space' = Space
  <2>1. /\ crashed = "no" /\ Accepts(r)
        /\ UNCHANGED tables \/ Adds(r) \/ Keeps
    BY <1>2, MapRegionDoes DEF Crashes
  <2>2. CASE Adds(r)
    <3>1. \A m \in maps : VirtPages(m) \cap VirtPages(r) = {}
      BY <2>1, AcceptedIs DEF IInv
    <3>2. \A v \in VirtPages(r) : v \in Virt /\ Walk(tables, v) = 0
      BY <2>1, <3>1, RegionsAre DEF IInv, Matches, Region
    <3>3. Abstract!Pages(r) = VirtPages(r)
      BY DEF Abstract!Pages, VirtPages
    <3>4. \A v \in Virt : Walk(tables', v) = IF v \in VirtPages(r) THEN r.pbase + (v - r.vbase)
                                             ELSE Walk(tables, v)
      BY <2>2 DEF Adds, PhysOf
    <3> QED BY <3>2, <3>3, <3>4 DEF Abstract!Map
  <2>3. CASE UNCHANGED tables \/ Keeps
    BY <1>1, <2>3 DEF Keeps
  <2> QED BY <2>1, <2>2, <2>3
<1>3. ASSUME NEW r \in Regions, UnmapRegion(r)
      PROVE  Abstract!Unmap(r) \/ Space' = Space
  <2>1. /\ crashed = "no" /\ r \in maps
        /\ UNCHANGED tables \/ (r \notin failed /\ Removes(r))
    BY <1>3, UnmapRegionDoes DEF Crashes
  <2>2. CASE r \notin failed /\ Removes(r)
    <3>1. \A v \in VirtPages(r) : v \in Virt /\ Walk(tables, v) = PhysOf(r, v)
      BY <2>1, <2>2, RegionsAre DEF IInv, Matches, Region
    <3>2. Abstract!Pages(r) = VirtPages(r)
      BY DEF Abstract!Pages, VirtPages
    <3>3. \A v \in Virt : Walk(tables', v) = IF v \in VirtPages(r) THEN 0 ELSE Walk(tables, v)
      BY <2>2 DEF Removes
    <3> QED BY <3>1, <3>2, <3>3 DEF Abstract!Unmap, PhysOf
  <2>3. CASE UNCHANGED tables
    BY <1>1, <2>3
  <2> QED BY <2>1, <2>2, <2>3
<1>4. CASE UNCHANGED vars
  BY <1>4 DEF vars, Space
<1> QED BY <1>2, <1>3, <1>4 DEF Next, Abstract!Next

\* The page tables implement the map of pages, to which regions are added and
\* from which they are removed as a whole, whatever fails in between.
THEOREM TablesImplementPageMap == Spec => ImplementsPageMap
<1>1. Abstract!Spec <=> Abstract!Init /\ [][Abstract!Next]_Space
  BY DEF Abstract!Spec, Space
<1> QED BY <1>1, InitInv, PageMapInit, PageMapNext, Invariance, PTL DEF Spec, ImplementsPageMap
=============================================================================
