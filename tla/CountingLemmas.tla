--------------------------- MODULE CountingLemmas ---------------------------
(***************************************************************************)
(* Facts about finite sets of positions that the proofs about groups rest  *)
(* on: counting them, their smallest element, the one with a given rank,   *)
(* and the existence of a function defined by recursion on a position.     *)
(***************************************************************************)
EXTENDS Integers, FiniteSets, FiniteSetTheorems, WellFoundedInduction, TLAPS

(* A set of positions up to n is finite and has at most n elements. *)
LEMMA CountedPositions ==
    ASSUME NEW n \in Nat, NEW S \in SUBSET (1 .. n)
    PROVE  /\ IsFiniteSet(S)
           /\ Cardinality(S) \in 0 .. n
           /\ Cardinality(S) = 0 <=> S = {}
<1>1. /\ IsFiniteSet(1 .. n)
      /\ Cardinality(1 .. n) = n
  BY FS_Interval
<1>2. IsFiniteSet(S) /\ Cardinality(S) <= n
  BY <1>1, FS_Subset
<1>3. Cardinality(S) \in Nat
  BY <1>2, FS_CardinalityType
<1>4. Cardinality(S) = 0 <=> S = {}
  BY <1>2, FS_EmptySet
<1> QED
  BY <1>2, <1>3, <1>4

(* A non-empty set of naturals has a smallest element. *)
LEMMA SmallestOf ==
    ASSUME NEW T \in SUBSET Nat, T # {}
    PROVE  \E x \in T : \A y \in T : x <= y
<1> DEFINE R == OpToRel(<, Nat)
<1>1. IsWellFoundedOn(R, Nat)
  BY NatLessThanWellFounded
<1>2. \A x, y \in Nat : x < y => <<x, y>> \in R
  BY DEF OpToRel
<1> HIDE DEF R
<1>3. PICK x \in T : \A y \in T : ~ (<<y, x>> \in R)
  BY <1>1, WFMin
<1>4. \A y \in T : x <= y
  <2> SUFFICES ASSUME NEW y \in T PROVE x <= y
    OBVIOUS
  <2>1. x \in Nat /\ y \in Nat
    OBVIOUS
  <2>2. ~ (y < x)
    BY <2>1, <1>2, <1>3
  <2> QED
    BY <2>1, <2>2
<1> QED
  BY <1>4

(* What one value has and each value passes on to the next, all have. *)
LEMMA StaysIn ==
    ASSUME NEW a \in Nat, NEW m \in Nat, NEW T, NEW h, h[a] \in T,
           \A n \in a + 1 .. m : h[n - 1] \in T => h[n] \in T
    PROVE  \A n \in a .. m : h[n] \in T
<1> DEFINE Wrong == {n \in a .. m : h[n] \notin T}
<1>1. SUFFICES ASSUME Wrong # {} PROVE FALSE
  OBVIOUS
<1>2. PICK n \in Wrong : \A k \in Wrong : n <= k
  <2>1. Wrong \in SUBSET Nat
    OBVIOUS
  <2> HIDE DEF Wrong
  <2> QED
    BY <1>1, <2>1, SmallestOf
<1>3. n # a /\ n \in a + 1 .. m /\ n - 1 \in a .. m /\ ~ (n <= n - 1)
  BY <1>2
<1>4. h[n - 1] \in T
  BY <1>2, <1>3
<1> QED
  BY <1>3, <1>4

(* f starts with base, and step[n] leads from the value before n to the    *)
(* one at n.                                                               *)
Iterates(f, a, m, T, base, step) ==
    /\ f \in [a .. m -> T]
    /\ f[a] = base
    /\ \A n \in a + 1 .. m : f[n] = step[n][f[n - 1]]

(* A value and functions that lead from each value to the next make a      *)
(* sequence of any length: what a function defined by recursion on a       *)
(* number needs in order to satisfy its definition.                        *)
LEMMA IterationExists ==
    ASSUME NEW a \in Nat, NEW m \in Nat, a <= m,
           NEW T, NEW base \in T, NEW step \in [Nat -> [T -> T]]
    PROVE  \E f : Iterates(f, a, m, T, base, step)
<1> DEFINE Has(f, k) == Iterates(f, a, a + k, T, base, step)
           Missing == {k \in Nat : ~ \E f : Has(f, k)}
<1>1. ASSUME NEW k \in Nat, \A j \in Missing : k <= j PROVE k \notin Missing
  <2>1. CASE k = 0
    <3> DEFINE f == [n \in a .. a + k |-> base]
    <3>1. Has(f, k)
      BY <2>1 DEF Iterates
    <3> QED
      BY <3>1
  <2>2. CASE k # 0
    <3> DEFINE b == a + (k - 1)
               c == a + k
    <3>1. /\ k - 1 \in Nat /\ ~ (k <= k - 1)
          /\ b \in Nat /\ c \in Nat /\ c = b + 1 /\ a <= b
      BY <2>2
    <3>2. PICK f : Has(f, k - 1)
      BY <1>1, <3>1
    <3>3. Iterates(f, a, b, T, base, step)
      BY <3>2
    <3> HIDE DEF b, c, Has
    <3> DEFINE g == [n \in a .. c |-> IF n = c THEN step[c][f[b]] ELSE f[n]]
    <3>4. \A n \in a .. c : n # c => n \in a .. b
      BY <3>1
    <3>5. f[b] \in T /\ \A n \in a .. b : f[n] \in T
      <4>1. b \in a .. b
        BY <3>1
      <4> QED
        BY <3>3, <4>1 DEF Iterates
    <3>6. g \in [a .. c -> T]
      BY <3>1, <3>4, <3>5
    <3>7. a \in a .. c /\ a # c /\ g[a] = base
      BY <3>1, <3>3 DEF Iterates
    <3>8. ASSUME NEW n \in a + 1 .. c PROVE g[n] = step[n][g[n - 1]]
      <4>1. n \in a .. c /\ n - 1 \in a .. c /\ n - 1 # c
        BY <3>1
      <4>2. g[n - 1] = f[n - 1]
        BY <4>1
      <4>3. CASE n = c
        <5>1. n - 1 = b
          BY <3>1, <4>3
        <5> QED
          BY <4>1, <4>2, <4>3, <5>1
      <4>4. CASE n # c
        <5>1. n \in a + 1 .. b
          BY <3>1, <4>4
        <5>2. f[n] = step[n][f[n - 1]]
          BY <3>3, <5>1 DEF Iterates
        <5> QED
          BY <4>1, <4>2, <4>4, <5>2
      <4> QED
        BY <4>3, <4>4
    <3> HIDE DEF g
    <3>9. Has(g, k)
      BY <3>6, <3>7, <3>8 DEF Iterates, Has, c
    <3> QED
      BY <3>9
  <2> QED
    BY <2>1, <2>2
<1>2. Missing = {}
  <2> HIDE DEF Has
  <2>1. SUFFICES ASSUME Missing # {} PROVE FALSE
    OBVIOUS
  <2>2. PICK k \in Missing : \A j \in Missing : k <= j
    BY <2>1, SmallestOf
  <2> QED
    BY <1>1, <2>2
<1>3. m - a \in Nat /\ a + (m - a) = m
  OBVIOUS
<1>4. PICK f : Has(f, m - a)
  <2> HIDE DEF Has
  <2> QED
    BY <1>2, <1>3
<1> QED
  BY <1>3, <1>4

(* A walk along a finite line that steps forward until it meets a stop or  *)
(* leaves the line: where it ends is defined by recursion on the place.    *)
(* The recursion has a solution, and every solution ends at a stop.        *)
IsWalk(f, D, stops, next, other) ==
    f = [o \in D |-> IF o \in stops THEN o
                     ELSE IF next[o] \in D THEN f[next[o]] ELSE other]

LEMMA WalkExists ==
    ASSUME NEW n \in Nat, NEW D \in SUBSET (0 .. n), NEW stops, NEW next, NEW other,
           \A o \in D : next[o] \in D => o < next[o]
    PROVE  \E f : IsWalk(f, D, stops, next, other)
<1> DEFINE End(f, o) == IF o \in stops THEN o ELSE IF next[o] \in D THEN f[next[o]] ELSE other
           Last(k) == {o \in D : o + k > n}
           Solves(f, k) == f = [o \in Last(k) |-> End(f, o)]
           Missing == {k \in Nat : ~ \E f : Solves(f, k)}
<1>1. \A o \in D : o \in Nat /\ o <= n
  OBVIOUS
<1>2. ASSUME NEW k \in Nat, \A j \in Missing : k <= j PROVE k \notin Missing
  <2>1. CASE k = 0
    <3>1. Last(0) = {}
      <4>1. \A o \in Nat : o <= n => ~ (o + 0 > n)
        OBVIOUS
      <4> QED
        BY <1>1, <4>1
    <3> DEFINE f == [o \in {} |-> 0]
    <3>2. f = [o \in {} |-> End(f, o)]
      OBVIOUS
    <3>3. Solves(f, 0)
      BY <3>1, <3>2
    <3> HIDE DEF Solves
    <3> QED
      BY <2>1, <3>3
  <2>2. CASE k # 0
    <3>1. k - 1 \in Nat /\ ~ (k <= k - 1)
      BY <2>2
    <3>2. PICK f : Solves(f, k - 1)
      <4> HIDE DEF Solves
      <4> QED
        BY <1>2, <3>1
    <3> DEFINE g == [o \in Last(k) |-> IF o \in Last(k - 1) THEN f[o] ELSE End(f, o)]
    <3>3. \A o \in Last(k) : next[o] \in D => next[o] \in Last(k - 1)
      <4>1. \A o, q \in Nat : o + k > n /\ o < q => q + (k - 1) > n
        BY <3>1
      <4> QED
        BY <1>1, <4>1
    <3>4. Last(k - 1) \subseteq Last(k)
      <4>1. \A o \in Nat : o + (k - 1) > n => o + k > n
        BY <3>1
      <4> QED
        BY <1>1, <4>1
    <3>5. \A o \in Last(k - 1) : f[o] = End(f, o)
      <4> HIDE DEF End, Last
      <4> QED
        BY <3>2
    <3>6. \A o \in Last(k) : g[o] = End(f, o)
      <4> HIDE DEF End, Last
      <4> QED
        BY <3>5
    <3>7. \A o \in Last(k - 1) : g[o] = f[o]
      <4> HIDE DEF End, Last
      <4> QED
        BY <3>4
    <3>8. \A o \in Last(k) : g[o] = End(g, o)
      <4> SUFFICES ASSUME NEW o \in Last(k) PROVE End(f, o) = End(g, o)
        <5> HIDE DEF End, Last, g
        <5> QED
          BY <3>6
      <4>1. next[o] \in D => g[next[o]] = f[next[o]]
        <5> HIDE DEF g, Last
        <5> QED
          BY <3>3, <3>7
      <4> HIDE DEF g, Last
      <4> QED
        BY <4>1
    <3>9. g = [o \in Last(k) |-> g[o]]
      OBVIOUS
    <3> HIDE DEF g, End, Last
    <3>10. Solves(g, k)
      BY <3>8, <3>9
    <3> QED
      BY <3>10
  <2> QED
    BY <2>1, <2>2
<1>3. Missing = {}
  <2> HIDE DEF Solves
  <2>1. SUFFICES ASSUME Missing # {} PROVE FALSE
    OBVIOUS
  <2>2. PICK k \in Missing : \A j \in Missing : k <= j
    BY <2>1, SmallestOf
  <2> QED
    BY <1>2, <2>2
<1>4. PICK f : Solves(f, n + 1)
  <2>1. n + 1 \in Nat
    OBVIOUS
  <2> HIDE DEF Solves
  <2> QED
    BY <1>3, <2>1
<1>5. Last(n + 1) = D
  <2>1. \A o \in Nat : o <= n => o + (n + 1) > n
    OBVIOUS
  <2> QED
    BY <1>1, <2>1
<1>6. IsWalk(f, D, stops, next, other)
  <2> HIDE DEF Last
  <2> QED
    BY <1>4, <1>5 DEF IsWalk
<1> QED
  BY <1>6

LEMMA WalkEnds ==
    ASSUME NEW n \in Nat, NEW D \in SUBSET (0 .. n), NEW stops, NEW next, NEW other,
           \A o \in D : next[o] \in D => o < next[o],
           NEW f, IsWalk(f, D, stops, next, other)
    PROVE  /\ \A o \in D : f[o] = IF o \in stops THEN o
                                  ELSE IF next[o] \in D THEN f[next[o]] ELSE other
           /\ \A o \in D : f[o] \in (D \cap stops) \cup {other}
<1>1. \A o \in D : o \in Nat /\ o <= n /\ n - o \in Nat
  OBVIOUS
<1>2. \A o \in D : f[o] = IF o \in stops THEN o
                         ELSE IF next[o] \in D THEN f[next[o]] ELSE other
  BY DEF IsWalk
<1> DEFINE Wrong == {o \in D : f[o] \notin (D \cap stops) \cup {other}}
           Distances == {n - o : o \in Wrong}
<1>3. ASSUME Wrong # {} PROVE FALSE
  <2>1. Distances \in SUBSET Nat /\ Distances # {}
    BY <1>1, <1>3
  <2>2. PICK d \in Distances : \A e \in Distances : d <= e
    <3> HIDE DEF Distances
    <3> QED
      BY <2>1, SmallestOf
  <2>3. PICK o \in Wrong : d = n - o
    OBVIOUS
  <2>4. /\ o \notin stops /\ next[o] \in D /\ f[o] = f[next[o]] /\ o < next[o]
    BY <1>2
  <2>5. next[o] \in Wrong
    BY <2>4
  <2>6. n - o <= n - next[o]
    <3>1. n - next[o] \in Distances
      BY <2>5
    <3> QED
      BY <2>2, <2>3, <3>1
  <2>7. o \in Nat /\ next[o] \in Nat
    BY <1>1, <2>4
  <2>8. n \in Nat /\ ~ (n - o <= n - next[o])
    BY <2>4, <2>7
  <2> QED
    BY <2>6, <2>8
<1> QED
  BY <1>2, <1>3

(* Among finitely many positions there is one of every rank below their    *)
(* number: the rank of a position counts the ones before it.               *)
LEMMA PositionOfRank ==
    ASSUME NEW n \in Nat, NEW V \in SUBSET (1 .. n),
           NEW k \in Nat, k < Cardinality(V)
    PROVE  \E i \in V : Cardinality({j \in V : j < i}) = k
<1> DEFINE Before(i) == {j \in V : j < i}
           HasRank(r) == \E i \in V : Cardinality(Before(i)) = r
           Missing == {r \in Nat : r < Cardinality(V) /\ ~ HasRank(r)}
<1>1. /\ IsFiniteSet(V)
      /\ Cardinality(V) \in Nat
      /\ V \subseteq Nat
  BY CountedPositions
<1>2. \A i \in V : IsFiniteSet(Before(i)) /\ Cardinality(Before(i)) \in Nat
  BY <1>1, FS_Subset, FS_CardinalityType
<1>3. SUFFICES ASSUME Missing # {} PROVE FALSE
  <2>1. k \notin Missing => HasRank(k)
    OBVIOUS
  <2> QED
    BY <2>1
<1>4. PICK r \in Missing : \A q \in Missing : r <= q
  BY <1>3, SmallestOf
<1>5. r \in Nat /\ r < Cardinality(V) /\ ~ HasRank(r)
  OBVIOUS
<1>6. CASE r = 0
  <2>1. V # {}
    BY <1>1, <1>5, <1>6, FS_EmptySet
  <2>2. PICK i \in V : \A j \in V : i <= j
    BY <1>1, <2>1, SmallestOf
  <2>3. Before(i) = {}
    <3> SUFFICES ASSUME NEW j \in V, j < i PROVE FALSE
      OBVIOUS
    <3>1. i \in Nat /\ j \in Nat /\ i <= j
      BY <2>2, <1>1
    <3> QED
      BY <3>1
  <2>4. Cardinality(Before(i)) = 0
    BY <2>3, FS_EmptySet
  <2> QED
    BY <2>4, <1>5, <1>6
<1>7. CASE r # 0
  <2>1. r - 1 \in Nat /\ r - 1 < Cardinality(V) /\ r - 1 \notin Missing
    BY <1>1, <1>4, <1>5, <1>7
  <2>2. PICK i \in V : Cardinality(Before(i)) = r - 1
    BY <2>1
  <2> DEFINE UpTo == Before(i) \cup {i}
             After == {j \in V : i < j}
  <2>3. i \notin Before(i) /\ UpTo = {j \in V : j <= i}
    <3>1. i \in Nat
      BY <1>1
    <3>2. \A j \in V : j <= i <=> j < i \/ j = i
      <4> SUFFICES ASSUME NEW j \in V PROVE j <= i <=> j < i \/ j = i
        OBVIOUS
      <4>1. j \in Nat
        BY <1>1
      <4> QED
        BY <3>1, <4>1
    <3>3. ~ (i < i)
      BY <3>1
    <3> QED
      BY <3>2, <3>3
  <2>4. Cardinality(UpTo) = r
    <3>1. Cardinality(UpTo) = Cardinality(Before(i)) + 1
      BY <1>2, <2>3, FS_AddElement
    <3> QED
      BY <3>1, <2>2, <1>5
  <2>5. After # {}
    <3>1. SUFFICES ASSUME After = {} PROVE FALSE
      OBVIOUS
    <3>2. \A j \in V : j <= i
      <4> SUFFICES ASSUME NEW j \in V PROVE j <= i
        OBVIOUS
      <4>1. j \in Nat /\ i \in Nat /\ ~ (i < j)
        BY <3>1, <1>1
      <4> QED
        BY <4>1
    <3>3. UpTo = V
      BY <2>3, <3>2
    <3>4. Cardinality(V) = r
      BY <3>3, <2>4
    <3> HIDE DEF Missing, HasRank
    <3> QED
      BY <3>4, <1>1, <1>5
  <2>6. PICK m \in After : \A j \in After : m <= j
    <3>1. After \in SUBSET Nat
      BY <1>1
    <3> HIDE DEF After
    <3> QED
      BY <3>1, <2>5, SmallestOf
  <2>7. Before(m) = UpTo
    <3>1. m \in V /\ i < m /\ m \in Nat /\ i \in Nat
      BY <1>1
    <3>2. \A j \in V : j < m <=> j <= i
      <4> SUFFICES ASSUME NEW j \in V PROVE j < m <=> j <= i
        OBVIOUS
      <4>1. j \in Nat
        BY <1>1
      <4>2. i < j => m <= j
        BY <2>6
      <4> QED
        BY <4>1, <4>2, <3>1
    <3> QED
      BY <2>3, <3>2
  <2> QED
    BY <2>4, <2>7, <1>5
<1> QED
  BY <1>6, <1>7
=============================================================================
