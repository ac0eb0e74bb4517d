----------------------------- MODULE SumLemmas -----------------------------
(***************************************************************************)
(* Lemmas for modules that count: induction over the natural numbers in a  *)
(* form that speaks of sets, functions defined by recursion over them, and *)
(* sums over finite sets (FoldFunction of the community modules).          *)
(***************************************************************************)
EXTENDS Integers, FiniteSets, Functions, FiniteSetTheorems, WellFoundedInduction, TLAPS

\* A set of natural numbers that is not empty has a least element.
LEMMA LeastNatural ==
  ASSUME NEW T \in SUBSET Nat, T # {}
  PROVE  \E n \in T : \A m \in T : n <= m
<1> DEFINE R == OpToRel(<, Nat)
<1>1. IsWellFoundedOn(R, Nat)
  BY NatLessThanWellFounded
<1>2. \A m, n \in T : <<m, n>> \in R <=> m < n
  BY DEF OpToRel
<1> HIDE DEF R
<1>3. PICK n \in T : \A m \in T : <<m, n>> \notin R
  BY <1>1, WFMin
<1>4. \A m \in T : ~(m < n)
  BY <1>2, <1>3
<1> QED BY <1>4

\* What holds for 0, and for n + 1 whenever it holds for n, holds for every
\* natural number: the numbers it holds for are the set T.
LEMMA SetInduction ==
  ASSUME NEW T \in SUBSET Nat, 0 \in T, \A n \in T : n + 1 \in T
  PROVE  T = Nat
<1> SUFFICES ASSUME Nat \ T # {} PROVE FALSE
  OBVIOUS
<1>1. PICK n \in Nat \ T : \A m \in Nat \ T : n <= m
  BY LeastNatural
<1>2. n # 0 /\ n - 1 \in Nat /\ n - 1 < n
  BY <1>1
<1>3. n - 1 \in T
  BY <1>1, <1>2
<1> QED BY <1>1, <1>2, <1>3

\* The same up to a bound.
LEMMA BoundedInduction ==
  ASSUME NEW N \in Nat, NEW T, 0 \in T, \A n \in 0..N : n \in T /\ n + 1 <= N => n + 1 \in T
  PROVE  \A n \in 0..N : n \in T
<1> DEFINE U == {n \in Nat : n <= N => n \in T}
<1>1. 0 \in U
  OBVIOUS
<1>2. ASSUME NEW n \in U PROVE n + 1 \in U
  <2>1. n + 1 <= N => n \in 0..N
    OBVIOUS
  <2> QED BY <2>1
<1>3. U = Nat
  <2>1. U \in SUBSET Nat
    OBVIOUS
  <2> HIDE DEF U
  <2> QED BY <1>1, <1>2, <2>1, SetInduction
<1>4. ASSUME NEW n \in 0..N PROVE n \in T
  <2>1. n \in U
    BY <1>3
  <2> QED BY <2>1
<1> QED BY <1>4

\* A function that begins with first and goes on from i - 1 to i by d[i], up to n.
RunsBy(f, n, first, d) ==
    /\ f[0] = first
    /\ \A i \in 1..n : f[i] = d[i][f[i - 1]]

\* What a recursive definition of this form defines.
Recurs(f, first, d, N) == f = [i \in 0..N |-> IF i = 0 THEN first ELSE d[i][f[i - 1]]]

\* Each step d[i] goes from the set W[i - 1] to the set W[i].
Fits(d, W, N) == \A i \in 1..N : d[i] \in [W[i - 1] -> W[i]]

\* A function that goes on by d wherever it is in W.
Follows(f, first, d, W, N) ==
    /\ f[0] = first
    /\ \A i \in 1..N : f[i - 1] \in W[i - 1] => f[i] = d[i][f[i - 1]]

\* It is in W all along.
LEMMA RunsThrough ==
  ASSUME NEW N \in Nat, NEW W, NEW first, first \in W[0], NEW d, Fits(d, W, N),
         NEW f, Follows(f, first, d, W, N)
  PROVE  \A i \in 0..N : f[i] \in W[i]
<1> DEFINE T == {i \in 0..N : f[i] \in W[i]}
<1>1. 0 \in T
  BY DEF Follows
<1>2. ASSUME NEW i \in 0..N, i \in T, i + 1 <= N PROVE i + 1 \in T
  <2>1. i + 1 \in 1..N /\ i + 1 \in 0..N /\ (i + 1) - 1 = i /\ f[i] \in W[i]
    BY <1>2
  <2>2. f[i + 1] = d[i + 1][f[i]] /\ d[i + 1] \in [W[i] -> W[i + 1]]
    BY <2>1 DEF Fits, Follows
  <2>3. f[i + 1] \in W[i + 1]
    BY <2>1, <2>2
  <2> QED BY <2>1, <2>3
<1> HIDE DEF T
<1>3. \A i \in 0..N : i \in T
  BY <1>1, <1>2, BoundedInduction
<1> QED BY <1>3 DEF T

\* Such a function exists, up to any N: a recursive definition of this form is one.
LEMMA RecursionExists ==
  ASSUME NEW N \in Nat, NEW W, NEW first, first \in W[0], NEW d, Fits(d, W, N)
  PROVE  \E f : Recurs(f, first, d, N) /\ \A i \in 0..N : f[i] \in W[i]
<1> DEFINE T == {n \in 0..N : \E f : RunsBy(f, n, first, d)}
<1>1. 0 \in T
  <2>1. RunsBy([i \in 0..0 |-> first], 0, first, d)
    BY DEF RunsBy
  <2> QED BY <2>1
<1>2. ASSUME NEW n \in 0..N, n \in T, n + 1 <= N PROVE n + 1 \in T
  <2>1. PICK f : RunsBy(f, n, first, d)
    BY <1>2
  <2> DEFINE g == [i \in 0..(n + 1) |-> IF i = n + 1 THEN d[n + 1][f[n]] ELSE f[i]]
  <2>2. (\A i \in 0..n : g[i] = f[i]) /\ g[n + 1] = d[n + 1][f[n]]
    <3>1. \A i \in 0..n : i \in 0..(n + 1) /\ i # n + 1
      OBVIOUS
    <3>2. n + 1 \in 0..(n + 1)
      OBVIOUS
    <3> QED BY <3>1, <3>2
  <2> HIDE DEF g
  <2>3. ASSUME NEW i \in 1..(n + 1) PROVE g[i] = d[i][g[i - 1]]
    <3>1. CASE i = n + 1
      <4>1. i - 1 = n /\ n \in 0..n
        BY <3>1
      <4> QED BY <3>1, <4>1, <2>2
    <3>2. CASE i \in 1..n
      <4>1. i \in 0..n /\ i - 1 \in 0..n
        BY <3>2
      <4> QED BY <3>2, <4>1, <2>1, <2>2 DEF RunsBy
    <3> QED BY <3>1, <3>2
  <2>4. g[0] = first
    <3>1. 0 \in 0..n
      OBVIOUS
    <3> QED BY <2>1, <2>2, <3>1 DEF RunsBy
  <2>5. RunsBy(g, n + 1, first, d)
    BY <2>3, <2>4 DEF RunsBy
  <2> QED BY <1>2, <2>5
<1>3. N \in T
  <2>1. N \in 0..N
    OBVIOUS
  <2> HIDE DEF T
  <2> QED BY <1>1, <1>2, <2>1, BoundedInduction
<1>4. PICK f : RunsBy(f, N, first, d)
  BY <1>3
<1> DEFINE g == [i \in 0..N |-> f[i]]
<1>5. g[0] = first /\ \A i \in 1..N : g[i] = d[i][g[i - 1]]
  <2>1. 0 \in 0..N /\ \A i \in 1..N : i \in 0..N /\ i - 1 \in 0..N
    OBVIOUS
  <2> QED BY <1>4, <2>1 DEF RunsBy
<1>6. g = [i \in 0..N |-> IF i = 0 THEN first ELSE d[i][g[i - 1]]]
  <2> DEFINE h == [i \in 0..N |-> IF i = 0 THEN first ELSE d[i][g[i - 1]]]
  <2>1. ASSUME NEW i \in 0..N PROVE f[i] = h[i]
    <3>1. i = 0 \/ i \in 1..N
      OBVIOUS
    <3>2. g[i] = f[i]
      OBVIOUS
    <3>3. h[i] = IF i = 0 THEN first ELSE d[i][g[i - 1]]
      OBVIOUS
    <3> HIDE DEF g, h
    <3> QED BY <1>5, <3>1, <3>2, <3>3
  <2> QED BY <2>1
<1>7. \A i \in 0..N : g[i] \in W[i]
  <2> HIDE DEF g
  <2>1. Follows(g, first, d, W, N)
    BY <1>5 DEF Follows
  <2> QED BY <2>1, RunsThrough
<1>8. Recurs(g, first, d, N)
  BY <1>6 DEF Recurs
<1> HIDE DEF g
<1> QED BY <1>7, <1>8

\* Both for the integers.
LEMMA RecursionExistsInt ==
  ASSUME NEW N \in Nat, NEW first \in Int, NEW d \in [1..N -> [Int -> Int]]
  PROVE  \E f \in [0..N -> Int] : f = [i \in 0..N |-> IF i = 0 THEN first ELSE d[i][f[i - 1]]]
<1> DEFINE W == [i \in 0..N |-> Int]
<1>1. first \in W[0] /\ (\A i \in 0..N : W[i] = Int) /\ Fits(d, W, N)
  <2>1. 0 \in 0..N /\ \A i \in 1..N : i \in 0..N /\ i - 1 \in 0..N
    OBVIOUS
  <2> QED BY <2>1 DEF Fits
<1> HIDE DEF W
<1>2. PICK f : Recurs(f, first, d, N) /\ \A i \in 0..N : f[i] \in W[i]
  BY <1>1, RecursionExists
<1>3. f = [i \in 0..N |-> IF i = 0 THEN first ELSE d[i][f[i - 1]]]
  BY <1>2 DEF Recurs
<1>4. f \in [0..N -> Int]
  BY <1>1, <1>2, <1>3
<1> QED BY <1>3, <1>4

LEMMA RunsThroughInt ==
  ASSUME NEW N \in Nat, NEW first \in Int, NEW d \in [1..N -> [Int -> Int]], NEW f,
         f[0] = first, \A i \in 1..N : f[i - 1] \in Int => f[i] = d[i][f[i - 1]]
  PROVE  \A n \in 0..N : f[n] \in Int
<1> DEFINE W == [i \in 0..N |-> Int]
<1>1. first \in W[0] /\ (\A i \in 0..N : W[i] = Int) /\ Fits(d, W, N)
  <2>1. 0 \in 0..N /\ \A i \in 1..N : i \in 0..N /\ i - 1 \in 0..N
    OBVIOUS
  <2> QED BY <2>1 DEF Fits
<1> HIDE DEF W
<1>2. Follows(f, first, d, W, N)
  <2>1. \A i \in 1..N : i - 1 \in 0..N
    OBVIOUS
  <2> QED BY <1>1, <2>1 DEF Follows
<1>3. \A i \in 0..N : f[i] \in W[i]
  BY <1>1, <1>2, RunsThrough
<1> QED BY <1>1, <1>3

-----------------------------------------------------------------------------
\* Sums.

\* How FoldFunction adds up f: a set's sum is the value at one of its elements
\* and the sum of the rest.
AddsUp(it, f, S) ==
    it = [s \in SUBSET S |-> IF s = {} THEN 0
                             ELSE LET x == CHOOSE x \in s : TRUE IN f[x] + it[s \ {x}]]

Rest(s) == s \ {CHOOSE x \in s : TRUE}

\* The same for the subsets of at most n elements.
Small(S, n) == {s \in SUBSET S : Cardinality(s) <= n}

AddsSmall(it, f, S, n) ==
    /\ it \in [Small(S, n) -> Int]
    /\ \A s \in Small(S, n) : it[s] = IF s = {} THEN 0 ELSE f[CHOOSE x \in s : TRUE] + it[Rest(s)]

LEMMA RestIsSmaller ==
  ASSUME NEW S, IsFiniteSet(S), NEW s \in SUBSET S, s # {}
  PROVE  /\ (CHOOSE x \in s : TRUE) \in s /\ Rest(s) \in SUBSET S
         /\ Cardinality(s) \in Nat /\ Cardinality(Rest(s)) = Cardinality(s) - 1
<1>1. (CHOOSE x \in s : TRUE) \in s
  OBVIOUS
<1>2. IsFiniteSet(s)
  BY FS_Subset
<1> QED BY <1>1, <1>2, FS_RemoveElement, FS_CardinalityType DEF Rest

LEMMA SmallGoesOn ==
  ASSUME NEW S, IsFiniteSet(S), NEW f \in [S -> Int], NEW n \in Nat, NEW it, AddsSmall(it, f, S, n)
  PROVE  \E jt : AddsSmall(jt, f, S, n + 1)
<1> DEFINE v(s) == IF s = {} THEN 0 ELSE f[CHOOSE x \in s : TRUE] + it[Rest(s)]
           jt == [s \in Small(S, n + 1) |-> v(s)]
<1>1. ASSUME NEW s \in Small(S, n + 1), s # {}
      PROVE  /\ (CHOOSE x \in s : TRUE) \in S /\ Rest(s) \in Small(S, n)
  BY <1>1, RestIsSmaller DEF Small
<1>2. \A s \in Small(S, n + 1) : v(s) \in Int
  <2>1. ASSUME NEW s \in Small(S, n + 1), s # {} PROVE v(s) \in Int
    <3>1. f[CHOOSE x \in s : TRUE] \in Int
      BY <1>1, <2>1
    <3>2. it[Rest(s)] \in Int
      BY <1>1, <2>1 DEF AddsSmall
    <3> QED BY <2>1, <3>1, <3>2
  <2> QED BY <2>1
<1>3. \A s \in Small(S, n) : s \in Small(S, n + 1)
  BY FS_Subset, FS_CardinalityType DEF Small
<1>4. \A s \in Small(S, n) : jt[s] = it[s]
  BY <1>3 DEF AddsSmall
<1>5. jt \in [Small(S, n + 1) -> Int]
  BY <1>2
<1>6. ASSUME NEW s \in Small(S, n + 1)
      PROVE  jt[s] = IF s = {} THEN 0 ELSE f[CHOOSE x \in s : TRUE] + jt[Rest(s)]
  <2>1. s # {} => jt[Rest(s)] = it[Rest(s)]
    BY <1>1, <1>4
  <2>2. jt[s] = v(s)
    OBVIOUS
  <2> QED BY <2>1, <2>2
<1> HIDE DEF jt, v
<1> QED BY <1>5, <1>6 DEF AddsSmall

\* A finite set has a sum, for every function into the integers.
LEMMA SumExists ==
  ASSUME NEW S, IsFiniteSet(S), NEW f \in [S -> Int]
  PROVE  \E it \in [SUBSET S -> Int] : AddsUp(it, f, S)
<1> DEFINE T == {n \in Nat : \E it : AddsSmall(it, f, S, n)}
<1>1. 0 \in T
  <2> DEFINE it == [s \in Small(S, 0) |-> 0]
  <2>1. \A s \in Small(S, 0) : s = {}
    <3> SUFFICES ASSUME NEW s \in SUBSET S, Cardinality(s) <= 0 PROVE s = {}
      BY DEF Small
    <3>1. IsFiniteSet(s)
      BY FS_Subset
    <3> QED BY <3>1, FS_CardinalityType, FS_EmptySet
  <2>2. AddsSmall(it, f, S, 0)
    BY <2>1 DEF AddsSmall
  <2> QED BY <2>2
<1>2. ASSUME NEW n \in T PROVE n + 1 \in T
  <2>1. n \in Nat /\ \E it : AddsSmall(it, f, S, n)
    OBVIOUS
  <2>2. \E it : AddsSmall(it, f, S, n + 1)
    BY <2>1, SmallGoesOn
  <2> QED BY <2>1, <2>2
<1>3. T \in SUBSET Nat
  OBVIOUS
<1>4. Cardinality(S) \in Nat
  BY FS_CardinalityType
<1>5. Cardinality(S) \in T
  <2> HIDE DEF T
  <2> QED BY <1>1, <1>2, <1>3, <1>4, SetInduction
<1>6. PICK it : AddsSmall(it, f, S, Cardinality(S))
  BY <1>5
<1>7. Small(S, Cardinality(S)) = SUBSET S
  BY FS_Subset DEF Small
<1>8. AddsUp(it, f, S) /\ it \in [SUBSET S -> Int]
  BY <1>6, <1>7 DEF AddsUp, AddsSmall, Rest
<1> QED BY <1>8

\* Every subset of a finite set is among the small ones of some size: what holds
\* for the empty set, and for a set whenever it holds for the rest of it, holds
\* for every subset.
LEMMA SubsetInduction ==
  ASSUME NEW S, IsFiniteSet(S), NEW G \in SUBSET SUBSET S, {} \in G,
         \A s \in SUBSET S : s # {} /\ Rest(s) \in G => s \in G
  PROVE  G = SUBSET S
<1> DEFINE T == {n \in Nat : Small(S, n) \subseteq G}
<1>1. 0 \in T
  <2>1. \A s \in Small(S, 0) : s = {}
    <3> SUFFICES ASSUME NEW s \in SUBSET S, Cardinality(s) <= 0 PROVE s = {}
      BY DEF Small
    <3>1. IsFiniteSet(s)
      BY FS_Subset
    <3> QED BY <3>1, FS_CardinalityType, FS_EmptySet
  <2> QED BY <2>1
<1>2. ASSUME NEW n \in T PROVE n + 1 \in T
  <2>1. n \in Nat /\ Small(S, n) \subseteq G
    OBVIOUS
  <2>2. ASSUME NEW s \in Small(S, n + 1), s # {} PROVE s \in G
    <3>1. s \in SUBSET S /\ Rest(s) \in Small(S, n)
      BY <2>1, <2>2, RestIsSmaller DEF Small
    <3> QED BY <2>1, <2>2, <3>1
  <2>3. Small(S, n + 1) \subseteq G
    BY <2>2
  <2> QED BY <2>1, <2>3
<1>3. T \in SUBSET Nat
  OBVIOUS
<1>4. Cardinality(S) \in T
  <2>1. Cardinality(S) \in Nat
    BY FS_CardinalityType
  <2> HIDE DEF T
  <2> QED BY <1>1, <1>2, <1>3, <2>1, SetInduction
<1>5. Small(S, Cardinality(S)) = SUBSET S
  BY FS_Subset DEF Small
<1> QED BY <1>4, <1>5

\* The sum of a function's values.
SumOf(f) == FoldFunction(+, 0, f)

\* FoldFunction is that sum.
LEMMA FoldIsSum ==
  ASSUME NEW S, IsFiniteSet(S), NEW f \in [S -> Int]
  PROVE  \E it \in [SUBSET S -> Int] : AddsUp(it, f, S) /\ SumOf(f) = it[S]
<1> DEFINE it == CHOOSE it : AddsUp(it, f, S)
<1>1. \E u \in [SUBSET S -> Int] : AddsUp(u, f, S)
  BY SumExists
<1>2. AddsUp(it, f, S)
  BY <1>1
<1>3. FoldFunction(+, 0, f) = it[S]
  <2>1. DOMAIN f = S
    OBVIOUS
  <2> QED BY <2>1 DEF FoldFunction, FoldFunctionOnSet, MapThenFoldSet, AddsUp
<1>4. SumOf(f) = it[S]
  BY <1>3 DEF SumOf
<1> HIDE DEF it
<1> DEFINE G == {s \in SUBSET S : it[s] \in Int}
<1>5. {} \in G
  BY <1>2 DEF AddsUp
<1>6. ASSUME NEW s \in SUBSET S, s # {}, Rest(s) \in G PROVE s \in G
  <2>1. it[s] = f[CHOOSE x \in s : TRUE] + it[Rest(s)]
    BY <1>2, <1>6 DEF AddsUp, Rest
  <2>2. f[CHOOSE x \in s : TRUE] \in Int
    BY <1>6, RestIsSmaller
  <2> QED BY <1>6, <2>1, <2>2
<1>7. G = SUBSET S
  <2>1. G \in SUBSET SUBSET S
    OBVIOUS
  <2> HIDE DEF G
  <2> QED BY <1>5, <1>6, <2>1, SubsetInduction
<1>8. it \in [SUBSET S -> Int]
  BY <1>2, <1>7 DEF AddsUp
<1> QED BY <1>2, <1>4, <1>8

\* If functions differ at x alone, so do their sums by what they differ there.
LEMMA SumChanges ==
  ASSUME NEW S, IsFiniteSet(S), NEW f \in [S -> Int], NEW g \in [S -> Int], NEW x \in S,
         \A y \in S \ {x} : g[y] = f[y]
  PROVE  /\ SumOf(f) \in Int /\ SumOf(g) \in Int
         /\ SumOf(g) = SumOf(f) + g[x] - f[x]
<1>1. PICK it \in [SUBSET S -> Int] : AddsUp(it, f, S) /\ SumOf(f) = it[S]
  BY FoldIsSum
<1>2. PICK jt \in [SUBSET S -> Int] : AddsUp(jt, g, S) /\ SumOf(g) = jt[S]
  BY FoldIsSum
<1> DEFINE by(s) == IF x \in s THEN g[x] - f[x] ELSE 0
           G == {s \in SUBSET S : jt[s] = it[s] + by(s)}
<1>3. {} \in G
  BY <1>1, <1>2 DEF AddsUp
<1>4. ASSUME NEW s \in SUBSET S, s # {}, Rest(s) \in G PROVE s \in G
  <2> DEFINE c == CHOOSE y \in s : TRUE
  <2>1. it[s] = f[c] + it[Rest(s)] /\ jt[s] = g[c] + jt[Rest(s)]
    BY <1>1, <1>2, <1>4 DEF AddsUp, Rest
  <2>2. c \in s /\ c \in S /\ Rest(s) = s \ {c} /\ Rest(s) \in SUBSET S
    BY <1>4, RestIsSmaller DEF Rest
  <2>3. jt[Rest(s)] = it[Rest(s)] + by(Rest(s))
    BY <1>4
  <2> HIDE DEF c
  <2>4. f[c] \in Int /\ g[c] \in Int /\ f[x] \in Int /\ g[x] \in Int /\ it[Rest(s)] \in Int
    BY <2>2
  <2>5. CASE c = x
    BY <2>1, <2>2, <2>3, <2>4, <2>5
  <2>6. CASE c # x
    BY <2>1, <2>2, <2>3, <2>4, <2>6
  <2> QED BY <2>5, <2>6
<1>5. S \in G
  <2>1. G \in SUBSET SUBSET S
    OBVIOUS
  <2> HIDE DEF G
  <2> QED BY <1>3, <1>4, <2>1, SubsetInduction
<1>6. g[x] \in Int /\ f[x] \in Int /\ it[S] \in Int /\ jt[S] \in Int
  OBVIOUS
<1> QED BY <1>1, <1>2, <1>5, <1>6

\* Nothing sums up to nothing.
LEMMA SumOfNothing ==
  ASSUME NEW S, IsFiniteSet(S), NEW f \in [S -> Int], \A y \in S : f[y] = 0
  PROVE  SumOf(f) = 0
<1>1. PICK it \in [SUBSET S -> Int] : AddsUp(it, f, S) /\ SumOf(f) = it[S]
  BY FoldIsSum
<1> DEFINE G == {s \in SUBSET S : it[s] = 0}
<1>2. {} \in G
  BY <1>1 DEF AddsUp
<1>3. ASSUME NEW s \in SUBSET S, s # {}, Rest(s) \in G PROVE s \in G
  <2>1. it[s] = f[CHOOSE y \in s : TRUE] + it[Rest(s)]
    BY <1>1, <1>3 DEF AddsUp, Rest
  <2>2. f[CHOOSE y \in s : TRUE] = 0
    BY <1>3, RestIsSmaller
  <2> QED BY <1>3, <2>1, <2>2
<1>4. S \in G
  <2>1. G \in SUBSET SUBSET S
    OBVIOUS
  <2> HIDE DEF G
  <2> QED BY <1>2, <1>3, <2>1, SubsetInduction
<1> QED BY <1>1, <1>4
=============================================================================
