-------------------------------- MODULE Sums --------------------------------
(* What the sums over finite sets of wallets, votes and rows obey. The fold    *)
(* of the community modules picks its elements in some order; the sum does not *)
(* depend on it. Inductions run over a set of good arguments, which the        *)
(* provers can instantiate where they cannot instantiate a predicate.          *)
EXTENDS Integers, FiniteSets, Functions, FiniteSetTheorems, WellFoundedInduction, TLAPS

\* Induction over the subsets of a finite set, for a set of subsets.
LEMMA SubsetInduction ==
  ASSUME NEW S, IsFiniteSet(S), NEW Good,
         \A T \in SUBSET S : (\A U \in SUBSET T : U # T => U \in Good) => T \in Good
  PROVE  SUBSET S \subseteq Good
  <1> DEFINE Bad == {T \in SUBSET S : T \notin Good}
  <1> SUFFICES ASSUME Bad # {} PROVE FALSE
    OBVIOUS
  <1>1. IsWellFoundedOn(StrictSubsetOrdering(S), SUBSET S)
    <2>1. FiniteSubsetsOf(S) = SUBSET S
      BY FS_FiniteSubsetsOfFinite
    <2>2. IsWellFoundedOn(StrictSubsetOrdering(S), FiniteSubsetsOf(S))
      BY FS_StrictSubsetOrderingWellFounded
    <2> QED
      BY <2>1, <2>2, Zenon
  <1>2. PICK T \in Bad : \A U \in Bad : <<U, T>> \notin StrictSubsetOrdering(S)
    <2> Bad \subseteq SUBSET S
      OBVIOUS
    <2> HIDE DEF Bad
    <2> QED
      BY <1>1, WFMin
  <1>3. \A U \in SUBSET T : U # T => U \in Good
    BY <1>2 DEF StrictSubsetOrdering
  <1> QED
    BY <1>2, <1>3

\* The same over the naturals.
LEMMA Induction ==
  ASSUME NEW Good, 0 \in Good, \A n \in Nat : n \in Good => n + 1 \in Good
  PROVE  Nat \subseteq Good
  <1> SUFFICES ASSUME NEW n \in Nat PROVE n \in Good
    OBVIOUS
  <1> DEFINE I == 1..n
             Small == {T \in SUBSET I : Cardinality(T) \in Good}
  <1>1. IsFiniteSet(I) /\ Cardinality(I) = n
    BY FS_Interval
  <1> HIDE DEF I
  <1>2. ASSUME NEW T \in SUBSET I, \A U \in SUBSET T : U # T => U \in Small PROVE T \in Small
    <2>1. IsFiniteSet(T)
      BY <1>1, FS_Subset
    <2>2. CASE T = {}
      BY <2>2, FS_EmptySet
    <2>3. CASE T # {}
      <3>1. PICK x \in T : TRUE
        BY <2>3
      <3>2. T \ {x} \in Small
        BY <1>2, <3>1
      <3>3. Cardinality(T \ {x}) = Cardinality(T) - 1 /\ Cardinality(T) \in Nat /\ Cardinality(T \ {x}) \in Nat
        BY <2>1, <3>1, FS_RemoveElement, FS_CardinalityType
      <3> QED
        BY <3>2, <3>3
    <2> QED
      BY <2>2, <2>3
  <1> HIDE DEF Small, I
  <1>3. SUBSET I \subseteq Small
    BY <1>1, <1>2, SubsetInduction
  <1> QED
    BY <1>1, <1>3 DEF Small

\* A set has an element for which f is least.
LEMMA LeastIn ==
  ASSUME NEW S, S # {}, NEW f, \A s \in S : f[s] \in Nat
  PROVE  \E s \in S : \A t \in S : f[s] <= f[t]
  <1> SUFFICES ASSUME \A s \in S : \E t \in S : ~(f[s] <= f[t]) PROVE FALSE
    OBVIOUS
  <1> DEFINE Good == {k \in Nat : \A s \in S : f[s] > k}
  <1>1. 0 \in Good
    OBVIOUS
  <1>2. ASSUME NEW k \in Nat, k \in Good PROVE k + 1 \in Good
    <2> SUFFICES ASSUME NEW s \in S, ~(f[s] > k + 1) PROVE FALSE
      OBVIOUS
    <2>1. PICK t \in S : ~(f[s] <= f[t])
      OBVIOUS
    <2>2. f[s] > k /\ f[t] > k /\ f[s] \in Nat /\ f[t] \in Nat
      BY <1>2
    <2> QED
      BY <2>1, <2>2
  <1> HIDE DEF Good
  <1>3. Nat \subseteq Good
    BY <1>1, <1>2, Induction
  <1>4. PICK s \in S : TRUE
    OBVIOUS
  <1>5. f[s] \in Good
    BY <1>3
  <1> QED
    BY <1>5 DEF Good

\* A set of naturals has a least one.
LEMMA LeastNumber ==
  ASSUME NEW S \in SUBSET Nat, S # {} PROVE \E k \in S : \A j \in S : k <= j
  <1> DEFINE f == [k \in S |-> k]
  <1>1. \E k \in S : \A j \in S : f[k] <= f[j]
    <2>1. \A k \in S : f[k] \in Nat
      OBVIOUS
    <2> HIDE DEF f
    <2> QED
      BY <2>1, LeastIn
  <1> QED
    BY <1>1

-----------------------------------------------------------------------------
(* Sums over finite sets. *)

\* The element that the fold takes first, and the function it computes.
Pick(s) == CHOOSE x \in s : TRUE
Unfolds(g, f, S) == g = [s \in SUBSET S |-> IF s = {} THEN 0 ELSE f[Pick(s)] + g[s \ {Pick(s)}]]

\* What is picked is there.
LEMMA PickIn == ASSUME NEW s, s # {} PROVE Pick(s) \in s
  BY DEF Pick

\* Two foldings of f agree wherever both are defined.
LEMMA UnfoldsUnique ==
  ASSUME NEW f, NEW S, IsFiniteSet(S), NEW T \in SUBSET S, NEW g, NEW h,
         Unfolds(g, f, S), Unfolds(h, f, T)
  PROVE  \A s \in SUBSET T : g[s] = h[s]
  <1> DEFINE Good == {s \in SUBSET T : g[s] = h[s]}
  <1>1. ASSUME NEW s \in SUBSET T, \A u \in SUBSET s : u # s => u \in Good PROVE s \in Good
    <2>1. CASE s = {}
      BY <2>1 DEF Unfolds
    <2>2. CASE s # {}
      <3> DEFINE x == Pick(s)  u == s \ {x}
      <3>1. x \in s /\ u \in SUBSET s /\ u # s
        BY <2>2, PickIn
      <3>2. g[u] = h[u]
        BY <1>1, <3>1
      <3>3. g[s] = f[x] + g[u]
        <4>1. g[s] = IF s = {} THEN 0 ELSE f[Pick(s)] + g[s \ {Pick(s)}]
          <5> s \in SUBSET S
            OBVIOUS
          <5> QED
            BY DEF Unfolds
        <4> QED
          BY <4>1, <2>2
      <3>4. h[s] = f[x] + h[u]
        BY <2>2 DEF Unfolds
      <3> QED
        BY <3>2, <3>3, <3>4
    <2> QED
      BY <2>1, <2>2
  <1>2. IsFiniteSet(T)
    BY FS_Subset
  <1> HIDE DEF Good
  <1>3. SUBSET T \subseteq Good
    BY <1>1, <1>2, SubsetInduction
  <1> QED
    BY <1>3 DEF Good

\* The community operator is the function above, at its whole set.
LEMMA SumIsUnfolding ==
  ASSUME NEW f, NEW S
  PROVE  SumFunctionOnSet(f, S) = (CHOOSE g : Unfolds(g, f, S))[S]
  BY DEF SumFunctionOnSet, FoldFunctionOnSet, MapThenFoldSet, Unfolds, Pick

\* Over a finite set there is such a function.
LEMMA UnfoldingExists ==
  ASSUME NEW f, NEW S, IsFiniteSet(S)
  PROVE  \E g : Unfolds(g, f, S)
  <1> DEFINE Good == {T \in SUBSET S : \E g : Unfolds(g, f, T)}
             G(u) == CHOOSE g : Unfolds(g, f, u)
  <1>1. ASSUME NEW T \in SUBSET S, \A u \in SUBSET T : u # T => u \in Good PROVE T \in Good
    <2> DEFINE Body(s, rest) == IF s = {} THEN 0 ELSE f[Pick(s)] + rest
               g == [s \in SUBSET T |-> Body(s, G(s \ {Pick(s)})[s \ {Pick(s)}])]
    <2>1. ASSUME NEW s \in SUBSET T, s # {} PROVE G(s \ {Pick(s)})[s \ {Pick(s)}] = g[s \ {Pick(s)}]
      <3> DEFINE u == s \ {Pick(s)}
      <3>1. u \in SUBSET T /\ u # T /\ IsFiniteSet(u)
        BY <2>1, PickIn, FS_Subset
      <3>2. Unfolds(G(u), f, u)
        BY <1>1, <3>1
      <3>3. CASE u = {}
        <4>1. G(u)[u] = 0
          BY <3>2, <3>3 DEF Unfolds
        <4>2. g[u] = 0
          BY <3>1, <3>3
        <4> QED
          BY <4>1, <4>2
      <3>4. CASE u # {}
        <4> DEFINE v == u \ {Pick(u)}
        <4>1. v \in SUBSET u /\ v \in SUBSET T /\ v # T
          BY <3>1, <3>4, PickIn
        <4>2. Unfolds(G(v), f, v)
          BY <1>1, <4>1
        <4>3. G(u)[v] = G(v)[v]
          <5> HIDE DEF G, u, v
          <5> QED
            BY <3>1, <3>2, <4>1, <4>2, UnfoldsUnique
        <4>4. G(u)[u] = f[Pick(u)] + G(u)[v]
          BY <3>2, <3>4 DEF Unfolds
        <4>5. g[u] = f[Pick(u)] + G(v)[v]
          BY <3>1, <3>4
        <4> QED
          BY <4>3, <4>4, <4>5
      <3> QED
        BY <3>3, <3>4
    <2>2. g = [s \in SUBSET T |-> Body(s, g[s \ {Pick(s)}])]
      <3>1. ASSUME NEW s \in SUBSET T PROVE g[s] = Body(s, g[s \ {Pick(s)}])
        <4>1. g[s] = Body(s, G(s \ {Pick(s)})[s \ {Pick(s)}])
          OBVIOUS
        <4>2. CASE s = {}
          BY <4>1, <4>2
        <4>3. CASE s # {}
          <5> HIDE DEF Body, G
          <5> QED
            BY <2>1, <4>1, <4>3
        <4> QED
          BY <4>2, <4>3
      <3> HIDE DEF Body
      <3>2. g = [s \in SUBSET T |-> g[s]]
        OBVIOUS
      <3> HIDE DEF g
      <3> QED
        BY <3>1, <3>2
    <2>3. Unfolds(g, f, T)
      <3> HIDE DEF g
      <3> QED
        BY <2>2 DEF Unfolds
    <2> QED
      BY <2>3
  <1> HIDE DEF Good
  <1>2. SUBSET S \subseteq Good
    BY <1>1, SubsetInduction
  <1> QED
    BY <1>2 DEF Good

\* The sum over a set is that of one of its unfoldings, the same for its subsets.
LEMMA SumOfSubset ==
  ASSUME NEW f, NEW S, IsFiniteSet(S)
  PROVE  \E g : Unfolds(g, f, S) /\ \A T \in SUBSET S : SumFunctionOnSet(f, T) = g[T]
  <1>1. PICK g : Unfolds(g, f, S)
    BY UnfoldingExists
  <1>2. ASSUME NEW T \in SUBSET S PROVE SumFunctionOnSet(f, T) = g[T]
    <2> DEFINE h == CHOOSE h : Unfolds(h, f, T)
    <2>1. IsFiniteSet(T)
      BY FS_Subset
    <2>2. Unfolds(h, f, T)
      BY <2>1, UnfoldingExists
    <2>3. SumFunctionOnSet(f, T) = h[T]
      BY SumIsUnfolding
    <2> HIDE DEF h
    <2> QED
      BY <1>1, <2>2, <2>3, UnfoldsUnique
  <1> QED
    BY <1>1, <1>2

\* Nothing sums up to zero.
LEMMA SumEmpty == ASSUME NEW f PROVE SumFunctionOnSet(f, {}) = 0
  <1>1. IsFiniteSet({})
    BY FS_EmptySet
  <1> QED
    BY ZenonT(60), <1>1, SumOfSubset DEF Unfolds

\* A finite sum of integers is one.
LEMMA SumInt ==
  ASSUME NEW S, IsFiniteSet(S), NEW f, \A x \in S : f[x] \in Int
  PROVE  SumFunctionOnSet(f, S) \in Int
  <1>1. PICK g : Unfolds(g, f, S) /\ \A T \in SUBSET S : SumFunctionOnSet(f, T) = g[T]
    BY SumOfSubset
  <1> DEFINE Good == {T \in SUBSET S : g[T] \in Int}
  <1>2. ASSUME NEW T \in SUBSET S, \A u \in SUBSET T : u # T => u \in Good PROVE T \in Good
    <2>1. g[T] = IF T = {} THEN 0 ELSE f[Pick(T)] + g[T \ {Pick(T)}]
      BY <1>1 DEF Unfolds
    <2>2. CASE T # {}
      <3>1. Pick(T) \in T /\ T \ {Pick(T)} \in SUBSET T /\ T \ {Pick(T)} # T
        BY <2>2, PickIn
      <3> QED
        BY <1>2, <2>1, <2>2, <3>1
    <2> QED
      BY <2>1, <2>2
  <1> HIDE DEF Good
  <1>3. SUBSET S \subseteq Good
    BY <1>2, SubsetInduction
  <1> QED
    BY <1>1, <1>3 DEF Good

\* Any element can be summed first.
LEMMA SumRemove ==
  ASSUME NEW S, IsFiniteSet(S), NEW f, \A x \in S : f[x] \in Int, NEW x \in S
  PROVE  SumFunctionOnSet(f, S) = f[x] + SumFunctionOnSet(f, S \ {x})
  <1>1. PICK g : Unfolds(g, f, S) /\ \A T \in SUBSET S : SumFunctionOnSet(f, T) = g[T]
    BY SumOfSubset
  <1>2. \A T \in SUBSET S : g[T] \in Int
    <2> TAKE T \in SUBSET S
    <2>1. IsFiniteSet(T)
      BY FS_Subset
    <2> QED
      BY <1>1, <2>1, SumInt
  <1>3. \A T \in SUBSET S : T # {} => g[T] = f[Pick(T)] + g[T \ {Pick(T)}]
    BY <1>1 DEF Unfolds
  <1> DEFINE Good == {T \in SUBSET S : \A y \in T : g[T] = f[y] + g[T \ {y}]}
  <1>4. ASSUME NEW T \in SUBSET S, \A u \in SUBSET T : u # T => u \in Good PROVE T \in Good
    <2> SUFFICES ASSUME NEW y \in T PROVE g[T] = f[y] + g[T \ {y}]
      OBVIOUS
    <2> DEFINE c == Pick(T)
    <2>1. c \in T
      BY PickIn
    <2>2. g[T] = f[c] + g[T \ {c}]
      BY <1>3
    <2>3. CASE y # c
      <3>1. g[T \ {c}] = f[y] + g[(T \ {c}) \ {y}]
        BY <1>4, <2>1, <2>3
      <3>2. g[T \ {y}] = f[c] + g[(T \ {y}) \ {c}]
        BY <1>4, <2>1, <2>3
      <3>3. (T \ {c}) \ {y} = (T \ {y}) \ {c}
        OBVIOUS
      <3> DEFINE rest == g[(T \ {y}) \ {c}]
      <3>4. f[c] \in Int /\ f[y] \in Int /\ rest \in Int
        BY <1>2, <2>1
      <3>5. g[T] = f[c] + (f[y] + rest) /\ g[T \ {y}] = f[c] + rest
        BY <2>2, <3>1, <3>2, <3>3
      <3> HIDE DEF c, rest
      <3> QED
        BY <3>4, <3>5
    <2> QED
      BY <2>2, <2>3
  <1> HIDE DEF Good
  <1>5. SUBSET S \subseteq Good
    BY <1>4, SubsetInduction
  <1>6. g[S] = f[x] + g[S \ {x}]
    BY <1>5 DEF Good
  <1> QED
    BY <1>1, <1>6

\* A sum depends on the values over its set only, and adds up value by value.
LEMMA SumPlus ==
  ASSUME NEW S, IsFiniteSet(S), NEW f, NEW g, NEW h,
         \A x \in S : f[x] \in Int /\ g[x] \in Int /\ h[x] = f[x] + g[x]
  PROVE  SumFunctionOnSet(h, S) = SumFunctionOnSet(f, S) + SumFunctionOnSet(g, S)
  <1> DEFINE Sum(k, T) == SumFunctionOnSet(k, T)
             Good == {T \in SUBSET S : Sum(h, T) = Sum(f, T) + Sum(g, T)}
  <1>1. ASSUME NEW T \in SUBSET S, \A u \in SUBSET T : u # T => u \in Good PROVE T \in Good
    <2>1. CASE T = {}
      <3>1. Sum(h, {}) = 0 /\ Sum(f, {}) = 0 /\ Sum(g, {}) = 0
        BY SumEmpty
      <3> HIDE DEF Sum
      <3> QED
        BY <2>1, <3>1
    <2>2. ASSUME NEW x \in T PROVE T \in Good
      <3> DEFINE u == T \ {x}
      <3>1. u \in SUBSET S /\ IsFiniteSet(T) /\ IsFiniteSet(u)
        BY FS_Subset
      <3>2. f[x] \in Int /\ g[x] \in Int /\ h[x] = f[x] + g[x]
        OBVIOUS
      <3>3. Sum(f, T) = f[x] + Sum(f, u) /\ Sum(g, T) = g[x] + Sum(g, u)
        BY <3>1, SumRemove
      <3>4. \A y \in T : h[y] \in Int
        OBVIOUS
      <3>5. Sum(h, T) = h[x] + Sum(h, u)
        BY <3>1, <3>4, SumRemove
      <3>6. Sum(f, u) \in Int /\ Sum(g, u) \in Int
        BY <3>1, SumInt
      <3>7. Sum(h, u) = Sum(f, u) + Sum(g, u)
        BY <1>1, <2>2
      <3> HIDE DEF Sum, u
      <3> QED
        BY <3>2, <3>3, <3>5, <3>6, <3>7
    <2> QED
      BY <2>1, <2>2
  <1> HIDE DEF Good
  <1>2. SUBSET S \subseteq Good
    BY <1>1, SubsetInduction
  <1> QED
    BY <1>2 DEF Good

\* Zeros sum up to zero.
LEMMA SumZero ==
  ASSUME NEW S, IsFiniteSet(S), NEW f, \A x \in S : f[x] = 0
  PROVE  SumFunctionOnSet(f, S) = 0
  <1> DEFINE total == SumFunctionOnSet(f, S)
  <1>1. total = total + total
    <2>1. \A x \in S : f[x] \in Int /\ f[x] = f[x] + f[x]
      OBVIOUS
    <2> QED
      BY <2>1, SumPlus
  <1>2. total \in Int
    BY SumInt
  <1> HIDE DEF total
  <1>3. total = 0
    BY <1>1, <1>2
  <1> QED
    BY <1>3 DEF total

\* Functions that agree over the set have the same sum.
LEMMA SumSame ==
  ASSUME NEW S, IsFiniteSet(S), NEW f, NEW g, \A x \in S : f[x] \in Int /\ g[x] = f[x]
  PROVE  SumFunctionOnSet(g, S) = SumFunctionOnSet(f, S)
  <1> DEFINE zero == [x \in S |-> 0]
  <1>1. \A x \in S : zero[x] \in Int /\ zero[x] = 0 /\ g[x] = f[x] + zero[x]
    OBVIOUS
  <1> HIDE DEF zero
  <1>2. SumFunctionOnSet(zero, S) = 0
    BY <1>1, SumZero
  <1>3. SumFunctionOnSet(g, S) = SumFunctionOnSet(f, S) + SumFunctionOnSet(zero, S)
    BY <1>1, SumPlus
  <1>4. SumFunctionOnSet(f, S) \in Int
    BY SumInt
  <1> QED
    BY <1>2, <1>3, <1>4

\* What is there at one element only is the sum.
LEMMA SumPoint ==
  ASSUME NEW S, IsFiniteSet(S), NEW x \in S, NEW n \in Int, NEW f,
         f[x] = n, \A y \in S \ {x} : f[y] = 0
  PROVE  SumFunctionOnSet(f, S) = n
  <1>1. IsFiniteSet(S \ {x})
    BY FS_RemoveElement
  <1>2. SumFunctionOnSet(f, S \ {x}) = 0
    BY <1>1, SumZero
  <1>3. \A y \in S : f[y] \in Int
    OBVIOUS
  <1>4. SumFunctionOnSet(f, S) = f[x] + SumFunctionOnSet(f, S \ {x})
    BY <1>3, SumRemove
  <1> QED
    BY <1>2, <1>4

\* A new element adds its value.
LEMMA SumAdd ==
  ASSUME NEW S, IsFiniteSet(S), NEW f, NEW x, x \notin S, \A y \in S \cup {x} : f[y] \in Int
  PROVE  SumFunctionOnSet(f, S \cup {x}) = f[x] + SumFunctionOnSet(f, S)
  <1> DEFINE T == S \cup {x}
  <1>1. IsFiniteSet(T) /\ x \in T /\ T \ {x} = S
    BY FS_AddElement
  <1> HIDE DEF T
  <1>2. \A y \in T : f[y] \in Int
    BY DEF T
  <1>3. SumFunctionOnSet(f, T) = f[x] + SumFunctionOnSet(f, T \ {x})
    BY <1>1, <1>2, SumRemove
  <1> QED
    BY <1>1, <1>3 DEF T

\* A sum of numbers that are at most m is at most m for each of them.
LEMMA SumBounded ==
  ASSUME NEW S, IsFiniteSet(S), NEW m \in Nat, NEW f, \A x \in S : f[x] \in 0..m
  PROVE  SumFunctionOnSet(f, S) \in 0..(Cardinality(S) * m)
  <1> DEFINE Sum(T) == SumFunctionOnSet(f, T)
             Good == {T \in SUBSET S : Sum(T) \in 0..(Cardinality(T) * m)}
  <1>1. ASSUME NEW T \in SUBSET S, \A u \in SUBSET T : u # T => u \in Good PROVE T \in Good
    <2>1. CASE T = {}
      <3>1. Sum({}) = 0 /\ Cardinality({}) = 0
        BY SumEmpty, FS_EmptySet
      <3> HIDE DEF Sum
      <3> QED
        BY <2>1, <3>1
    <2>2. ASSUME NEW x \in T PROVE T \in Good
      <3> DEFINE u == T \ {x}
                 n == Cardinality(u)
      <3>1. IsFiniteSet(T) /\ IsFiniteSet(u)
        BY FS_Subset
      <3>2. Cardinality(T) = n + 1 /\ n \in Nat
        <4>1. n = Cardinality(T) - 1 /\ n \in Nat /\ Cardinality(T) \in Nat
          BY <3>1, FS_RemoveElement, FS_CardinalityType
        <4> HIDE DEF n
        <4> QED
          BY <4>1
      <3>3. f[x] \in 0..m /\ \A y \in T : f[y] \in Int
        OBVIOUS
      <3>4. Sum(T) = f[x] + Sum(u)
        BY <3>1, <3>3, SumRemove
      <3>5. Sum(u) \in 0..(n * m)
        BY <1>1, <2>2
      <3>6. (n + 1) * m = n * m + m /\ n * m \in Nat
        BY <3>2
      <3> DEFINE nm == n * m
      <3>7. Sum(T) \in 0..(nm + m)
        <4> HIDE DEF nm, Sum, u, n
        <4>1. nm \in Nat /\ Sum(u) \in 0..nm
          BY <3>5, <3>6 DEF nm
        <4> QED
          BY <3>3, <3>4, <4>1
      <3> HIDE DEF Sum, u, n
      <3> QED
        BY <3>2, <3>6, <3>7
    <2> QED
      BY <2>1, <2>2
  <1> HIDE DEF Good
  <1>2. SUBSET S \subseteq Good
    BY <1>1, SubsetInduction
  <1> QED
    BY <1>2 DEF Good

\* A finite set of integers that is not empty has a greatest element.
LEMMA Greatest ==
  ASSUME NEW S \in SUBSET Int, IsFiniteSet(S), S # {}
  PROVE  \E x \in S : \A y \in S : x >= y
  <1> DEFINE Good == {T \in SUBSET S : T = {} \/ \E x \in T : \A y \in T : x >= y}
  <1>1. ASSUME NEW T \in SUBSET S, \A u \in SUBSET T : u # T => u \in Good PROVE T \in Good
    <2> SUFFICES ASSUME NEW a \in T PROVE T \in Good
      OBVIOUS
    <2>1. T \ {a} \in Good
      BY <1>1
    <2>2. CASE T \ {a} = {}
      BY <2>2
    <2>3. ASSUME NEW b \in T \ {a}, \A y \in T \ {a} : b >= y PROVE T \in Good
      <3>1. CASE a >= b
        <4>1. \A y \in T : a >= y
          BY <2>3, <3>1
        <4> QED
          BY <4>1
      <3>2. CASE b >= a
        <4>1. \A y \in T : b >= y
          BY <2>3, <3>2
        <4> QED
          BY <4>1
      <3> QED
        BY <3>1, <3>2
    <2> QED
      BY <2>1, <2>2, <2>3
  <1> HIDE DEF Good
  <1>2. SUBSET S \subseteq Good
    BY <1>1, SubsetInduction
  <1> QED
    BY <1>2 DEF Good
=============================================================================
