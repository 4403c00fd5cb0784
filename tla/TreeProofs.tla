----------------------------- MODULE TreeProofs -----------------------------
(* The tree of nodes and what hangs on it: the editor and the walks for any   *)
(* nodes, requests and keys; the backups for any places and tasks, however    *)
(* many are kept; the feed for any logs, events and pages. A tree has a cycle *)
(* exactly when some set of nodes, not the empty one, holds the parents of    *)
(* all its nodes; the arguments carry from step to step that there is none.   *)
EXTENDS Vertical, Backup, Feed, Sums, SequenceTheorems, TLAPS

-----------------------------------------------------------------------------
(* Placing the nodes of a tree parents first. *)

\* No nodes but the empty set are closed: every node leads to a root.
Grounded(par) == \A S \in SUBSET DOMAIN par : Closed(par, S) => S = {}

\* The batches up to N: a node follows its parent.
Layers(f, par, root, N) ==
    f = [k \in 0..N |-> IF k = 0 THEN {} ELSE {n \in DOMAIN par : par[n] = root \/ par[n] \in f[k - 1]}]

LEMMA LayersExist == ASSUME NEW par, NEW root, NEW N \in Nat PROVE \E f : Layers(f, par, root, N)
  <1> DEFINE Good == {n \in Nat : \E f : Layers(f, par, root, n)}
  <1>1. 0 \in Good
    <2>1. Layers([k \in 0..0 |-> {}], par, root, 0)
      BY DEF Layers
    <2> QED
      BY <2>1
  <1>2. ASSUME NEW n \in Nat, n \in Good PROVE n + 1 \in Good
    <2>1. PICK f : Layers(f, par, root, n)
      BY <1>2
    <2> DEFINE g == [k \in 0..(n + 1) |-> IF k = 0 THEN {}
                         ELSE {m \in DOMAIN par : par[m] = root \/ par[m] \in f[k - 1]}]
    <2>2. ASSUME NEW k \in 0..n PROVE g[k] = f[k]
      <3>1. f[k] = IF k = 0 THEN {} ELSE {m \in DOMAIN par : par[m] = root \/ par[m] \in f[k - 1]}
        BY <2>1, Zenon DEF Layers
      <3>2. k \in 0..(n + 1)
        OBVIOUS
      <3> QED
        BY <3>1, <3>2, Zenon
    <2>3. ASSUME NEW k \in 0..(n + 1)
          PROVE g[k] = IF k = 0 THEN {} ELSE {m \in DOMAIN par : par[m] = root \/ par[m] \in g[k - 1]}
      <3>1. CASE k = 0
        BY <3>1
      <3>2. CASE k # 0
        <4>1. k - 1 \in 0..n
          BY <3>2
        <4>2. g[k - 1] = f[k - 1]
          BY <2>2, <4>1
        <4>3. g[k] = {m \in DOMAIN par : par[m] = root \/ par[m] \in f[k - 1]}
          BY <3>2
        <4> QED
          BY <3>2, <4>2, <4>3
      <3> QED
        BY <3>1, <3>2
    <2>4. g = [k \in 0..(n + 1) |-> g[k]]
      OBVIOUS
    <2> HIDE DEF g
    <2>5. Layers(g, par, root, n + 1)
      BY <2>3, <2>4 DEF Layers
    <2> QED
      BY <2>5
  <1> HIDE DEF Good
  <1>3. Nat \subseteq Good
    BY <1>1, <1>2, Induction
  <1> QED
    BY <1>3 DEF Good

\* The batches, one by one: each holds the one before.
LEMMA LayerSteps ==
  ASSUME NEW par, NEW root, NEW N \in Nat, NEW f, Layers(f, par, root, N)
  PROVE  /\ f[0] = {}
         /\ \A k \in 0..N : f[k] \subseteq DOMAIN par
         /\ \A k \in 0..(N - 1) : f[k + 1] = {n \in DOMAIN par : par[n] = root \/ par[n] \in f[k]}
         /\ \A k \in 0..(N - 1) : f[k] \subseteq f[k + 1]
  <1> DEFINE D == DOMAIN par
             Over(s) == {n \in D : par[n] = root \/ par[n] \in s}
  <1>1. f[0] = {}
    BY DEF Layers
  <1>2. ASSUME NEW k \in 0..(N - 1) PROVE f[k + 1] = Over(f[k])
    <2> DEFINE j == k + 1
    <2>1. f[j] = IF j = 0 THEN {} ELSE {n \in D : par[n] = root \/ par[n] \in f[j - 1]}
      <3>1. j \in 0..N
        BY <1>2
      <3> HIDE DEF j
      <3> QED
        BY <3>1, Zenon DEF Layers
    <2>2. j # 0 /\ j - 1 = k
      OBVIOUS
    <2> HIDE DEF j
    <2>3. f[j] = Over(f[k])
      BY <2>1, <2>2
    <2> QED
      BY <2>3 DEF j
  <1>3. ASSUME NEW k \in 0..N PROVE f[k] \subseteq D
    BY DEF Layers
  <1> HIDE DEF D
  <1> DEFINE Grow == {k \in Nat : k \in 0..(N - 1) => f[k] \subseteq f[k + 1]}
  <1>4. 0 \in Grow
    BY <1>1
  <1>5. ASSUME NEW k \in Nat, k \in Grow PROVE k + 1 \in Grow
    <2> SUFFICES ASSUME k + 1 \in 0..(N - 1) PROVE f[k + 1] \subseteq f[k + 1 + 1]
      OBVIOUS
    <2>1. k \in 0..(N - 1) /\ f[k] \subseteq f[k + 1]
      BY <1>5
    <2>2. f[k + 1] = Over(f[k]) /\ f[k + 1 + 1] = Over(f[k + 1])
      BY <1>2, <2>1
    <2> QED
      BY <2>1, <2>2
  <1> HIDE DEF Grow
  <1>6. Nat \subseteq Grow
    BY <1>4, <1>5, Induction
  <1>7. \A k \in 0..(N - 1) : f[k] \subseteq f[k + 1]
    BY <1>6 DEF Grow
  <1> QED
    BY <1>1, <1>2, <1>3, <1>7 DEF D

\* As many batches as there are nodes place all but a closed set, and none of
\* a closed set.
LEMMA LayersFill ==
  ASSUME NEW par, NEW root, NEW N \in Nat, NEW f, Layers(f, par, root, N),
         IsFiniteSet(DOMAIN par), Cardinality(DOMAIN par) <= N,
         root \notin DOMAIN par, \A n \in DOMAIN par : par[n] \in DOMAIN par \cup {root}
  PROVE  /\ \A k \in 0..N : f[k] \subseteq DOMAIN par
         /\ Closed(par, DOMAIN par \ f[N])
         /\ \A S \in SUBSET DOMAIN par : Closed(par, S) => S \cap f[N] = {}
  <1> DEFINE D == DOMAIN par
             Over(s) == {n \in D : par[n] = root \/ par[n] \in s}
  <1>s. /\ f[0] = {}
        /\ \A k \in 0..N : f[k] \subseteq DOMAIN par
        /\ \A k \in 0..(N - 1) : f[k + 1] = {n \in DOMAIN par : par[n] = root \/ par[n] \in f[k]}
        /\ \A k \in 0..(N - 1) : f[k] \subseteq f[k + 1]
    BY LayerSteps, Zenon
  <1>1. f[0] = {}
    BY <1>s
  <1>2. ASSUME NEW k \in Nat, k + 1 \in 0..N PROVE f[k + 1] = Over(f[k])
    <2>1. k \in 0..(N - 1)
      BY <1>2
    <2> QED
      BY <1>s, <2>1, Zenon
  <1>3. ASSUME NEW k \in 0..N PROVE f[k] \subseteq D
    BY <1>s
  <1>a. IsFiniteSet(D) /\ Cardinality(D) <= N
    OBVIOUS
  <1>b. \A n \in D : par[n] \in D \cup {root}
    OBVIOUS
  <1>c. root \notin D
    OBVIOUS
  <1> HIDE DEF D
  <1>4. ASSUME NEW k \in 0..N PROVE IsFiniteSet(f[k]) /\ Cardinality(f[k]) \in Nat
    BY <1>3, <1>a, FS_Subset, FS_CardinalityType
  <1> DEFINE Grow == {k \in Nat : k \in 0..N =>
                 /\ f[k] \subseteq Over(f[k])
                 /\ k <= Cardinality(f[k]) \/ f[k] = Over(f[k])}
             Apart(S) == {k \in Nat : k \in 0..N => S \cap f[k] = {}}
  <1>5. 0 \in Grow
    BY <1>1, <1>4
  <1>6. ASSUME NEW k \in Nat, k \in Grow PROVE k + 1 \in Grow
    <2> SUFFICES ASSUME k + 1 \in 0..N
                 PROVE  /\ f[k + 1] \subseteq Over(f[k + 1])
                        /\ k + 1 <= Cardinality(f[k + 1]) \/ f[k + 1] = Over(f[k + 1])
      OBVIOUS
    <2>1. k \in 0..N
      OBVIOUS
    <2>2. f[k] \subseteq f[k + 1] /\ f[k + 1] = Over(f[k])
      BY <1>2, <1>6, <2>1
    <2>3. f[k + 1] \subseteq Over(f[k + 1])
      BY <2>2
    <2>4. CASE f[k + 1] = f[k]
      BY <2>2, <2>3, <2>4
    <2>5. CASE f[k + 1] # f[k]
      <3>1. k <= Cardinality(f[k])
        BY <1>6, <2>1, <2>2, <2>5
      <3>3. Cardinality(f[k]) \in Nat /\ Cardinality(f[k + 1]) \in Nat /\ IsFiniteSet(f[k + 1])
        BY <1>4, <2>1
      <3>5. Cardinality(f[k]) <= Cardinality(f[k + 1]) /\ Cardinality(f[k]) # Cardinality(f[k + 1])
        <4>1. f[k] \in SUBSET f[k + 1] /\ f[k] # f[k + 1]
          BY <2>2, <2>5
        <4> QED
          BY <3>3, <4>1, FS_Subset
      <3>2. Cardinality(f[k]) < Cardinality(f[k + 1])
        BY <3>3, <3>5
      <3>4. k + 1 <= Cardinality(f[k + 1])
        BY <3>1, <3>2, <3>3
      <3> QED
        BY <2>3, <3>4
    <2> QED
      BY <2>4, <2>5
  <1>7. N \in Grow
    <2> HIDE DEF Grow
    <2> QED
      BY <1>5, <1>6, Induction
  <1>8. f[N] = Over(f[N])
    <2>1. CASE N <= Cardinality(f[N])
      <3>1. f[N] = D
        BY <1>3, <1>4, <1>a, <2>1, FS_Subset, FS_CardinalityType
      <3> QED
        BY <1>7, <3>1
    <2> QED
      BY <1>7, <2>1
  <1>9. Closed(par, D \ f[N])
    BY <1>8, <1>b, <1>c DEF Closed
  <1>10. ASSUME NEW S \in SUBSET D, Closed(par, S) PROVE S \cap f[N] = {}
    <2>1. 0 \in Apart(S)
      BY <1>1
    <2>2. ASSUME NEW k \in Nat, k \in Apart(S) PROVE k + 1 \in Apart(S)
      BY <1>2, <1>10, <1>c, <2>2 DEF Closed
    <2>3. N \in Apart(S)
      <3> HIDE DEF Apart
      <3> QED
        BY <2>1, <2>2, Induction
    <2> QED
      BY <2>3
  <1> QED
    BY <1>3, <1>9, <1>10 DEF D

\* A node more below a node that is there, and a node less whose children become
\* roots, leave no closed set.
LEMMA GroundedAdd ==
  ASSUME NEW par, NEW root, root \notin DOMAIN par, NEW n, n \notin DOMAIN par, n # root,
         NEW p \in DOMAIN par \cup {root}, Grounded(par),
         \A m \in DOMAIN par : par[m] \in DOMAIN par \cup {root}
  PROVE  Grounded([m \in DOMAIN par \cup {n} |-> IF m = n THEN p ELSE par[m]])
  <1> DEFINE new == [m \in DOMAIN par \cup {n} |-> IF m = n THEN p ELSE par[m]]
  <1> SUFFICES ASSUME NEW S \in SUBSET DOMAIN new, Closed(new, S) PROVE S = {}
    BY DEF Grounded
  <1>1. S \ {n} \in SUBSET DOMAIN par
    OBVIOUS
  <1>2. Closed(par, S \ {n})
    BY DEF Closed
  <1>3. S \subseteq {n}
    BY <1>1, <1>2 DEF Grounded
  <1> QED
    BY <1>3 DEF Closed
LEMMA GroundedCut ==
  ASSUME NEW par, NEW root, root \notin DOMAIN par, NEW n, Grounded(par)
  PROVE  Grounded([m \in DOMAIN par \ {n} |-> IF par[m] = n THEN root ELSE par[m]])
  <1> DEFINE new == [m \in DOMAIN par \ {n} |-> IF par[m] = n THEN root ELSE par[m]]
  <1> SUFFICES ASSUME NEW S \in SUBSET DOMAIN new, Closed(new, S) PROVE S = {}
    BY DEF Grounded
  <1>1. S \in SUBSET DOMAIN par /\ Closed(par, S)
    BY DEF Closed
  <1> QED
    BY <1>1 DEF Grounded

-----------------------------------------------------------------------------
(* The walks of the Vertical, for any tree, cyclic ones included. *)

\* The sets of nodes that hold the parents of their nodes.
UpClosed(par, S) == \A m \in S : par[m] # NoParent => par[m] \in S
\* A function from the nodes that are there to them or to no parent.
IsShape(par) == DOMAIN par \subseteq NodeId /\ \A n \in DOMAIN par : par[n] \in DOMAIN par \cup {NoParent}

\* The climb from n of up to N steps.
Climbs(f, par, n, N) == f = [k \in 0..N |-> IF k = 0 THEN n ELSE Up(par, f[k - 1])]

LEMMA ClimbExists == ASSUME NEW par, NEW n, NEW N \in Nat PROVE \E f : Climbs(f, par, n, N)
  <1> DEFINE Good == {i \in Nat : \E f : Climbs(f, par, n, i)}
  <1>1. 0 \in Good
    <2>1. Climbs([k \in 0..0 |-> n], par, n, 0)
      BY DEF Climbs
    <2> QED
      BY <2>1
  <1>2. ASSUME NEW i \in Nat, i \in Good PROVE i + 1 \in Good
    <2>1. PICK f : Climbs(f, par, n, i)
      BY <1>2
    <2> DEFINE g == [k \in 0..(i + 1) |-> IF k = 0 THEN n ELSE Up(par, f[k - 1])]
    <2>2. ASSUME NEW k \in 0..i PROVE g[k] = f[k]
      <3>1. f[k] = IF k = 0 THEN n ELSE Up(par, f[k - 1])
        BY <2>1, Zenon DEF Climbs
      <3>2. k \in 0..(i + 1)
        OBVIOUS
      <3> QED
        BY <3>1, <3>2, Zenon
    <2>3. ASSUME NEW k \in 0..(i + 1) PROVE g[k] = IF k = 0 THEN n ELSE Up(par, g[k - 1])
      <3>1. CASE k = 0
        BY <3>1
      <3>2. CASE k # 0
        <4>1. k - 1 \in 0..i
          BY <3>2
        <4>2. g[k - 1] = f[k - 1]
          BY <2>2, <4>1
        <4>3. g[k] = Up(par, f[k - 1])
          BY <3>2
        <4> QED
          BY <3>2, <4>2, <4>3
      <3> QED
        BY <3>1, <3>2
    <2>4. g = [k \in 0..(i + 1) |-> g[k]]
      OBVIOUS
    <2> HIDE DEF g
    <2>5. Climbs(g, par, n, i + 1)
      BY <2>3, <2>4 DEF Climbs
    <2> QED
      BY <2>5
  <1> HIDE DEF Good
  <1>3. Nat \subseteq Good
    BY <1>1, <1>2, Induction
  <1> QED
    BY <1>3 DEF Good

\* A climb, step by step.
LEMMA ClimbSteps ==
  ASSUME VerticalConstants, NEW par, IsShape(par), NEW n \in DOMAIN par
  PROVE  LET N == Cardinality(NodeId)
             f == Climb(par, n)
         IN /\ N \in Nat /\ f[0] = n
            /\ \A k \in 0..N : f[k] \in DOMAIN par \cup {NoParent}
            /\ \A k \in 0..(N - 1) : f[k + 1] = Up(par, f[k])
  <1> DEFINE N == Cardinality(NodeId)
             f == Climb(par, n)
  <1>1. N \in Nat
    BY FS_CardinalityType DEF VerticalConstants
  <1>2. Climbs(f, par, n, N)
    <2> DEFINE at == CHOOSE g : Climbs(g, par, n, N)
    <2>1. f = at
      BY DEF Climb, Climbs
    <2>2. Climbs(at, par, n, N)
      <3> HIDE DEF N
      <3> QED
        BY <1>1, ClimbExists
    <2> QED
      BY <2>1, <2>2
  <1> HIDE DEF N, f
  <1>3. f[0] = n
    BY <1>1, <1>2 DEF Climbs
  <1>4. ASSUME NEW k \in 0..(N - 1) PROVE f[k + 1] = Up(par, f[k])
    <2> DEFINE j == k + 1
    <2>1. j \in 0..N
      BY <1>1
    <2>2. j # 0 /\ j - 1 = k
      OBVIOUS
    <2> HIDE DEF j
    <2>3. f[j] = IF j = 0 THEN n ELSE Up(par, f[j - 1])
      BY <1>2, <2>1, Zenon DEF Climbs
    <2> QED
      BY <2>2, <2>3 DEF j
  <1> DEFINE Good == {k \in Nat : k \in 0..N => f[k] \in DOMAIN par \cup {NoParent}}
  <1>5. 0 \in Good
    BY <1>3
  <1>6. ASSUME NEW k \in Nat, k \in Good PROVE k + 1 \in Good
    BY <1>1, <1>4, <1>6 DEF Up, IsShape
  <1> HIDE DEF Good
  <1>7. Nat \subseteq Good
    BY <1>5, <1>6, Induction
  <1>8. \A k \in 0..N : f[k] \in DOMAIN par \cup {NoParent}
    BY <1>1, <1>7 DEF Good
  <1> QED
    BY <1>1, <1>3, <1>4, <1>8 DEF N, f

\* The reference is there for the node itself, goes up and is transitive.
LEMMA ReachesUp ==
  ASSUME NEW par, NEW n \in DOMAIN par
  PROVE  /\ Reaches(par, n, n)
         /\ \A a, b, c \in DOMAIN par : Reaches(par, a, b) /\ Reaches(par, b, c) => Reaches(par, a, c)
         /\ \A a \in DOMAIN par : par[n] # NoParent /\ Reaches(par, a, par[n]) => Reaches(par, a, n)
         /\ \A a \in DOMAIN par : Reaches(par, a, n) /\ a # n => par[n] # NoParent /\ Reaches(par, a, par[n])
  <1>1. Reaches(par, n, n)
    BY DEF Reaches
  <1>2. \A a, b, c \in DOMAIN par : Reaches(par, a, b) /\ Reaches(par, b, c) => Reaches(par, a, c)
    BY DEF Reaches
  <1>3. \A a \in DOMAIN par : par[n] # NoParent /\ Reaches(par, a, par[n]) => Reaches(par, a, n)
    BY DEF Reaches
  <1>4. ASSUME NEW a \in DOMAIN par, Reaches(par, a, n), a # n
        PROVE par[n] # NoParent /\ Reaches(par, a, par[n])
    <2>1. par[n] # NoParent
      <3> SUFFICES ASSUME par[n] = NoParent PROVE FALSE
        OBVIOUS
      <3>1. {n} \in SUBSET DOMAIN par /\ \A m \in {n} : par[m] # NoParent => par[m] \in {n}
        OBVIOUS
      <3>2. a \in {n}
        BY <1>4, <3>1 DEF Reaches
      <3> QED
        BY <1>4, <3>2
    <2>2. ASSUME NEW S \in SUBSET DOMAIN par, par[n] \in S, \A m \in S : par[m] # NoParent => par[m] \in S
          PROVE a \in S
      <3>1. S \cup {n} \in SUBSET DOMAIN par /\ \A m \in S \cup {n} : par[m] # NoParent => par[m] \in S \cup {n}
        BY <2>2
      <3>2. a \in S \cup {n}
        BY <1>4, <3>1 DEF Reaches
      <3> QED
        BY <1>4, <3>2
    <2> QED
      BY <2>1, <2>2 DEF Reaches
  <1> QED
    BY <1>1, <1>2, <1>3, <1>4

\* The walk of the engine sees the node and what lies above it.
LEMMA WalkMeetsReference ==
  ASSUME VerticalConstants, NEW par, IsShape(par), NEW n \in DOMAIN par
  PROVE  WalkUp(par, n) = NodesAbove(par, n)
  <1> DEFINE N == Cardinality(NodeId)
             D == DOMAIN par
             f == Climb(par, n)
             Seen(k) == {f[j] : j \in 0..k} \cap D
  <1>1. /\ N \in Nat /\ f[0] = n
        /\ \A k \in 0..N : f[k] \in D \cup {NoParent}
        /\ \A k \in 0..(N - 1) : f[k + 1] = Up(par, f[k])
    BY ClimbSteps
  <1>2. WalkUp(par, n) = Seen(N)
    BY DEF WalkUp
  <1>3. IsFiniteSet(D) /\ Cardinality(D) \in Nat /\ Cardinality(D) <= N /\ NoParent \notin D
    BY FS_Subset, FS_CardinalityType DEF IsShape, VerticalConstants
  <1>4. \A a \in D : par[a] \in D \cup {NoParent}
    BY DEF IsShape
  <1>a. n \in D
    OBVIOUS
  <1>b. \A a : Up(par, a) = IF a \in D THEN par[a] ELSE NoParent
    BY DEF Up
  <1> HIDE DEF N, f, D
  <1>5. ASSUME NEW k \in 0..N PROVE IsFiniteSet(Seen(k)) /\ Cardinality(Seen(k)) \in Nat /\ Seen(k) \subseteq D
    <2>1. Seen(k) \in SUBSET D
      OBVIOUS
    <2> QED
      BY <1>3, <2>1, FS_Subset, FS_CardinalityType
  <1>6. ASSUME NEW k \in 0..(N - 1)
        PROVE  /\ k \in 0..N /\ k + 1 \in 0..N
               /\ Seen(k + 1) = (Seen(k) \cup {f[k + 1]}) \cap D
               /\ f[k] \in D => f[k] \in Seen(k)
    <2>1. k \in 0..N /\ k + 1 \in 0..N /\ 0..(k + 1) = (0..k) \cup {k + 1} /\ k \in 0..k
      BY <1>1
    <2> QED
      BY <2>1
  <1> DEFINE Half(k) == f[k] \in D /\ k + 1 <= Cardinality(Seen(k))
                        /\ \A a \in Seen(k) \ {f[k]} : par[a] # NoParent => par[a] \in Seen(k)
             Grow == {k \in Nat : k \in 0..N => UpClosed(par, Seen(k)) \/ Half(k)}
  <1>7. 0 \in Grow
    <2>1. Seen(0) = {n}
      <3>1. 0..0 = {0}
        OBVIOUS
      <3> QED
        BY <1>1, <1>a, <3>1
    <2>2. Cardinality(Seen(0)) = 1
      BY <2>1, FS_Singleton
    <2> HIDE DEF Seen
    <2> QED
      BY <1>1, <1>a, <2>1, <2>2
  <1>8. ASSUME NEW k \in Nat, k \in Grow PROVE k + 1 \in Grow
    <2> SUFFICES ASSUME k + 1 \in 0..N PROVE UpClosed(par, Seen(k + 1)) \/ Half(k + 1)
      OBVIOUS
    <2>1. k \in 0..(N - 1)
      BY <1>1
    <2>2. f[k + 1] = Up(par, f[k]) /\ f[k] \in D \cup {NoParent} /\ f[k + 1] \in D \cup {NoParent}
      BY <1>1, <1>6, <2>1
    <2>3. UpClosed(par, Seen(k)) \/ Half(k)
      BY <1>6, <2>1, <1>8
    <2>4. /\ Seen(k + 1) = (Seen(k) \cup {f[k + 1]}) \cap D
          /\ f[k] \in D => f[k] \in Seen(k)
      BY <1>6, <2>1
    <2>5. IsFiniteSet(Seen(k)) /\ Cardinality(Seen(k)) \in Nat /\ Seen(k) \subseteq D
      BY <1>5, <1>6, <2>1
    <2> HIDE DEF Seen
    <2>6. CASE UpClosed(par, Seen(k))
      <3>1. f[k + 1] \in Seen(k) \cup {NoParent}
        BY <1>b, <2>2, <2>4, <2>6 DEF UpClosed
      <3>2. Seen(k + 1) = Seen(k)
        BY <1>3, <2>4, <2>5, <3>1
      <3> QED
        BY <2>6, <3>2
    <2>7. CASE ~UpClosed(par, Seen(k))
      <3>1. Half(k)
        BY <2>3, <2>7
      <3>2. f[k + 1] \in D \ Seen(k) /\ f[k + 1] = par[f[k]]
        BY <1>b, <1>4, <2>2, <2>7, <3>1 DEF UpClosed
      <3>3. Seen(k + 1) = Seen(k) \cup {f[k + 1]}
        BY <2>4, <2>5, <3>2
      <3>4. Cardinality(Seen(k + 1)) = Cardinality(Seen(k)) + 1
        BY <2>5, <3>2, <3>3, FS_AddElement
      <3>5. k + 1 + 1 <= Cardinality(Seen(k + 1))
        BY <2>5, <3>1, <3>4
      <3>6. \A a \in Seen(k + 1) \ {f[k + 1]} : par[a] # NoParent => par[a] \in Seen(k + 1)
        BY <3>1, <3>2, <3>3
      <3> QED
        BY <3>2, <3>5, <3>6
    <2> QED
      BY <2>6, <2>7
  <1>9. UpClosed(par, Seen(N))
    <2>1. N \in Grow
      <3> HIDE DEF Grow
      <3> QED
        BY <1>1, <1>7, <1>8, Induction
    <2>2. Cardinality(Seen(N)) <= Cardinality(D)
      <3>1. Seen(N) \in SUBSET D
        OBVIOUS
      <3> HIDE DEF Seen
      <3> QED
        BY <1>3, <3>1, FS_Subset
    <2>3. Cardinality(Seen(N)) \in Nat
      <3>1. N \in 0..N
        BY <1>1
      <3> HIDE DEF Seen
      <3> QED
        BY <1>5, <3>1
    <2> HIDE DEF Seen
    <2> QED
      BY <1>1, <1>3, <2>1, <2>2, <2>3
  <1>10. n \in Seen(N)
    BY <1>1, <1>a
  <1>11. ASSUME NEW S \in SUBSET D, n \in S, \A m \in S : par[m] # NoParent => par[m] \in S
         PROVE  \A k \in 0..N : f[k] \in S \cup {NoParent}
    <2> DEFINE Good == {k \in Nat : k \in 0..N => f[k] \in S \cup {NoParent}}
    <2>1. 0 \in Good
      BY <1>1, <1>11
    <2>2. ASSUME NEW k \in Nat, k \in Good PROVE k + 1 \in Good
      <3> SUFFICES ASSUME k + 1 \in 0..N PROVE f[k + 1] \in S \cup {NoParent}
        BY <2>2
      <3>1. k \in 0..N /\ k \in 0..(N - 1)
        BY <1>1
      <3>2. f[k] \in S \cup {NoParent}
        BY <2>2, <3>1
      <3>3. f[k + 1] = IF f[k] \in D THEN par[f[k]] ELSE NoParent
        BY <1>1, <1>b, <3>1
      <3> HIDE DEF Good, Seen
      <3>4. CASE f[k] \in S
        BY <1>11, <3>3, <3>4
      <3>5. CASE f[k] = NoParent
        BY <1>3, <3>3, <3>5
      <3> QED
        BY <3>2, <3>4, <3>5
    <2> HIDE DEF Good
    <2>3. Nat \subseteq Good
      BY <2>1, <2>2, Induction
    <2> QED
      BY <2>3 DEF Good
  <1>12. ASSUME NEW a \in Seen(N) PROVE a \in D /\ Reaches(par, a, n)
    BY <1>11, <1>3 DEF Reaches, D
  <1>13. ASSUME NEW a \in D, Reaches(par, a, n) PROVE a \in Seen(N)
    <2>1. Seen(N) \in SUBSET D
      OBVIOUS
    <2> HIDE DEF Seen
    <2> QED
      BY <1>9, <1>10, <1>13, <2>1 DEF Reaches, UpClosed, D
  <1> HIDE DEF Seen
  <1> QED
    BY <1>2, <1>12, <1>13 DEF NodesAbove, D

-----------------------------------------------------------------------------
(* A cycle, a walk that does not end, and a batch that is never reached are one. *)

\* On a cycle lie nodes whose parents lie there.
LEMMA CycleCloses ==
  ASSUME NEW par, IsShape(par), Cyclic(par) PROVE ~Grounded(par)
  <1>1. PICK n \in DOMAIN par : par[n] # NoParent /\ Reaches(par, n, par[n])
    BY DEF Cyclic
  <1> DEFINE p == par[n]
             Z == {m \in DOMAIN par : Reaches(par, m, p) /\ Reaches(par, n, m)}
  <1>2. p \in DOMAIN par /\ p # NoParent
    BY <1>1 DEF IsShape
  <1>3. n \in Z
    BY <1>1, ReachesUp
  <1>4. ASSUME NEW m \in Z PROVE par[m] \in Z
    <2>1. m \in DOMAIN par /\ Reaches(par, m, p) /\ Reaches(par, n, m)
      BY <1>4
    <2>2. par[m] # NoParent /\ Reaches(par, n, par[m])
      BY <1>1, <2>1, ReachesUp
    <2>3. par[m] \in DOMAIN par
      BY <2>1, <2>2 DEF IsShape
    <2>4. Reaches(par, par[m], m)
      BY <2>1, <2>2, <2>3, ReachesUp
    <2> HIDE DEF p
    <2>5. Reaches(par, par[m], p)
      BY <1>2, <2>1, <2>3, <2>4, ReachesUp
    <2> QED
      BY <2>2, <2>3, <2>5
  <1>5. Z \in SUBSET DOMAIN par
    OBVIOUS
  <1> HIDE DEF Z
  <1> QED
    BY <1>3, <1>4, <1>5 DEF Grounded, Closed

\* Nodes whose parents lie among them hold a cycle: the node with least above it.
LEMMA ClosedCycles ==
  ASSUME VerticalConstants, NEW par, IsShape(par), ~Grounded(par) PROVE Cyclic(par)
  <1>1. PICK S \in SUBSET DOMAIN par : Closed(par, S) /\ S # {}
    BY DEF Grounded
  <1> DEFINE size == [n \in S |-> Cardinality(NodesAbove(par, n))]
  <1>2. ASSUME NEW n \in S PROVE IsFiniteSet(NodesAbove(par, n)) /\ size[n] \in Nat
    <2>1. IsFiniteSet(DOMAIN par) /\ NodesAbove(par, n) \in SUBSET DOMAIN par
      BY FS_Subset DEF IsShape, VerticalConstants, NodesAbove
    <2> QED
      BY <2>1, FS_Subset, FS_CardinalityType
  <1>3. PICK n \in S : \A m \in S : size[n] <= size[m]
    <2> HIDE DEF size
    <2> QED
      BY <1>1, <1>2, LeastIn
  <1> DEFINE p == par[n]
  <1>4. p \in S /\ p \in DOMAIN par /\ n \in DOMAIN par /\ p # NoParent
    BY <1>1 DEF Closed, IsShape, VerticalConstants
  <1>5. NodesAbove(par, p) \subseteq NodesAbove(par, n)
    BY <1>4, ReachesUp DEF NodesAbove
  <1>6. Cardinality(NodesAbove(par, n)) <= Cardinality(NodesAbove(par, p))
    BY <1>3, <1>4
  <1>7. NodesAbove(par, n) = NodesAbove(par, p)
    <2>1. IsFiniteSet(NodesAbove(par, n)) /\ Cardinality(NodesAbove(par, n)) \in Nat
          /\ Cardinality(NodesAbove(par, p)) \in Nat
      BY <1>2, <1>4
    <2>2. NodesAbove(par, p) \in SUBSET NodesAbove(par, n)
      BY <1>5
    <2> QED
      BY <1>6, <2>1, <2>2, FS_Subset
  <1>8. Reaches(par, n, p)
    BY <1>4, <1>7, ReachesUp DEF NodesAbove
  <1> QED
    BY <1>4, <1>8 DEF Cyclic

\* A node of the batch k leaves the tree in at most k steps.
LEMMA BatchClimbs ==
  ASSUME VerticalConstants, NEW par, IsShape(par), NEW n \in DOMAIN par, NEW f,
         Layers(f, par, NoParent, Cardinality(NodeId)), n \in f[Cardinality(NodeId)]
  PROVE  Climb(par, n)[Cardinality(NodeId)] = NoParent
  <1> DEFINE N == Cardinality(NodeId)
             c == Climb(par, n)
  <1>1. /\ N \in Nat /\ c[0] = n
        /\ \A k \in 0..(N - 1) : c[k + 1] = Up(par, c[k])
    BY ClimbSteps
  <1>2. n \in f[N] /\ NoParent \notin DOMAIN par
    BY DEF IsShape, VerticalConstants
  <1> HIDE DEF N
  <1>3. /\ f[0] = {}
        /\ \A k \in 0..(N - 1) : f[k + 1] = {m \in DOMAIN par : par[m] = NoParent \/ par[m] \in f[k]}
    <2>1. Layers(f, par, NoParent, N)
      BY DEF N
    <2>2. /\ f[0] = {}
          /\ \A k \in 0..N : f[k] \subseteq DOMAIN par
          /\ \A k \in 0..(N - 1) : f[k + 1] = {m \in DOMAIN par : par[m] = NoParent \/ par[m] \in f[k]}
          /\ \A k \in 0..(N - 1) : f[k] \subseteq f[k + 1]
      BY <1>1, <2>1, LayerSteps, Zenon
    <2> QED
      BY <2>2
  <1> HIDE DEF c
  <1> DEFINE Good == {k \in Nat : k \in 0..N => c[k] \in f[N - k] \cup {NoParent}}
  <1>4. 0 \in Good
    BY <1>1, <1>2
  <1>5. ASSUME NEW k \in Nat, k \in Good PROVE k + 1 \in Good
    <2> SUFFICES ASSUME k + 1 \in 0..N PROVE c[k + 1] \in f[N - (k + 1)] \cup {NoParent}
      OBVIOUS
    <2> DEFINE j == N - (k + 1)
    <2>1. k \in 0..N /\ k \in 0..(N - 1) /\ j \in 0..(N - 1) /\ j + 1 = N - k
      BY <1>1
    <2>2. c[k] \in f[j + 1] \cup {NoParent}
      BY <1>5, <2>1
    <2> HIDE DEF j
    <2>3. c[k + 1] = Up(par, c[k])
      BY <1>1, <2>1
    <2>4. f[j + 1] = {m \in DOMAIN par : par[m] = NoParent \/ par[m] \in f[j]}
      BY <1>3, <2>1
    <2>5. c[k + 1] \in f[j] \cup {NoParent}
      BY <1>2, <2>2, <2>3, <2>4 DEF Up
    <2> QED
      BY <2>5 DEF j
  <1> HIDE DEF Good
  <1>6. Nat \subseteq Good
    BY <1>4, <1>5, Induction
  <1>7. c[N] \in f[N - N] \cup {NoParent}
    BY <1>1, <1>6 DEF Good
  <1>8. c[N] = NoParent
    BY <1>1, <1>3, <1>7
  <1> QED
    BY <1>8 DEF N, c

\* The walk of the editor's check ends unless there is a cycle, and then it does not.
LEMMA CycleTests ==
  ASSUME VerticalConstants, NEW par, IsShape(par)
  PROVE  /\ HasParentCycle(par) <=> Cyclic(par)
         /\ Cyclic(par) <=> ~Grounded(par)
  <1> DEFINE N == Cardinality(NodeId)
  <1>1. Cyclic(par) <=> ~Grounded(par)
    BY CycleCloses, ClosedCycles
  <1>2. ASSUME ~Grounded(par) PROVE HasParentCycle(par)
    <2>1. PICK S \in SUBSET DOMAIN par : Closed(par, S) /\ S # {}
      BY <1>2 DEF Grounded
    <2>2. PICK n \in S : TRUE
      BY <2>1
    <2> DEFINE c == Climb(par, n)
    <2>3. N \in Nat /\ c[0] = n /\ \A k \in 0..(N - 1) : c[k + 1] = Up(par, c[k])
      BY <2>2, ClimbSteps
    <2> HIDE DEF N, c
    <2> DEFINE Good == {k \in Nat : k \in 0..N => c[k] \in S}
    <2>4. 0 \in Good
      BY <2>2, <2>3
    <2>5. ASSUME NEW k \in Nat, k \in Good PROVE k + 1 \in Good
      BY <2>1, <2>3, <2>5 DEF Up, Closed
    <2> HIDE DEF Good
    <2>6. Nat \subseteq Good
      BY <2>4, <2>5, Induction
    <2>7. c[N] \in S
      BY <2>3, <2>6 DEF Good
    <2>8. c[N] # NoParent /\ n \in DOMAIN par
      BY <2>1, <2>2, <2>7 DEF IsShape, VerticalConstants
    <2> QED
      BY <2>8 DEF HasParentCycle, c, N
  <1>3. ASSUME Grounded(par) PROVE ~HasParentCycle(par)
    <2>1. N \in Nat /\ IsFiniteSet(DOMAIN par) /\ Cardinality(DOMAIN par) <= N /\ NoParent \notin DOMAIN par
      BY FS_Subset, FS_CardinalityType DEF IsShape, VerticalConstants
    <2>2. \A n \in DOMAIN par : par[n] \in DOMAIN par \cup {NoParent}
      BY DEF IsShape
    <2>3. PICK f : Layers(f, par, NoParent, N)
      <3> HIDE DEF N
      <3> QED
        BY <2>1, LayersExist
    <2>4. Closed(par, DOMAIN par \ f[N])
      <3> HIDE DEF N
      <3> QED
        BY <2>1, <2>2, <2>3, LayersFill
    <2>5. \A n \in DOMAIN par : n \in f[N]
      BY <1>3, <2>4 DEF Grounded
    <2> QED
      BY <2>3, <2>5, BatchClimbs DEF HasParentCycle
  <1> QED
    BY <1>1, <1>2, <1>3

-----------------------------------------------------------------------------
(* The editor never closes a cycle unless a move overlaps a climb. *)

\* What a request holds, by where it stands. The tree of a save passed its check.
Edit(ids) ==
    {NoEdit}
    \cup [pc : {"climb"}, node : ids, to : ids, at : ids, seen : SUBSET ids, stale : BOOLEAN]
    \cup [pc : {"patch"}, node : ids, to : ids \cup {NoParent}, stale : BOOLEAN]
    \cup [pc : {"put"}, tree : {tree \in Trees : Grounded(tree)}]
    \cup [pc : {"applying"}, tree : {tree \in Trees : Grounded(tree)}, met : SUBSET NodeId]

VerticalTypes ==
    /\ parent \in Trees /\ unused \in SUBSET (NodeId \ Live) /\ raced \in BOOLEAN
    /\ req \in [Editor -> Edit(NodeId \ unused)]

\* Nodes above the new parent, as far as the walk went: the tree leaves them only
\* at a root or through an edge of the walk's last node.
Passed(C, rest) == \A m \in C \cap Live : parent[m] \in C \cup rest \cup {NoParent}
\* A climb that nobody outdated has not met the node, and knows what is above
\* the nodes that it has passed.
Climbing(q) ==
    q.pc = "climb" /\ ~q.stale =>
        /\ q.to \in q.seen \cup {q.at} /\ q.node \notin q.seen \cup {q.at}
        /\ Passed(q.seen, {q.at})
\* A PATCH that nobody outdated moves its node below nodes that do not hold it.
Cleared(q) ==
    q.pc = "patch" /\ ~q.stale /\ q.to # NoParent =>
        \E C \in SUBSET (NodeId \ unused) : q.to \in C /\ q.node \notin C /\ Passed(C, {})
VerticalInv ==
    /\ VerticalTypes
    /\ raced \/ (Grounded(parent) /\ \A r \in Editor : Climbing(req[r]) /\ Cleared(req[r]))

\* What the place of a request says of its fields.
LEMMA EditTypes ==
  ASSUME VerticalTypes, NEW r \in Editor
  PROVE  LET ids == NodeId \ unused IN
         /\ req[r] \in Edit(ids)
         /\ req[r].pc = "climb" =>
              req[r] \in [pc : {"climb"}, node : ids, to : ids, at : ids, seen : SUBSET ids, stale : BOOLEAN]
         /\ req[r].pc = "patch" =>
              req[r] \in [pc : {"patch"}, node : ids, to : ids \cup {NoParent}, stale : BOOLEAN]
         /\ req[r].pc = "put" => req[r] \in [pc : {"put"}, tree : {tree \in Trees : Grounded(tree)}]
         /\ req[r].pc = "applying" =>
              req[r] \in [pc : {"applying"}, tree : {tree \in Trees : Grounded(tree)}, met : SUBSET NodeId]
  <1> DEFINE ids == NodeId \ unused
             A == [pc : {"climb"}, node : ids, to : ids, at : ids, seen : SUBSET ids, stale : BOOLEAN]
             B == [pc : {"patch"}, node : ids, to : ids \cup {NoParent}, stale : BOOLEAN]
             C == [pc : {"put"}, tree : {tree \in Trees : Grounded(tree)}]
             D == [pc : {"applying"}, tree : {tree \in Trees : Grounded(tree)}, met : SUBSET NodeId]
  <1>1. req[r] \in {NoEdit} \cup A \cup B \cup C \cup D
    BY Zenon DEF VerticalTypes, Edit
  <1>2. NoEdit.pc = "idle"
    BY DEF NoEdit
  <1>3. \A q \in A : q.pc = "climb"
    OBVIOUS
  <1>4. \A q \in B : q.pc = "patch"
    OBVIOUS
  <1>5. \A q \in C : q.pc = "put"
    OBVIOUS
  <1>6. \A q \in D : q.pc = "applying"
    OBVIOUS
  <1> HIDE DEF A, B, C, D
  <1>7. /\ req[r].pc = "climb" => req[r] \in A
        /\ req[r].pc = "patch" => req[r] \in B
        /\ req[r].pc = "put" => req[r] \in C
        /\ req[r].pc = "applying" => req[r] \in D
    BY <1>1, <1>2, <1>3, <1>4, <1>5, <1>6
  <1> QED
    BY <1>1, <1>7, Zenon DEF A, B, C, D, Edit

\* Outdating a request keeps all it has but that flag.
LEMMA OutdatedTypes ==
  ASSUME NEW ids, NEW q \in Edit(ids)
  PROVE  /\ Outdated(q) \in Edit(ids)
         /\ Outdated(q).pc \in {"climb", "patch"} => Outdated(q).stale
  <1> DEFINE A == [pc : {"climb"}, node : ids, to : ids, at : ids, seen : SUBSET ids, stale : BOOLEAN]
             B == [pc : {"patch"}, node : ids, to : ids \cup {NoParent}, stale : BOOLEAN]
             C == [pc : {"put"}, tree : {tree \in Trees : Grounded(tree)}]
             D == [pc : {"applying"}, tree : {tree \in Trees : Grounded(tree)}, met : SUBSET NodeId]
  <1>1. q \in {NoEdit} \cup A \cup B \cup C \cup D
    BY Zenon DEF Edit
  <1>2. CASE q = NoEdit
    <2>1. Outdated(q) = q /\ q.pc = "idle"
      BY <1>2 DEF Outdated, NoEdit
    <2> QED
      BY <2>1
  <1>3. CASE q \in A
    <2>1. Outdated(q) = [q EXCEPT !.stale = TRUE]
      BY <1>3 DEF Outdated
    <2>2. Outdated(q) \in A /\ Outdated(q).stale
      BY <1>3, <2>1
    <2> HIDE DEF A, B, C, D
    <2>3. Outdated(q) \in Edit(ids)
      BY <2>2, Zenon DEF Edit, A
    <2> QED
      BY <2>2, <2>3
  <1>4. CASE q \in B
    <2>1. Outdated(q) = [q EXCEPT !.stale = TRUE]
      BY <1>4 DEF Outdated
    <2>2. Outdated(q) \in B /\ Outdated(q).stale
      BY <1>4, <2>1
    <2> HIDE DEF A, B, C, D
    <2>3. Outdated(q) \in Edit(ids)
      BY <2>2, Zenon DEF Edit, B
    <2> QED
      BY <2>2, <2>3
  <1>5. CASE q \in C \cup D
    <2>1. "stale" \notin DOMAIN q /\ q.pc # "climb" /\ q.pc # "patch"
      BY <1>5
    <2>2. Outdated(q) = q
      BY <2>1 DEF Outdated
    <2> QED
      BY <2>1, <2>2
  <1> HIDE DEF A, B, C, D
  <1> QED
    BY <1>1, <1>2, <1>3, <1>4, <1>5

\* More nodes, more requests.
LEMMA EditGrows ==
  ASSUME NEW ids, NEW more, ids \subseteq more PROVE Edit(ids) \subseteq Edit(more)
  BY DEF Edit

\* The tree is a shape for the lemmas above.
LEMMA TreeShapes ==
  ASSUME VerticalConstants, NEW tree \in Trees
  PROVE  IsShape(tree) /\ NoParent \notin DOMAIN tree
  BY DEF Trees, IsShape, VerticalConstants

LEMMA VerticalInitInv == ASSUME VerticalConstants, VerticalInit PROVE VerticalInv
  <1>1. parent \in Trees
    <2>1. parent \in [Existing -> Existing \cup {NoParent}] /\ Existing \in SUBSET NodeId
      BY DEF VerticalInit, VerticalConstants
    <2> QED
      BY <2>1 DEF Trees
  <1>2. Grounded(parent)
    <2> SUFFICES ASSUME NEW S \in SUBSET DOMAIN parent, Closed(parent, S), S # {} PROVE FALSE
      BY DEF Grounded
    <2>1. PICK n \in S : TRUE
      OBVIOUS
    <2>2. NoParent \in S
      BY <2>1 DEF Closed, VerticalInit
    <2> QED
      BY <2>2 DEF VerticalInit, VerticalConstants
  <1>3. req \in [Editor -> Edit(NodeId \ unused)]
    BY DEF VerticalInit, Edit
  <1>4. VerticalTypes
    BY <1>1, <1>3 DEF VerticalTypes, VerticalInit, VerticalConstants, Live
  <1>5. \A r \in Editor : Climbing(req[r]) /\ Cleared(req[r])
    BY DEF VerticalInit, NoEdit, Climbing, Cleared
  <1> QED
    BY <1>2, <1>4, <1>5 DEF VerticalInv

\* Requests stay cleared when nodes come and go and edges are only cut.
LEMMA StayCleared ==
  ASSUME VerticalTypes, UNCHANGED req, unused' \subseteq unused, Live' \cap (NodeId \ unused) \subseteq Live,
         \A n \in Live \cap Live' : parent'[n] \in {parent[n], NoParent},
         \A r \in Editor : Climbing(req[r]) /\ Cleared(req[r])
  PROVE  \A r \in Editor : Climbing(req[r])' /\ Cleared(req[r])'
  <1> SUFFICES ASSUME NEW r \in Editor PROVE Climbing(req[r])' /\ Cleared(req[r])'
    OBVIOUS
  <1>1. req'[r] = req[r]
    OBVIOUS
  <1>2. ASSUME NEW C \in SUBSET (NodeId \ unused), NEW rest, Passed(C, rest)
        PROVE Passed(C, rest)'
    BY <1>2 DEF Passed
  <1>3. Climbing(req[r])'
    <2> SUFFICES ASSUME req[r].pc = "climb", ~req[r].stale PROVE Climbing(req[r])'
      BY <1>1 DEF Climbing
    <2>1. req[r].seen \in SUBSET (NodeId \ unused)
      BY EditTypes
    <2> QED
      BY <1>1, <1>2, <2>1 DEF Climbing, Passed
  <1>4. Cleared(req[r])'
    <2> SUFFICES ASSUME req[r].pc = "patch", ~req[r].stale, req[r].to # NoParent PROVE Cleared(req[r])'
      BY <1>1 DEF Cleared
    <2>1. PICK C \in SUBSET (NodeId \ unused) : req[r].to \in C /\ req[r].node \notin C /\ Passed(C, {})
      BY DEF Cleared
    <2>2. Passed(C, {})'
      BY <1>2, <2>1 DEF Passed
    <2>3. C \in SUBSET (NodeId \ unused')
      OBVIOUS
    <2> QED
      BY <1>1, <2>1, <2>2, <2>3 DEF Cleared
  <1> QED
    BY <1>3, <1>4

LEMMA PostStep ==
  ASSUME VerticalConstants, VerticalInv, NEW n \in NodeId, NEW p \in NodeId \cup {NoParent}, PostNode(n, p)
  PROVE  VerticalInv'
  <1>1. n \in unused /\ p \in Live \cup {NoParent} /\ unused' = unused \ {n} /\ UNCHANGED <<req, raced>>
        /\ parent' = [m \in Live \cup {n} |-> IF m = n THEN p ELSE parent[m]]
    BY DEF PostNode
  <1>2. IsShape(parent) /\ NoParent \notin Live /\ parent \in Trees /\ n \notin Live /\ n # NoParent
    BY <1>1, TreeShapes DEF VerticalInv, VerticalTypes, Live, VerticalConstants
  <1>3. parent' \in Trees
    <2>1. parent' \in [Live \cup {n} -> Live \cup {n} \cup {NoParent}]
      BY <1>1, <1>2 DEF IsShape, Live
    <2>2. Live \cup {n} \in SUBSET NodeId
      BY <1>2 DEF IsShape, Live
    <2> QED
      BY <2>1, <2>2 DEF Trees
  <1>4. Live' = Live \cup {n}
    BY <1>1 DEF Live
  <1>5. VerticalTypes'
    <2>1. Edit(NodeId \ unused) \subseteq Edit(NodeId \ unused')
      BY <1>1, EditGrows
    <2>2. req' \in [Editor -> Edit(NodeId \ unused')]
      BY <1>1, <2>1 DEF VerticalInv, VerticalTypes
    <2>3. unused' \in SUBSET (NodeId \ Live')
      BY <1>1, <1>4 DEF VerticalInv, VerticalTypes
    <2> QED
      BY <1>1, <1>3, <2>2, <2>3 DEF VerticalInv, VerticalTypes
  <1>6. ASSUME ~raced PROVE Grounded(parent') /\ \A r \in Editor : (Climbing(req[r]) /\ Cleared(req[r]))'
    <2>1. Grounded(parent) /\ \A r \in Editor : Climbing(req[r]) /\ Cleared(req[r])
      BY <1>6 DEF VerticalInv
    <2>2. Grounded(parent')
      <3>1. p \in DOMAIN parent \cup {NoParent} /\ n \notin DOMAIN parent /\ NoParent \notin DOMAIN parent
        BY <1>1, <1>2 DEF Live
      <3>2. \A m \in DOMAIN parent : parent[m] \in DOMAIN parent \cup {NoParent}
        BY <1>2 DEF IsShape
      <3>3. Grounded([m \in DOMAIN parent \cup {n} |-> IF m = n THEN p ELSE parent[m]])
        BY <1>2, <2>1, <3>1, <3>2, GroundedAdd
      <3> QED
        BY <1>1, <3>3 DEF Live
    <2>3. Live' \cap (NodeId \ unused) \subseteq Live /\ \A m \in Live \cap Live' : parent'[m] \in {parent[m], NoParent}
      BY <1>1, <1>2, <1>4
    <2>4. \A r \in Editor : Climbing(req[r])' /\ Cleared(req[r])'
      BY <1>1, <2>1, <2>3, StayCleared DEF VerticalInv
    <2> QED
      BY <2>2, <2>4
  <1> QED
    BY <1>1, <1>5, <1>6 DEF VerticalInv

LEMMA DeleteStep ==
  ASSUME VerticalConstants, VerticalInv, NEW n \in NodeId, Delete(n)
  PROVE  VerticalInv'
  <1>1. n \in Live /\ UNCHANGED <<unused, req, raced>>
        /\ parent' = [m \in Live \ {n} |-> IF parent[m] = n THEN NoParent ELSE parent[m]]
    BY DEF Delete
  <1>2. IsShape(parent) /\ NoParent \notin Live /\ parent \in Trees
    BY TreeShapes DEF VerticalInv, VerticalTypes, Live
  <1>3. parent' \in Trees
    <2>1. parent' \in [Live \ {n} -> (Live \ {n}) \cup {NoParent}]
      BY <1>1, <1>2 DEF IsShape, Live
    <2>2. Live \ {n} \in SUBSET NodeId
      BY <1>2 DEF IsShape, Live
    <2> QED
      BY <2>1, <2>2 DEF Trees
  <1>4. Live' = Live \ {n}
    BY <1>1 DEF Live
  <1>5. VerticalTypes'
    BY <1>1, <1>3, <1>4 DEF VerticalInv, VerticalTypes
  <1>6. ASSUME ~raced PROVE Grounded(parent') /\ \A r \in Editor : (Climbing(req[r]) /\ Cleared(req[r]))'
    <2>1. Grounded(parent) /\ \A r \in Editor : Climbing(req[r]) /\ Cleared(req[r])
      BY <1>6 DEF VerticalInv
    <2>2. Grounded(parent')
      <3>1. Grounded([m \in DOMAIN parent \ {n} |-> IF parent[m] = n THEN NoParent ELSE parent[m]])
        BY <1>2, <2>1, GroundedCut DEF Live
      <3> QED
        BY <1>1, <3>1 DEF Live
    <2>3. Live' \cap (NodeId \ unused) \subseteq Live /\ \A m \in Live \cap Live' : parent'[m] \in {parent[m], NoParent}
      BY <1>1, <1>4
    <2>4. \A r \in Editor : Climbing(req[r])' /\ Cleared(req[r])'
      BY <1>1, <2>1, <2>3, StayCleared DEF VerticalInv
    <2> QED
      BY <2>2, <2>4
  <1> QED
    BY <1>1, <1>5, <1>6 DEF VerticalInv

\* A step of one request that leaves the tree alone.
LEMMA RequestStep ==
  ASSUME VerticalInv, NEW r \in Editor, NEW q \in Edit(NodeId \ unused),
         req' = [req EXCEPT ![r] = q], UNCHANGED <<parent, unused>>, raced => raced', raced' \in BOOLEAN,
         raced' \/ (Climbing(q) /\ Cleared(q))
  PROVE  VerticalInv'
  <1>1. VerticalTypes'
    BY DEF VerticalInv, VerticalTypes, Live
  <1>2. \A s \in Editor : req'[s] = IF s = r THEN q ELSE req[s]
    BY DEF VerticalInv, VerticalTypes
  <1>3. Live' = Live
    BY DEF Live
  <1>4. ASSUME ~raced', NEW s \in Editor PROVE (Climbing(req[s]) /\ Cleared(req[s]))'
    <2>1. Climbing(req'[s]) /\ Cleared(req'[s])
      BY <1>2, <1>4 DEF VerticalInv
    <2>2. \A C, rest : Passed(C, rest)' <=> Passed(C, rest)
      BY <1>3 DEF Passed
    <2> QED
      BY <1>3, <2>1 DEF Climbing, Cleared, Passed
  <1> QED
    BY <1>1, <1>4 DEF VerticalInv

LEMMA PatchStartStep ==
  ASSUME VerticalConstants, VerticalInv, NEW r \in Editor, NEW n \in NodeId, NEW p \in NodeId \cup {NoParent},
         PatchStart(r, n, p)
  PROVE  VerticalInv'
  <1> DEFINE ids == NodeId \ unused
             a == [pc |-> "patch", node |-> n, to |-> p, stale |-> FALSE]
             b == [pc |-> "climb", node |-> n, to |-> p, at |-> p, seen |-> {}, stale |-> FALSE]
  <1>1. n \in Live /\ p \in (Live \cup {NoParent}) \ {n} /\ UNCHANGED <<parent, unused, raced>>
        /\ req' = [req EXCEPT ![r] = IF p = NoParent THEN a ELSE b]
    BY DEF PatchStart
  <1>2. Live \subseteq ids
    BY TreeShapes DEF VerticalInv, VerticalTypes, IsShape, Live
  <1>3. CASE p = NoParent
    <2>1. a \in Edit(ids)
      BY <1>1, <1>2, <1>3 DEF Edit
    <2>2. Climbing(a) /\ Cleared(a)
      BY <1>3 DEF Climbing, Cleared
    <2> HIDE DEF a
    <2> QED
      BY <1>1, <1>3, <2>1, <2>2, RequestStep DEF VerticalInv, VerticalTypes
  <1>4. CASE p # NoParent
    <2>1. b \in Edit(ids)
      <3>1. p \in ids /\ n \in ids /\ {} \in SUBSET ids
        BY <1>1, <1>2, <1>4
      <3> HIDE DEF ids
      <3> QED
        BY <3>1 DEF Edit
    <2>2. Climbing(b) /\ Cleared(b)
      BY <1>1 DEF Climbing, Cleared, Passed
    <2> HIDE DEF b
    <2> QED
      BY <1>1, <1>4, <2>1, <2>2, RequestStep DEF VerticalInv, VerticalTypes
  <1> QED
    BY <1>3, <1>4

\* What a request sees next, it has the way to; at a root its way is whole.
LEMMA WouldCreateCycleStep ==
  ASSUME VerticalConstants, VerticalInv, NEW r \in Editor, WouldCreateCycle(r)
  PROVE  VerticalInv'
  <1> DEFINE q == req[r]
             next == Up(parent, q.at)
             seen == q.seen \cup {q.at}
             ids == NodeId \ unused
             a == [pc |-> "patch", node |-> q.node, to |-> q.to, stale |-> q.stale]
             b == [q EXCEPT !.at = next, !.seen = seen]
  <1>1. q \in [pc : {"climb"}, node : ids, to : ids, at : ids, seen : SUBSET ids, stale : BOOLEAN]
    BY EditTypes DEF WouldCreateCycle, VerticalInv
  <1>2. UNCHANGED <<parent, unused, raced>>
        /\ req' = [req EXCEPT ![r] = IF next = NoParent THEN a
                                     ELSE IF next = q.node \/ next \in seen THEN NoEdit ELSE b]
    BY DEF WouldCreateCycle
  <1>3. raced \/ Climbing(q)
    BY DEF VerticalInv
  <1>4. IsShape(parent) /\ NoParent \notin NodeId /\ Live \subseteq ids /\ Live = DOMAIN parent
    BY TreeShapes DEF VerticalInv, VerticalTypes, VerticalConstants, IsShape, Live
  <1>5. next \in Live \cup {NoParent} /\ (q.at \in Live => next = parent[q.at])
    BY <1>4 DEF Up, IsShape
  <1>6. q.pc = "climb" /\ q.node \in ids /\ q.to \in ids /\ q.at \in ids /\ q.seen \in SUBSET ids /\ q.stale \in BOOLEAN
    BY <1>1
  <1>b. b \in [pc : {"climb"}, node : ids, to : ids, at : ids \cup {NoParent}, seen : SUBSET ids, stale : BOOLEAN]
        /\ b.pc = "climb" /\ b.node = q.node /\ b.to = q.to /\ b.at = next /\ b.seen = seen /\ b.stale = q.stale
    BY <1>1, <1>4, <1>5
  <1>n. raced => raced'
    BY <1>2
  <1>m. raced' \in BOOLEAN
    BY <1>2 DEF VerticalInv, VerticalTypes
  <1> HIDE DEF q, next
  <1>7. CASE next = NoParent
    <2>1. a \in Edit(ids)
      <3> HIDE DEF ids
      <3> QED
        BY <1>6 DEF Edit
    <2>2. Climbing(a)
      BY DEF Climbing
    <2>3. raced \/ Cleared(a)
      <3> SUFFICES ASSUME ~raced, ~q.stale, q.to # NoParent PROVE Cleared(a)
        BY DEF Cleared
      <3>1. q.to \in seen /\ q.node \notin seen /\ Passed(q.seen, {q.at})
        BY <1>3, <1>6 DEF Climbing
      <3>2. Passed(seen, {})
        BY <1>5, <1>7, <3>1 DEF Passed
      <3>3. seen \in SUBSET (NodeId \ unused)
        BY <1>6
      <3> HIDE DEF seen
      <3> QED
        BY <3>1, <3>2, <3>3 DEF Cleared
    <2>4. req' = [req EXCEPT ![r] = a]
      BY <1>2, <1>7
    <2> HIDE DEF a
    <2>5. raced' \/ (Climbing(a) /\ Cleared(a))
      BY <1>2, <2>2, <2>3
    <2> QED
      BY <1>2, <1>n, <1>m, <2>1, <2>4, <2>5, RequestStep
  <1>8. CASE next # NoParent /\ (next = q.node \/ next \in seen)
    <2>1. NoEdit \in Edit(ids)
      BY DEF Edit
    <2>2. Climbing(NoEdit) /\ Cleared(NoEdit)
      BY DEF NoEdit, Climbing, Cleared
    <2>3. req' = [req EXCEPT ![r] = NoEdit]
      BY <1>2, <1>8
    <2> QED
      BY <1>2, <1>n, <1>m, <2>1, <2>2, <2>3, RequestStep
  <1>9. CASE next # NoParent /\ next # q.node /\ next \notin seen
    <2> HIDE DEF b
    <2>1. b \in Edit(ids)
      <3>1. b \in [pc : {"climb"}, node : ids, to : ids, at : ids, seen : SUBSET ids, stale : BOOLEAN]
        <4>1. next \in ids
          BY <1>4, <1>5, <1>9
        <4> HIDE DEF ids
        <4> QED
          BY <1>1, <1>6, <1>b, <4>1 DEF b
      <3> HIDE DEF ids
      <3> QED
        BY <3>1, Zenon DEF Edit
    <2>2. Cleared(b)
      BY <1>b DEF Cleared
    <2>3. raced \/ Climbing(b)
      <3> SUFFICES ASSUME ~raced, ~q.stale PROVE Climbing(b)
        BY <1>b DEF Climbing
      <3>1. q.to \in seen /\ q.node \notin seen /\ Passed(q.seen, {q.at})
        BY <1>3, <1>6 DEF Climbing
      <3>2. Passed(seen, {next})
        BY <1>5, <3>1 DEF Passed
      <3> HIDE DEF seen
      <3> QED
        BY <1>9, <1>b, <3>1, <3>2 DEF Climbing
    <2>4. req' = [req EXCEPT ![r] = b]
      BY <1>2, <1>9
    <2>5. raced' \/ (Climbing(b) /\ Cleared(b))
      BY <1>2, <2>2, <2>3
    <2> QED
      BY <1>2, <1>n, <1>m, <2>1, <2>4, <2>5, RequestStep
  <1> QED
    BY <1>7, <1>8, <1>9

\* A move commits: what the others have read is outdated.
LEMMA MoveStep ==
  ASSUME VerticalInv, NEW r \in Editor, req' = MovesOn(r), UNCHANGED unused,
         parent' \in Trees, Live' = Live, raced' \in BOOLEAN, raced' \/ Grounded(parent')
  PROVE  VerticalInv'
  <1>1. ASSUME NEW s \in Editor
        PROVE req'[s] \in Edit(NodeId \ unused) /\ (req'[s].pc \in {"climb", "patch"} => req'[s].stale)
    <2>1. CASE s = r
      <3>1. req'[s] = NoEdit
        BY <2>1 DEF MovesOn
      <3> QED
        BY <3>1 DEF Edit, NoEdit
    <2>2. CASE s # r
      <3>1. req'[s] = Outdated(req[s])
        BY <2>2 DEF MovesOn
      <3>2. req[s] \in Edit(NodeId \ unused)
        BY DEF VerticalInv, VerticalTypes
      <3> QED
        BY <3>1, <3>2, OutdatedTypes
    <2> QED
      BY <2>1, <2>2
  <1>2. req' \in [Editor -> Edit(NodeId \ unused')]
    <2>1. req' = [s \in Editor |-> req'[s]]
      BY DEF MovesOn
    <2> QED
      BY <1>1, <2>1
  <1>3. VerticalTypes'
    BY <1>2 DEF VerticalInv, VerticalTypes
  <1>4. \A s \in Editor : (Climbing(req[s]) /\ Cleared(req[s]))'
    BY <1>1 DEF Climbing, Cleared
  <1> QED
    BY <1>3, <1>4 DEF VerticalInv

\* A PATCH that nobody outdated puts its node below nodes that do not hold it.
LEMMA PatchWriteStep ==
  ASSUME VerticalConstants, VerticalInv, NEW r \in Editor, PatchWrite(r)
  PROVE  VerticalInv'
  <1> DEFINE q == req[r]
             fits == q.node \in Live /\ q.to \in Live \cup {NoParent}
             ids == NodeId \ unused
  <1>1. /\ q.pc = "patch"
        /\ parent' = IF fits THEN [parent EXCEPT ![q.node] = q.to] ELSE parent
        /\ req' = IF fits THEN MovesOn(r) ELSE [req EXCEPT ![r] = NoEdit]
        /\ raced' = (raced \/ (fits /\ q.stale)) /\ UNCHANGED unused
    BY DEF PatchWrite
  <1>2. q.stale \in BOOLEAN
    BY <1>1, EditTypes DEF VerticalInv
  <1>3. raced' \in BOOLEAN
    BY <1>1
  <1>4. parent \in Trees /\ IsShape(parent) /\ NoParent \notin Live /\ Live = DOMAIN parent
    BY TreeShapes DEF VerticalInv, VerticalTypes, Live
  <1>5. raced \/ (Grounded(parent) /\ Cleared(q))
    BY DEF VerticalInv
  <1>6. CASE ~fits
    <2>1. req' = [req EXCEPT ![r] = NoEdit] /\ UNCHANGED <<parent, unused>> /\ (raced => raced')
      BY <1>1, <1>6
    <2>2. NoEdit \in Edit(ids) /\ Climbing(NoEdit) /\ Cleared(NoEdit)
      BY DEF Edit, NoEdit, Climbing, Cleared
    <2> QED
      BY <1>3, <2>1, <2>2, RequestStep
  <1>7. CASE fits
    <2>1. parent' = [parent EXCEPT ![q.node] = q.to] /\ req' = MovesOn(r) /\ raced' = (raced \/ q.stale)
      BY <1>1, <1>7
    <2>2. parent' \in Trees
      <3>1. parent' \in [Live -> Live \cup {NoParent}] /\ Live \in SUBSET NodeId
        BY <1>4, <1>7, <2>1 DEF IsShape, Trees
      <3> QED
        BY <3>1 DEF Trees
    <2>3. Live' = Live
      BY <1>4, <2>1 DEF Live
    <2> HIDE DEF q
    <2>4. ASSUME ~raced, ~q.stale PROVE Grounded(parent')
      <3> SUFFICES ASSUME NEW S \in SUBSET Live, Closed(parent', S) PROVE S = {}
        BY <2>3 DEF Grounded, Live
      <3>1. Grounded(parent) /\ Cleared(q)
        BY <1>5, <2>4
      <3>2. \A m \in Live : parent'[m] = IF m = q.node THEN q.to ELSE parent[m]
        BY <1>4, <2>1
      <3>3. CASE q.node \notin S
        <4>1. Closed(parent, S)
          BY <3>2, <3>3 DEF Closed
        <4> QED
          BY <1>4, <3>1, <4>1 DEF Grounded
      <3>4. CASE q.node \in S
        <4>1. q.to \in S /\ q.to # NoParent
          BY <1>4, <3>2, <3>4 DEF Closed
        <4>2. PICK C \in SUBSET ids : q.to \in C /\ q.node \notin C /\ Passed(C, {})
          BY <1>1, <2>4, <3>1, <4>1 DEF Cleared
        <4>3. Closed(parent, S \cap C)
          <5> SUFFICES ASSUME NEW m \in S \cap C PROVE parent[m] \in S \cap C
            BY DEF Closed
          <5>1. parent[m] \in S
            BY <3>2, <4>2 DEF Closed
          <5>2. parent[m] \in C \cup {NoParent}
            BY <4>2 DEF Passed
          <5> QED
            BY <1>4, <5>1, <5>2
        <4>4. S \cap C = {}
          BY <1>4, <3>1, <4>3 DEF Grounded
        <4> QED
          BY <4>1, <4>2, <4>4
      <3> QED
        BY <3>3, <3>4
    <2> QED
      BY <1>1, <1>3, <2>1, <2>2, <2>3, <2>4, MoveStep
  <1> QED
    BY <1>6, <1>7

LEMMA PutStartStep ==
  ASSUME VerticalConstants, VerticalInv, NEW r \in Editor, PutStart(r)
  PROVE  VerticalInv'
  <1>1. PICK tree \in [Live -> Live \cup {NoParent}] :
          ~HasParentCycle(tree) /\ req' = [req EXCEPT ![r] = [pc |-> "put", tree |-> tree]]
    BY DEF PutStart
  <1>2. Live \in SUBSET NodeId
    BY TreeShapes DEF VerticalInv, VerticalTypes, IsShape, Live
  <1>3. tree \in Trees
    BY <1>2 DEF Trees
  <1>4. Grounded(tree)
    BY <1>1, <1>3, TreeShapes, CycleTests
  <1> DEFINE q == [pc |-> "put", tree |-> tree]
  <1>5. q \in Edit(NodeId \ unused)
    BY <1>3, <1>4 DEF Edit
  <1>6. Climbing(q) /\ Cleared(q)
    BY DEF Climbing, Cleared
  <1>7. req' = [req EXCEPT ![r] = q] /\ UNCHANGED <<parent, unused, raced>>
    BY <1>1 DEF PutStart
  <1> HIDE DEF q
  <1> QED
    BY <1>5, <1>6, <1>7, RequestStep DEF VerticalInv, VerticalTypes

LEMMA PutClearStep ==
  ASSUME VerticalConstants, VerticalInv, NEW r \in Editor, PutClear(r)
  PROVE  VerticalInv'
  <1> DEFINE q == [pc |-> "applying", tree |-> req[r].tree, met |-> Live]
  <1>1. req[r].pc = "put" /\ UNCHANGED <<parent, unused, raced>>
    BY DEF PutClear
  <1>2. req' = [req EXCEPT ![r] = q]
    BY DEF PutClear, VerticalInv, VerticalTypes
  <1>3. req[r] \in [pc : {"put"}, tree : {tree \in Trees : Grounded(tree)}]
    BY <1>1, EditTypes DEF VerticalInv
  <1>4. Live \in SUBSET NodeId
    BY TreeShapes DEF VerticalInv, VerticalTypes, IsShape, Live
  <1>5. q \in Edit(NodeId \ unused)
    <2>1. q \in [pc : {"applying"}, tree : {tree \in Trees : Grounded(tree)}, met : SUBSET NodeId]
      BY <1>3, <1>4
    <2> HIDE DEF q
    <2> QED
      BY <2>1, Zenon DEF Edit
  <1>6. Climbing(q) /\ Cleared(q)
    BY DEF Climbing, Cleared
  <1> HIDE DEF q
  <1> QED
    BY <1>1, <1>2, <1>5, <1>6, RequestStep DEF VerticalInv, VerticalTypes

\* A save puts its own tree over the nodes that it knows, and leaves the later ones
\* where they are or makes them roots.
LEMMA PutCommitStep ==
  ASSUME VerticalConstants, VerticalInv, NEW r \in Editor, PutCommit(r)
  PROVE  VerticalInv'
  <1> DEFINE q == req[r]
             t == q.tree
             fits == DOMAIN t \subseteq Live
  <1>1. /\ q.pc = "applying"
        /\ parent' = IF ~fits THEN parent
                     ELSE [n \in Live |-> IF n \in DOMAIN t THEN t[n]
                                          ELSE IF n \in q.met THEN NoParent ELSE parent[n]]
        /\ req' = IF fits THEN MovesOn(r) ELSE [req EXCEPT ![r] = NoEdit]
        /\ UNCHANGED <<unused, raced>>
    BY DEF PutCommit
  <1>2. t \in Trees /\ Grounded(t) /\ IsShape(t)
    BY <1>1, EditTypes, TreeShapes DEF VerticalInv
  <1>3. raced' \in BOOLEAN
    BY <1>1 DEF VerticalInv, VerticalTypes
  <1>4. parent \in Trees /\ IsShape(parent) /\ NoParent \notin Live /\ Live = DOMAIN parent
    BY TreeShapes DEF VerticalInv, VerticalTypes, Live
  <1> HIDE DEF q, t
  <1>6. CASE ~fits
    <2>1. req' = [req EXCEPT ![r] = NoEdit] /\ UNCHANGED <<parent, unused>> /\ (raced => raced')
      BY <1>1, <1>6
    <2>2. NoEdit \in Edit(NodeId \ unused) /\ Climbing(NoEdit) /\ Cleared(NoEdit)
      BY DEF Edit, NoEdit, Climbing, Cleared
    <2> QED
      BY <1>3, <2>1, <2>2, RequestStep
  <1>7. CASE fits
    <2>1. /\ parent' = [n \in Live |-> IF n \in DOMAIN t THEN t[n]
                                       ELSE IF n \in q.met THEN NoParent ELSE parent[n]]
          /\ req' = MovesOn(r)
      BY <1>1, <1>7
    <2>2. parent' \in Trees
      <3>1. parent' \in [Live -> Live \cup {NoParent}] /\ Live \in SUBSET NodeId
        BY <1>2, <1>4, <1>7, <2>1 DEF IsShape
      <3> QED
        BY <3>1 DEF Trees
    <2>3. Live' = Live
      BY <2>1 DEF Live
    <2>4. ASSUME ~raced PROVE Grounded(parent')
      <3> SUFFICES ASSUME NEW S \in SUBSET Live, Closed(parent', S) PROVE S = {}
        BY <2>3 DEF Grounded, Live
      <3>1. Grounded(parent)
        BY <2>4 DEF VerticalInv
      <3>2. S \cap DOMAIN t = {}
        <4>1. Closed(t, S \cap DOMAIN t)
          <5> SUFFICES ASSUME NEW m \in S \cap DOMAIN t PROVE t[m] \in S \cap DOMAIN t
            BY DEF Closed
          <5>1. t[m] \in S
            BY <2>1 DEF Closed
          <5> QED
            BY <1>2, <1>4, <5>1 DEF IsShape
        <4> QED
          BY <1>2, <4>1 DEF Grounded
      <3>3. Closed(parent, S)
        <4> SUFFICES ASSUME NEW m \in S PROVE parent[m] \in S
          BY DEF Closed
        <4>1. parent'[m] \in S /\ parent'[m] # NoParent
          BY <1>4 DEF Closed
        <4> QED
          BY <2>1, <3>2, <4>1
      <3> QED
        BY <1>4, <3>1, <3>3 DEF Grounded
    <2> QED
      BY <1>1, <1>3, <2>1, <2>2, <2>3, <2>4, MoveStep
  <1> QED
    BY <1>6, <1>7

LEMMA VerticalInductive ==
  ASSUME VerticalConstants, VerticalInv, [VerticalNext]_verticalVars
  PROVE  VerticalInv'
  <1>1. CASE UNCHANGED verticalVars
    BY <1>1 DEF verticalVars, VerticalInv, VerticalTypes, Live, Climbing, Cleared, Passed
  <1>2. CASE VerticalNext
    BY <1>2, PostStep, DeleteStep, PatchStartStep, WouldCreateCycleStep, PatchWriteStep,
       PutStartStep, PutClearStep, PutCommitStep DEF VerticalNext
  <1> QED
    BY <1>1, <1>2

\* What an editor's request has climbed or validated still fits the tree when it is
\* written, or another request was written meanwhile and the request is outdated.
THEOREM VerticalInvariant == ASSUME VerticalConstants PROVE VerticalSpec => []VerticalInv
  BY VerticalInitInv, VerticalInductive, PTL DEF VerticalSpec

\* However many editors move, save, add and delete nodes at once, the tree gets a
\* cycle only if a move committed between the climb of another one and its write.
THEOREM CyclesOverlap == ASSUME VerticalConstants PROVE VerticalSpec => []CyclesNeedOverlap
  <1>1. VerticalInv => CyclesNeedOverlap
    BY TreeShapes, CycleTests DEF VerticalInv, VerticalTypes, CyclesNeedOverlap
  <1> QED
    BY <1>1, VerticalInvariant, PTL

-----------------------------------------------------------------------------
(* What else the helpers compute, on every tree. *)

\* Each batch is among what the last one places.
LEMMA LayersGrow ==
  ASSUME NEW par, NEW root, NEW N \in Nat, NEW f, Layers(f, par, root, N)
  PROVE  \A k \in 0..N : f[k] \subseteq f[N]
  <1>1. /\ f[0] = {}
        /\ \A k \in 0..N : f[k] \subseteq DOMAIN par
        /\ \A k \in 0..(N - 1) : f[k + 1] = {n \in DOMAIN par : par[n] = root \/ par[n] \in f[k]}
        /\ \A k \in 0..(N - 1) : f[k] \subseteq f[k + 1]
    BY LayerSteps, Zenon
  <1> DEFINE Good == {d \in Nat : d \in 0..N => f[N - d] \subseteq f[N]}
  <1>2. 0 \in Good
    OBVIOUS
  <1>3. ASSUME NEW d \in Nat, d \in Good PROVE d + 1 \in Good
    <2> SUFFICES ASSUME d + 1 \in 0..N PROVE f[N - (d + 1)] \subseteq f[N]
      OBVIOUS
    <2> DEFINE j == N - (d + 1)
    <2>1. j \in 0..(N - 1) /\ j + 1 = N - d /\ d \in 0..N
      OBVIOUS
    <2>2. f[j + 1] \subseteq f[N]
      BY <1>3, <2>1
    <2> HIDE DEF j
    <2>3. f[j] \subseteq f[N]
      BY <1>1, <2>1, <2>2
    <2> QED
      BY <2>3 DEF j
  <1> HIDE DEF Good
  <1>4. Nat \subseteq Good
    BY <1>2, <1>3, Induction
  <1> SUFFICES ASSUME NEW k \in 0..N PROVE f[k] \subseteq f[N]
    OBVIOUS
  <1>5. N - k \in Nat /\ N - k \in 0..N /\ N - (N - k) = k
    OBVIOUS
  <1>6. f[N - (N - k)] \subseteq f[N]
    BY <1>4, <1>5 DEF Good
  <1> QED
    BY <1>5, <1>6

\* A save creates every parent before its children; it fails only on a cycle.
LEMMA BatchOrder ==
  ASSUME VerticalConstants, NEW par, IsShape(par)
  PROVE  /\ (\E n \in DOMAIN par : Batch(par)[n] = 0) <=> Cyclic(par)
         /\ Cyclic(par) \/ \A n \in DOMAIN par : par[n] # NoParent => Batch(par)[par[n]] < Batch(par)[n]
  <1> DEFINE N == Cardinality(NodeId)
             D == DOMAIN par
             placed == CHOOSE f : Layers(f, par, NoParent, N)
             Batches(n) == {k \in 1..N : n \in placed[k]}
             b == Batch(par)
  <1>1. N \in Nat /\ IsFiniteSet(D) /\ Cardinality(D) <= N /\ NoParent \notin D
        /\ \A n \in D : par[n] \in D \cup {NoParent}
    BY FS_Subset, FS_CardinalityType DEF IsShape, VerticalConstants
  <1>2. \A n \in D : b[n] = IF Batches(n) = {} THEN 0
                            ELSE CHOOSE k \in Batches(n) : \A j \in Batches(n) : k <= j
    BY DEF Batch, Layers
  <1> HIDE DEF N, b
  <1>3. Layers(placed, par, NoParent, N)
    BY <1>1, LayersExist
  <1> HIDE DEF placed
  <1>4. /\ placed[0] = {}
        /\ \A k \in 0..N : placed[k] \subseteq DOMAIN par
        /\ \A k \in 0..(N - 1) : placed[k + 1] = {n \in DOMAIN par : par[n] = NoParent \/ par[n] \in placed[k]}
        /\ \A k \in 0..(N - 1) : placed[k] \subseteq placed[k + 1]
    BY <1>1, <1>3, LayerSteps, Zenon
  <1>5. /\ Closed(par, D \ placed[N])
        /\ \A S \in SUBSET D : Closed(par, S) => S \cap placed[N] = {}
    BY <1>1, <1>3, LayersFill
  <1>6. \A k \in 0..N : placed[k] \subseteq placed[N]
    BY <1>1, <1>3, LayersGrow
  <1>7. ASSUME NEW n \in D PROVE Batches(n) = {} <=> n \notin placed[N]
    <2>1. ASSUME n \in placed[N] PROVE N \in Batches(n)
      BY <1>1, <1>4, <2>1
    <2>2. ASSUME NEW k \in Batches(n) PROVE n \in placed[N]
      BY <1>6, <2>2
    <2> HIDE DEF Batches
    <2> QED
      BY <2>1, <2>2
  <1>8. ASSUME NEW n \in D, Batches(n) # {}
        PROVE b[n] \in Batches(n) /\ \A j \in Batches(n) : b[n] <= j
    <2>1. Batches(n) \in SUBSET Nat
      OBVIOUS
    <2> HIDE DEF Batches
    <2>2. b[n] = CHOOSE k \in Batches(n) : \A j \in Batches(n) : k <= j
      BY <1>2, <1>8
    <2>3. \E k \in Batches(n) : \A j \in Batches(n) : k <= j
      BY <1>8, <2>1, LeastNumber
    <2> QED
      BY <2>2, <2>3
  <1>9. ASSUME NEW n \in D PROVE b[n] = 0 <=> n \notin placed[N]
    <2>1. CASE Batches(n) = {}
      BY <1>2, <1>7, <2>1
    <2>2. CASE Batches(n) # {}
      <3>1. b[n] \in 1..N
        BY <1>8, <2>2
      <3> QED
        BY <1>1, <1>7, <2>2, <3>1
    <2> QED
      BY <2>1, <2>2
  <1>10. (\E n \in D : b[n] = 0) <=> ~Grounded(par)
    <2>1. ASSUME NEW n \in D, b[n] = 0 PROVE ~Grounded(par)
      BY <1>5, <1>9, <2>1 DEF Grounded
    <2>2. ASSUME ~Grounded(par) PROVE \E n \in D : b[n] = 0
      <3>1. PICK S \in SUBSET D : Closed(par, S) /\ S # {}
        BY <2>2 DEF Grounded
      <3>2. PICK n \in S : TRUE
        BY <3>1
      <3>3. n \notin placed[N]
        BY <1>5, <3>1, <3>2
      <3> QED
        BY <1>9, <3>2, <3>3
    <2> QED
      BY <2>1, <2>2
  <1>11. ASSUME Grounded(par), NEW n \in D, par[n] # NoParent PROVE b[par[n]] < b[n]
    <2>1. b[n] \in Batches(n) /\ par[n] \in D
      <3>1. Batches(n) # {}
        BY <1>5, <1>7, <1>11 DEF Grounded
      <3> HIDE DEF Batches
      <3> QED
        BY <1>1, <1>8, <1>11, <3>1
    <2> DEFINE k == b[n] - 1
    <2>2. b[n] \in 1..N /\ k \in 0..(N - 1) /\ k + 1 = b[n] /\ n \in placed[k + 1]
      BY <1>1, <2>1
    <2> HIDE DEF k
    <2>3. par[n] \in placed[k]
      BY <1>4, <1>11, <2>2
    <2>4. k \in 1..N
      BY <1>1, <1>4, <2>2, <2>3
    <2>5. k \in Batches(par[n])
      BY <2>3, <2>4
    <2>6. b[par[n]] <= k /\ b[par[n]] \in 1..N
      <3>1. b[par[n]] \in Batches(par[n]) /\ \A j \in Batches(par[n]) : b[par[n]] <= j
        <4> HIDE DEF Batches
        <4> QED
          BY <1>8, <2>1, <2>5
      <3> QED
        BY <2>5, <3>1
    <2> QED
      BY <1>1, <2>2, <2>6
  <1> HIDE DEF D
  <1> QED
    BY <1>10, <1>11, CycleTests DEF b, D

\* What a climb brings into a scope that holds the parents of its nodes.
LEMMA ClimbIntoScope ==
  ASSUME VerticalConstants, NEW par, IsShape(par), NEW m \in DOMAIN par,
         NEW scope \in SUBSET DOMAIN par, UpClosed(par, scope)
  PROVE  scope \cup ClimbInto(par, m, scope) = scope \cup NodesAbove(par, m)
  <1> DEFINE N == Cardinality(NodeId)
             c == Climb(par, m)
             D == DOMAIN par
  <1>1. /\ N \in Nat /\ c[0] = m
        /\ \A k \in 0..N : c[k] \in D \cup {NoParent}
        /\ \A k \in 0..(N - 1) : c[k + 1] = Up(par, c[k])
    BY ClimbSteps
  <1>2. NodesAbove(par, m) = {c[k] : k \in 0..N} \cap D
    BY WalkMeetsReference DEF WalkUp
  <1>3. ClimbInto(par, m, scope) = {c[k] : k \in {i \in 0..N : \A j \in 0..i : c[j] \in D \ scope}}
    BY DEF ClimbInto
  <1>a. NoParent \notin D
    BY DEF IsShape, VerticalConstants
  <1> HIDE DEF N, c
  <1>4. ASSUME NEW k \in 0..N, NEW j \in 0..k, c[j] \notin D \ scope PROVE c[k] \in scope \cup {NoParent}
    <2> DEFINE Good == {i \in Nat : i \in j..N => c[i] \in scope \cup {NoParent}}
    <2>1. c[j] \in scope \cup {NoParent}
      BY <1>1, <1>4
    <2>2. 0 \in Good
      BY <2>1
    <2>3. ASSUME NEW i \in Nat, i \in Good PROVE i + 1 \in Good
      <3> SUFFICES ASSUME i + 1 \in j..N, i + 1 # j PROVE c[i + 1] \in scope \cup {NoParent}
        BY <2>1
      <3>1. i \in j..N /\ i \in 0..(N - 1)
        BY <1>1
      <3>2. c[i] \in scope \cup {NoParent} /\ c[i + 1] = Up(par, c[i])
        BY <1>1, <2>3, <3>1
      <3> QED
        BY <1>a, <3>2 DEF Up, UpClosed
    <2> HIDE DEF Good
    <2>4. Nat \subseteq Good
      BY <2>2, <2>3, Induction
    <2> QED
      BY <1>1, <2>4 DEF Good
  <1>5. ClimbInto(par, m, scope) \subseteq NodesAbove(par, m)
    <2> SUFFICES ASSUME NEW i \in 0..N, \A j \in 0..i : c[j] \in D \ scope PROVE c[i] \in NodesAbove(par, m)
      BY <1>3
    <2>1. i \in 0..i
      OBVIOUS
    <2> QED
      BY <1>2, <2>1
  <1>6. ASSUME NEW a \in NodesAbove(par, m), a \notin scope PROVE a \in ClimbInto(par, m, scope)
    <2>1. PICK k \in 0..N : a = c[k] /\ a \in D
      BY <1>2
    <2>2. \A j \in 0..k : c[j] \in D \ scope
      BY <1>4, <1>6, <1>a, <2>1
    <2> QED
      BY <1>3, <2>1, <2>2
  <1> QED
    BY <1>5, <1>6

\* The scope of the feed and of the gateway holds what lies above each seat.
LEMMA ScopeHoldsAbove ==
  ASSUME VerticalConstants, NEW par, IsShape(par), NEW mine \in SUBSET DOMAIN par
  PROVE  ScopeNodeIds(par, mine) = UNION {NodesAbove(par, m) : m \in mine}
  <1> DEFINE Above(s) == UNION {NodesAbove(par, m) : m \in s}
             Pulls(g) == g = [s \in SUBSET mine |-> IF s = {} THEN {}
                                ELSE g[s \ {Pick(s)}] \cup ClimbInto(par, Pick(s), g[s \ {Pick(s)}])]
             scopes == CHOOSE g : Pulls(g)
  <1>1. ScopeNodeIds(par, mine) = scopes[mine]
    BY DEF ScopeNodeIds, FoldSet, MapThenFoldSet, Pick
  <1>2. ASSUME NEW s \in SUBSET mine, s # {}
        PROVE /\ Pick(s) \in s /\ s \ {Pick(s)} \in SUBSET mine
              /\ Above(s) = Above(s \ {Pick(s)}) \cup ClimbInto(par, Pick(s), Above(s \ {Pick(s)}))
    <2> DEFINE rest == s \ {Pick(s)}
    <2>1. Pick(s) \in s
      BY <1>2, PickIn
    <2>2. Above(s) = Above(rest) \cup NodesAbove(par, Pick(s))
      BY <2>1
    <2>3. Above(rest) \in SUBSET DOMAIN par
      BY DEF NodesAbove
    <2>4. UpClosed(par, Above(rest))
      <3> SUFFICES ASSUME NEW m \in rest, NEW a \in NodesAbove(par, m), par[a] # NoParent
                   PROVE par[a] \in NodesAbove(par, m)
        BY DEF UpClosed
      <3>1. a \in DOMAIN par /\ Reaches(par, a, m) /\ par[a] \in DOMAIN par
        BY DEF NodesAbove, IsShape
      <3>2. Reaches(par, par[a], m)
        BY <3>1 DEF Reaches
      <3> QED
        BY <3>1, <3>2 DEF NodesAbove
    <2> HIDE DEF Above
    <2>5. Above(rest) \cup ClimbInto(par, Pick(s), Above(rest)) = Above(rest) \cup NodesAbove(par, Pick(s))
      BY <2>1, <2>3, <2>4, ClimbIntoScope
    <2> QED
      BY <2>1, <2>2, <2>5
  <1>3. Above({}) = {}
    OBVIOUS
  <1> HIDE DEF Above
  <1>4. Pulls(scopes)
    <2> DEFINE g == [s \in SUBSET mine |-> Above(s)]
    <2>1. ASSUME NEW s \in SUBSET mine
          PROVE  g[s] = IF s = {} THEN {} ELSE g[s \ {Pick(s)}] \cup ClimbInto(par, Pick(s), g[s \ {Pick(s)}])
      <3>1. CASE s = {}
        BY <1>3, <3>1
      <3>2. CASE s # {}
        <4>1. g[s] = Above(s) /\ g[s \ {Pick(s)}] = Above(s \ {Pick(s)})
          BY <1>2, <3>2
        <4> HIDE DEF g
        <4> QED
          BY <1>2, <3>2, <4>1
      <3> QED
        BY <3>1, <3>2
    <2>2. g = [s \in SUBSET mine |-> g[s]]
      OBVIOUS
    <2> HIDE DEF g
    <2>3. Pulls(g)
      BY <2>1, <2>2
    <2> HIDE DEF Pulls
    <2> QED
      BY <2>3
  <1> HIDE DEF scopes
  <1> DEFINE Good == {s \in SUBSET mine : scopes[s] = Above(s)}
  <1>5. ASSUME NEW T \in SUBSET mine, \A U \in SUBSET T : U # T => U \in Good PROVE T \in Good
    <2>1. scopes[T] = IF T = {} THEN {} ELSE scopes[T \ {Pick(T)}] \cup ClimbInto(par, Pick(T), scopes[T \ {Pick(T)}])
      BY <1>4, Zenon
    <2>2. CASE T = {}
      BY <1>3, <2>1, <2>2
    <2>3. CASE T # {}
      <3>1. T \ {Pick(T)} \in SUBSET T /\ T \ {Pick(T)} # T
        BY <1>2, <2>3
      <3>2. scopes[T \ {Pick(T)}] = Above(T \ {Pick(T)})
        BY <1>5, <3>1
      <3> QED
        BY <1>2, <2>1, <2>3, <3>2
    <2> QED
      BY <2>2, <2>3
  <1>6. IsFiniteSet(mine)
    BY FS_Subset DEF IsShape, VerticalConstants
  <1>7. SUBSET mine \subseteq Good
    <2> HIDE DEF Good
    <2> QED
      BY <1>5, <1>6, SubsetInduction
  <1>8. scopes[mine] = Above(mine)
    BY <1>7
  <1> QED
    BY <1>1, <1>8 DEF Above

\* A seat below another has a longer path of its own.
LEMMA DeepestSeat ==
  ASSUME VerticalConstants, NEW par, IsShape(par), ~Cyclic(par), NEW s \in DOMAIN par, NEW m \in DOMAIN par,
         Reaches(par, s, m), s # m
  PROVE  DepthOf(par, s) < DepthOf(par, m)
  <1> DEFINE A(n) == {x \in NodesAbove(par, n) : par[x] # NoParent}
  <1>1. DepthOf(par, s) = Cardinality(A(s)) /\ DepthOf(par, m) = Cardinality(A(m))
    BY WalkMeetsReference DEF DepthOf
  <1>2. par[m] # NoParent /\ Reaches(par, s, par[m]) /\ par[m] \in DOMAIN par /\ Reaches(par, m, m)
    BY ReachesUp DEF IsShape
  <1>3. A(s) \subseteq A(m)
    BY ReachesUp DEF NodesAbove
  <1>4. m \in A(m)
    BY <1>2 DEF NodesAbove
  <1>5. m \notin A(s)
    <2> SUFFICES ASSUME Reaches(par, m, s) PROVE FALSE
      BY DEF NodesAbove
    <2>1. Reaches(par, m, par[m])
      BY <1>2, ReachesUp
    <2> QED
      BY <1>2, <2>1 DEF Cyclic
  <1>6. IsFiniteSet(A(m))
    <2>1. A(m) \in SUBSET DOMAIN par /\ IsFiniteSet(DOMAIN par)
      BY FS_Subset DEF NodesAbove, IsShape, VerticalConstants
    <2> QED
      BY <2>1, FS_Subset
  <1> HIDE DEF A
  <1>7. Cardinality(A(s)) <= Cardinality(A(m)) /\ Cardinality(A(s)) # Cardinality(A(m))
        /\ Cardinality(A(s)) \in Nat /\ Cardinality(A(m)) \in Nat
    <2>1. A(s) \in SUBSET A(m) /\ A(s) # A(m)
      BY <1>3, <1>4, <1>5
    <2> QED
      BY <1>6, <2>1, FS_Subset, FS_CardinalityType
  <1> QED
    BY <1>1, <1>7

\* The rights a set of seats gives, by either way the code resolves them.
LEMMA RightsAgree ==
  ASSUME VerticalConstants, NEW par, IsShape(par), NEW mine \in SUBSET DOMAIN par
  PROVE  /\ \A n \in DOMAIN par : IsMemberOfNodeOrAncestor(par, mine, n) <=> NodesAbove(par, n) \cap mine # {}
         /\ \A p : Check(par, mine, p) <=> Granted(par, mine, p)
         /\ \A p : HasPermission(ResolveAll(par, mine), p) <=> Granted(par, mine, p)
  <1>1. \A n \in DOMAIN par : WalkUp(par, n) = NodesAbove(par, n)
    BY WalkMeetsReference
  <1>2. ASSUME NEW n \in DOMAIN par
        PROVE IsMemberOfNodeOrAncestor(par, mine, n) <=> NodesAbove(par, n) \cap mine # {}
    <2>1. n \in NodesAbove(par, n)
      BY ReachesUp DEF NodesAbove
    <2> QED
      BY <1>1, <2>1 DEF IsMemberOfNodeOrAncestor
  <1>3. ASSUME NEW p PROVE Check(par, mine, p) <=> Granted(par, mine, p)
    BY <1>1 DEF Check, Granted
  <1>4. ASSUME NEW p PROVE HasPermission(ResolveAll(par, mine), p) <=> Granted(par, mine, p)
    <2> DEFINE keys == {All, p, Wildcard[Domain[p]]}
    <2>1. HasPermission(ResolveAll(par, mine), p)
            <=> \E m \in mine : \E n \in WalkUp(par, m) : keys \cap Grants[n] # {}
      BY DEF HasPermission, ResolveAll
    <2>2. Granted(par, mine, p) <=> \E m \in mine : \E n \in NodesAbove(par, m) : Grants[n] \cap keys # {}
      BY DEF Granted, NodeGrants
    <2> QED
      BY <1>1, <2>1, <2>2
  <1> QED
    BY <1>2, <1>3, <1>4

LEMMA TreesAgree == ASSUME VerticalConstants, NEW par \in Trees PROVE Agree(par)
  <1>1. IsShape(par)
    BY TreeShapes
  <1>2. \A a, n \in DOMAIN par : IsAncestorOf(par, a, n) <=> Reaches(par, a, n)
    BY <1>1, WalkMeetsReference DEF IsAncestorOf, NodesAbove
  <1>3. HasParentCycle(par) <=> Cyclic(par)
    BY <1>1, CycleTests
  <1>4. /\ (\E n \in DOMAIN par : Batch(par)[n] = 0) <=> Cyclic(par)
        /\ Cyclic(par) \/ \A n \in DOMAIN par : par[n] # NoParent => Batch(par)[par[n]] < Batch(par)[n]
    BY <1>1, BatchOrder
  <1>5. ASSUME NEW mine \in SUBSET DOMAIN par
        PROVE  /\ ScopeNodeIds(par, mine) = UNION {NodesAbove(par, m) : m \in mine}
               /\ Cyclic(par) \/ \A s \in RoleSeats(par, mine), m \in mine : Reaches(par, s, m) => s = m
               /\ \A n \in DOMAIN par :
                    IsMemberOfNodeOrAncestor(par, mine, n) <=> NodesAbove(par, n) \cap mine # {}
               /\ \A p \in Permission :
                    /\ Check(par, mine, p) <=> Granted(par, mine, p)
                    /\ HasPermission(ResolveAll(par, mine), p) <=> Granted(par, mine, p)
                    /\ \A n \in DOMAIN par :
                         LET reached == Granted(par, mine, p) /\ NodesAbove(par, n) \cap mine # {} IN
                         /\ MayUseTreasury(par, mine, n, {p}) <=> reached
                         /\ CanActOnVerticalNode(par, mine, n, p) <=> reached
    <2>1. ScopeNodeIds(par, mine) = UNION {NodesAbove(par, m) : m \in mine}
      BY <1>1, ScopeHoldsAbove
    <2>2. ASSUME ~Cyclic(par), NEW s \in RoleSeats(par, mine), NEW m \in mine, Reaches(par, s, m), s # m
          PROVE FALSE
      <3>1. s \in mine /\ DepthOf(par, m) <= DepthOf(par, s)
        BY DEF RoleSeats
      <3>2. DepthOf(par, s) < DepthOf(par, m)
        BY <1>1, <2>2, <3>1, DeepestSeat
      <3>3. DepthOf(par, s) \in Nat /\ DepthOf(par, m) \in Nat
        <4>1. ASSUME NEW n PROVE DepthOf(par, n) \in Nat
          <5>1. {x \in WalkUp(par, n) : par[x] # NoParent} \in SUBSET NodeId
            BY <1>1 DEF WalkUp, IsShape
          <5> QED
            BY <5>1, FS_Subset, FS_CardinalityType DEF DepthOf, VerticalConstants
        <4> QED
          BY <4>1
      <3> QED
        BY <3>1, <3>2, <3>3
    <2>3. /\ \A n \in DOMAIN par : IsMemberOfNodeOrAncestor(par, mine, n) <=> NodesAbove(par, n) \cap mine # {}
          /\ \A p : Check(par, mine, p) <=> Granted(par, mine, p)
          /\ \A p : HasPermission(ResolveAll(par, mine), p) <=> Granted(par, mine, p)
      BY <1>1, RightsAgree
    <2>4. \A n \in DOMAIN par, p \in Permission :
            /\ MayUseTreasury(par, mine, n, {p}) <=> Granted(par, mine, p) /\ NodesAbove(par, n) \cap mine # {}
            /\ CanActOnVerticalNode(par, mine, n, p) <=> Granted(par, mine, p) /\ NodesAbove(par, n) \cap mine # {}
      BY <2>3, Zenon DEF MayUseTreasury, CanActOnVerticalNode
    <2> QED
      BY <2>1, <2>2, <2>3, <2>4
  <1> QED
    BY <1>2, <1>3, <1>4, <1>5 DEF Agree

\* Whatever the editors did, cycles included, the walks of the permissions engine,
\* of the editor and of the feed end and see exactly what lies above a node.
THEOREM WalksAgree == ASSUME VerticalConstants PROVE VerticalSpec => []WalksMeetClosure
  <1>1. VerticalInv => WalksMeetClosure
    <2> SUFFICES ASSUME VerticalInv PROVE parent \in AgreeingTrees
      BY DEF WalksMeetClosure
    <2>1. parent \in Trees
      BY DEF VerticalInv, VerticalTypes
    <2>2. Agree(parent)
      BY <2>1, TreesAgree
    <2> QED
      BY <2>1, <2>2 DEF AgreeingTrees
  <1> QED
    BY <1>1, VerticalInvariant, PTL

-----------------------------------------------------------------------------
(* The backups. *)

\* What a restore places are nodes of the tree.
LEMMA PlacedInTree == ASSUME BackupConstants, NEW tree PROVE Placed(tree) \subseteq DOMAIN tree
  <1> DEFINE N == Cardinality(Place)
             placed == CHOOSE f : Layers(f, tree, Nowhere, N)
  <1>1. N \in Nat
    BY FS_CardinalityType DEF BackupConstants
  <1>2. Placed(tree) = placed[N]
    BY DEF Placed, Layers
  <1> HIDE DEF N
  <1>3. Layers(placed, tree, Nowhere, N)
    BY <1>1, LayersExist
  <1> HIDE DEF placed
  <1>4. \A k \in 0..N : placed[k] \subseteq DOMAIN tree
    BY <1>1, <1>3, LayerSteps, Zenon
  <1> QED
    BY <1>1, <1>2, <1>4

\* A restore places every node of a tree, unless a cycle keeps some back.
LEMMA PlacedUnlessCycle ==
  ASSUME BackupConstants, NEW tree, DOMAIN tree \subseteq Place,
         \A n \in DOMAIN tree : tree[n] \in DOMAIN tree \cup {Nowhere}
  PROVE  Placed(tree) = DOMAIN tree <=> ~Cycle(tree)
  <1> DEFINE N == Cardinality(Place)
             placed == CHOOSE f : Layers(f, tree, Nowhere, N)
  <1>1. N \in Nat /\ IsFiniteSet(DOMAIN tree) /\ Cardinality(DOMAIN tree) <= N
    BY FS_Subset, FS_CardinalityType DEF BackupConstants
  <1>2. Placed(tree) = placed[N]
    BY DEF Placed, Layers
  <1> HIDE DEF N
  <1>3. Layers(placed, tree, Nowhere, N)
    BY <1>1, LayersExist
  <1> HIDE DEF placed
  <1>4. Nowhere \notin DOMAIN tree
    BY DEF BackupConstants
  <1>5. /\ placed[N] \subseteq DOMAIN tree /\ Closed(tree, DOMAIN tree \ placed[N])
        /\ \A S \in SUBSET DOMAIN tree : Closed(tree, S) => S \cap placed[N] = {}
    BY <1>1, <1>3, <1>4, LayersFill
  <1>6. ASSUME placed[N] # DOMAIN tree PROVE Cycle(tree)
    BY <1>5, <1>6 DEF Cycle
  <1>7. ASSUME Cycle(tree) PROVE placed[N] # DOMAIN tree
    BY <1>5, <1>7 DEF Cycle
  <1> QED
    BY <1>2, <1>6, <1>7

Tree == UNION {[ids -> ids \cup {Nowhere}] : ids \in SUBSET Place}
Row == {x \in [id : Nat, s3 : BOOLEAN, tree : Tree, seats : SUBSET Place, torn : BOOLEAN] :
          x.torn \/ x.seats \subseteq DOMAIN x.tree}
Make == [pc : {"collect", "write", "record"}, id : Nat, read : SUBSET {"tree", "seats"},
         tree : Tree, seats : SUBSET Place, torn : BOOLEAN]
Clean == [pc : {"object", "row"}, todo : Seq(Row)]
Copying(q) == q.pc \in {"collect", "write", "record"}
Cleaning(q) == q.pc \in {"object", "row"}

BackupTypes ==
    /\ branch \in Tree /\ office \in [Member -> Built \cup {Nowhere}]
    /\ moving \subseteq Built \X (Built \cup {Nowhere})
    /\ task \in [Task -> {NoTask, [pc |-> "list"]} \cup Make \cup Clean]
    /\ manifest \in Seq(Row) /\ nextId \in Nat

\* An id is given once: to a row, or to a run that will write one.
OwnIds ==
    /\ \A i, j \in 1..Len(manifest) : manifest[i].id = manifest[j].id => i = j
    /\ \A i \in 1..Len(manifest) : manifest[i].id < nextId
    /\ \A r \in Task : Copying(task[r]) =>
         /\ task[r].id < nextId
         /\ \A i \in 1..Len(manifest) : manifest[i].id # task[r].id
         /\ \A s \in Task \ {r} : Copying(task[s]) => task[s].id # task[r].id
\* What a job goes on to delete is no backup in the making, and below the Keep newest rows.
OldVictims ==
    \A r \in Task : Cleaning(task[r]) =>
        /\ task[r].pc = "row" => task[r].todo # <<>>
        /\ \A k \in 1..Len(task[r].todo) :
             /\ task[r].todo[k].id < nextId
             /\ \A s \in Task : Copying(task[s]) => task[s].id # task[r].todo[k].id
             /\ \A i \in 1..Len(manifest) :
                    manifest[i].id = task[r].todo[k].id => i <= Len(manifest) - Keep
\* The archive of a row exists before the row, and while it is one of the newest.
Archived ==
    /\ \A r \in Task \ Cli : task[r].pc = "record" => task[r].id \in object
    /\ \A k \in 1..Len(manifest) :
         k > Len(manifest) - Keep /\ manifest[k].s3 => manifest[k].id \in object
\* What a run has read is what is there, or it knows that it is torn.
Pictured ==
    \A r \in Task : Copying(task[r]) =>
        \/ task[r].torn
        \/ /\ task[r].pc = "collect"
           /\ "tree" \in task[r].read => task[r].tree = branch
           /\ "seats" \in task[r].read => task[r].seats = Occupied
        \/ task[r].pc # "collect" /\ task[r].seats \subseteq DOMAIN task[r].tree
BackupInv == BackupTypes /\ OwnIds /\ OldVictims /\ Archived /\ Pictured

\* A task that copies has the fields of one, a task that prunes the others.
LEMMA TaskTypes ==
  ASSUME BackupTypes, NEW r \in Task
  PROVE  /\ Copying(task[r]) => task[r] \in Make
         /\ Cleaning(task[r]) => task[r] \in Clean
  <1>1. task[r] \in {NoTask, [pc |-> "list"]} \cup Make \cup Clean
    BY DEF BackupTypes
  <1>2. ~Copying(NoTask) /\ ~Cleaning(NoTask)
    BY DEF NoTask, Copying, Cleaning
  <1>3. ~Copying([pc |-> "list"]) /\ ~Cleaning([pc |-> "list"])
    BY DEF Copying, Cleaning
  <1>4. \A q \in Make : ~Cleaning(q)
    BY DEF Make, Cleaning
  <1>5. \A q \in Clean : ~Copying(q)
    BY DEF Clean, Copying
  <1> QED
    BY <1>1, <1>2, <1>3, <1>4, <1>5

\* What a job has left to delete are rows.
LEMMA TodoTypes ==
  ASSUME BackupTypes, NEW r \in Task, Cleaning(task[r])
  PROVE  task[r].todo \in Seq(Row) /\ \A k \in 1..Len(task[r].todo) : task[r].todo[k].id \in Nat
  <1>1. task[r].todo \in Seq(Row)
    BY TaskTypes DEF Clean
  <1>2. \A x \in Row : x.id \in Nat
    BY DEF Row
  <1>3. \A k \in 1..Len(task[r].todo) : task[r].todo[k] \in Row
    BY <1>1
  <1> QED
    BY <1>1, <1>2, <1>3

LEMMA BackupInitInv == ASSUME BackupConstants, BackupInit PROVE BackupInv
  <1>1. branch \in Tree
    <2>2. branch \in [Standing \cup {Hall} -> Standing \cup {Hall} \cup {Nowhere}]
      BY DEF BackupInit
    <2>3. Standing \cup {Hall} \in SUBSET Place
      BY DEF BackupConstants
    <2> QED
      BY <2>2, <2>3 DEF Tree
  <1>2. BackupTypes
    BY <1>1 DEF BackupInit, BackupTypes
  <1>3. \A r \in Task : ~Copying(task[r]) /\ ~Cleaning(task[r]) /\ task[r].pc # "record"
    BY DEF BackupInit, NoTask, Copying, Cleaning
  <1>4. manifest = <<>> /\ Len(manifest) = 0
    BY DEF BackupInit
  <1>5. OwnIds /\ OldVictims /\ Pictured
    BY <1>3, <1>4 DEF OwnIds, OldVictims, Pictured
  <1>6. Archived
    BY <1>3, <1>4 DEF Archived
  <1> QED
    BY <1>2, <1>5, <1>6 DEF BackupInv

\* A run ends, and nothing else happens.
LEMMA QuitStep ==
  ASSUME BackupInv, NEW r \in Task, task' = [task EXCEPT ![r] = NoTask],
         UNCHANGED <<branch, office, moving, object, manifest, nextId>>
  PROVE  BackupInv'
  <1>1. task' \in [Task -> {NoTask, [pc |-> "list"]} \cup Make \cup Clean]
    BY DEF BackupInv, BackupTypes
  <1>2. BackupTypes'
    BY <1>1 DEF BackupInv, BackupTypes, Built
  <1>3. ~Copying(NoTask) /\ ~Cleaning(NoTask) /\ NoTask.pc # "record"
    BY DEF NoTask, Copying, Cleaning
  <1>4. \A s \in Task : task'[s] = IF s = r THEN NoTask ELSE task[s]
    BY DEF BackupInv, BackupTypes
  <1>5. OwnIds'
    BY <1>3, <1>4 DEF BackupInv, OwnIds
  <1>6. OldVictims'
    BY <1>3, <1>4 DEF BackupInv, OldVictims
  <1>7. Archived'
    BY <1>3, <1>4 DEF BackupInv, Archived
  <1>8. Pictured'
    BY <1>3, <1>4 DEF BackupInv, Pictured, Occupied
  <1> QED
    BY <1>2, <1>5, <1>6, <1>7, <1>8 DEF BackupInv

\* The State changes: runs between their reads know that they are torn.
LEMMA ChangeStep ==
  ASSUME BackupInv, Change, branch' \in Tree, office' \in [Member -> DOMAIN branch' \cup {Nowhere}],
         moving' \subseteq (DOMAIN branch') \X (DOMAIN branch' \cup {Nowhere})
  PROVE  BackupInv'
  <1>1. ASSUME NEW s \in Task
        PROVE  /\ task'[s] \in {NoTask, [pc |-> "list"]} \cup Make \cup Clean
               /\ task'[s].pc = task[s].pc
               /\ Copying(task[s]) => /\ task'[s].id = task[s].id /\ task'[s].tree = task[s].tree
                                      /\ task'[s].seats = task[s].seats /\ task'[s].read = task[s].read
                                      /\ task[s].torn => task'[s].torn
                                      /\ task[s].pc = "collect" /\ task[s].read # {} => task'[s].torn
               /\ ~Copying(task[s]) => task'[s] = task[s]
    <2>1. task'[s] = Torn(task[s])
      BY DEF Change
    <2>2. CASE task[s].pc = "collect" /\ task[s].read # {}
      <3>1. task[s] \in Make
        BY <2>2, TaskTypes DEF Copying, BackupInv
      <3>2. task'[s] = [task[s] EXCEPT !.torn = TRUE]
        BY <2>1, <2>2 DEF Torn
      <3> QED
        BY <2>2, <3>1, <3>2 DEF Make, Copying
    <2>3. CASE ~(task[s].pc = "collect" /\ task[s].read # {})
      <3>1. task'[s] = task[s]
        BY <2>1, <2>3 DEF Torn
      <3> QED
        BY <3>1, <2>3 DEF BackupInv, BackupTypes
    <2> QED
      BY <2>2, <2>3
  <1>2. UNCHANGED <<object, manifest, nextId>> /\ DOMAIN task' = Task
    BY DEF Change, storeVars
  <1>3. \A s \in Task : /\ Copying(task'[s]) <=> Copying(task[s])
                        /\ Cleaning(task'[s]) <=> Cleaning(task[s])
                        /\ Cleaning(task[s]) => task'[s] = task[s]
    BY <1>1 DEF Copying, Cleaning
  <1>4. BackupTypes'
    <2>1. task' = [s \in Task |-> task'[s]]
      BY DEF Change
    <2>2. task' \in [Task -> {NoTask, [pc |-> "list"]} \cup Make \cup Clean]
      BY <1>1, <2>1
    <2> QED
      BY <1>2, <2>2 DEF BackupInv, BackupTypes, Built
  <1>5. OwnIds'
    BY <1>1, <1>2, <1>3 DEF BackupInv, OwnIds
  <1>6. OldVictims'
    BY <1>1, <1>2, <1>3 DEF BackupInv, OldVictims
  <1>7. Archived'
    <2>1. \A s \in Task : task'[s].pc = "record" => task[s].pc = "record" /\ task'[s].id = task[s].id
      BY <1>1 DEF Copying
    <2> QED
      BY <1>2, <2>1 DEF BackupInv, Archived
  <1>8. Pictured'
    BY <1>1, <1>3 DEF BackupInv, Pictured
  <1> QED
    BY <1>4, <1>5, <1>6, <1>7, <1>8 DEF BackupInv

LEMMA AddNodeStep ==
  ASSUME BackupInv, NEW n \in Place, NEW p, AddNode(n, p)
  PROVE  BackupInv'
  <1>1. /\ branch \in [Built -> Built \cup {Nowhere}] /\ Built \subseteq Place
        /\ moving \subseteq Built \X (Built \cup {Nowhere})
    BY DEF BackupInv, BackupTypes, Tree, Built
  <1>2. branch' \in [Built \cup {n} -> Built \cup {n} \cup {Nowhere}] /\ DOMAIN branch' = Built \cup {n}
    BY <1>1 DEF AddNode
  <1>3. branch' \in Tree
    BY <1>1, <1>2 DEF Tree
  <1>4. office' \in [Member -> DOMAIN branch' \cup {Nowhere}]
    BY <1>2 DEF AddNode, BackupInv, BackupTypes
  <1>5. moving' \subseteq (DOMAIN branch') \X (DOMAIN branch' \cup {Nowhere})
    BY <1>1, <1>2 DEF AddNode
  <1> QED
    BY <1>3, <1>4, <1>5, ChangeStep DEF AddNode

LEMMA DeleteNodeStep ==
  ASSUME BackupInv, NEW n \in Place, DeleteNode(n)
  PROVE  BackupInv'
  <1>1. /\ branch \in [Built -> Built \cup {Nowhere}] /\ Built \subseteq Place
        /\ moving \subseteq Built \X (Built \cup {Nowhere})
    BY DEF BackupInv, BackupTypes, Tree, Built
  <1>2. branch' \in [Built \ {n} -> (Built \ {n}) \cup {Nowhere}] /\ DOMAIN branch' = Built \ {n}
    BY <1>1 DEF DeleteNode
  <1>3. branch' \in Tree
    BY <1>1, <1>2 DEF Tree
  <1>4. office' \in [Member -> DOMAIN branch' \cup {Nowhere}]
    BY <1>2 DEF DeleteNode, BackupInv, BackupTypes
  <1>5. moving' \subseteq (DOMAIN branch') \X (DOMAIN branch' \cup {Nowhere})
    <2>1. \A m \in moving' : m \in moving /\ m[1] # n /\ m[2] # n
      BY DEF DeleteNode
    <2>2. \A m \in moving : m = <<m[1], m[2]>> /\ m[1] \in Built /\ m[2] \in Built \cup {Nowhere}
      BY <1>1
    <2> QED
      BY <1>2, <2>1, <2>2
  <1> QED
    BY <1>3, <1>4, <1>5, ChangeStep DEF DeleteNode

LEMMA TakeSeatStep ==
  ASSUME BackupInv, NEW u \in Member, NEW n \in Place, TakeSeat(u, n)
  PROVE  BackupInv'
  <1>1. /\ branch' \in Tree /\ office' \in [Member -> DOMAIN branch' \cup {Nowhere}]
        /\ moving' \subseteq (DOMAIN branch') \X (DOMAIN branch' \cup {Nowhere})
    BY DEF TakeSeat, BackupInv, BackupTypes, Built
  <1> QED
    BY <1>1, ChangeStep DEF TakeSeat

\* A climb changes no table.
LEMMA StartMoveStep ==
  ASSUME BackupConstants, BackupInv, NEW n \in Place, NEW p \in Place \cup {Nowhere}, StartMove(n, p)
  PROVE  BackupInv'
  <1>1. p \in Built \cup {Nowhere}
    <2>1. \A tree : Placed(tree) \subseteq DOMAIN tree
      BY PlacedInTree
    <2> QED
      BY <2>1 DEF StartMove
  <1>2. moving' \subseteq Built \X (Built \cup {Nowhere}) /\ UNCHANGED <<branch, office, task, object, manifest, nextId>>
    BY <1>1 DEF StartMove, BackupInv, BackupTypes, storeVars
  <1> QED
    BY <1>2 DEF BackupInv, BackupTypes, OwnIds, OldVictims, Archived, Pictured, Built, Occupied

LEMMA FinishMoveStep ==
  ASSUME BackupInv, NEW n \in Place, NEW p \in Place \cup {Nowhere}, FinishMove(n, p)
  PROVE  BackupInv'
  <1>1. /\ branch \in [Built -> Built \cup {Nowhere}] /\ Built \subseteq Place
        /\ moving \subseteq Built \X (Built \cup {Nowhere})
    BY DEF BackupInv, BackupTypes, Tree, Built
  <1>2. n \in Built /\ p \in Built \cup {Nowhere}
    BY <1>1 DEF FinishMove
  <1>3. branch' \in [Built -> Built \cup {Nowhere}] /\ DOMAIN branch' = Built
    BY <1>1, <1>2 DEF FinishMove
  <1>4. branch' \in Tree
    BY <1>1, <1>3 DEF Tree
  <1>5. office' \in [Member -> DOMAIN branch' \cup {Nowhere}]
    BY <1>3 DEF FinishMove, BackupInv, BackupTypes
  <1>6. moving' \subseteq (DOMAIN branch') \X (DOMAIN branch' \cup {Nowhere})
    BY <1>1, <1>3 DEF FinishMove
  <1> QED
    BY <1>4, <1>5, <1>6, ChangeStep DEF FinishMove

LEMMA SaveTreeStep ==
  ASSUME BackupInv, NEW tree \in [Built -> Built \cup {Nowhere}], SaveTree(tree)
  PROVE  BackupInv'
  <1>1. Built \subseteq Place /\ moving \subseteq Built \X (Built \cup {Nowhere})
    BY DEF BackupInv, BackupTypes, Tree, Built
  <1>2. branch' \in Tree /\ DOMAIN branch' = Built
    BY <1>1 DEF SaveTree, Tree
  <1>3. office' \in [Member -> DOMAIN branch' \cup {Nowhere}]
    BY <1>2 DEF SaveTree, BackupInv, BackupTypes
  <1>4. moving' \subseteq (DOMAIN branch') \X (DOMAIN branch' \cup {Nowhere})
    BY <1>1, <1>2 DEF SaveTree
  <1> QED
    BY <1>2, <1>3, <1>4, ChangeStep DEF SaveTree

\* A run begins, with an id that nothing else has.
LEMMA BeginStep ==
  ASSUME BackupConstants, BackupInv, NEW r \in Task, BeginBackup(r)
  PROVE  BackupInv'
  <1> DEFINE q == [pc |-> "collect", id |-> nextId, read |-> {}, tree |-> <<>>, seats |-> {}, torn |-> FALSE]
  <1>0. <<>> \in Tree
    <2>1. DOMAIN <<>> = {} /\ <<>> = [x \in {} |-> Nowhere]
      OBVIOUS
    <2> QED
      BY <2>1 DEF Tree
  <1>1. q \in Make /\ Copying(q) /\ ~Cleaning(q) /\ q.pc = "collect" /\ q.id = nextId /\ q.read = {}
    BY <1>0 DEF Make, Copying, Cleaning, BackupInv, BackupTypes
  <1> HIDE DEF q
  <1>2. task' = [task EXCEPT ![r] = q] /\ UNCHANGED <<branch, office, moving, object, manifest>> /\ nextId' = nextId + 1
    BY DEF BeginBackup, q, stateVars
  <1>3. \A s \in Task : task'[s] = IF s = r THEN q ELSE task[s]
    BY <1>2 DEF BackupInv, BackupTypes
  <1>4. BackupTypes'
    <2>1. task' \in [Task -> {NoTask, [pc |-> "list"]} \cup Make \cup Clean]
      BY <1>1, <1>2 DEF BackupInv, BackupTypes
    <2> QED
      BY <1>2, <2>1 DEF BackupInv, BackupTypes, Built
  <1>5. nextId \in Nat
    BY DEF BackupInv, BackupTypes
  <1>6. \A s \in Task : Copying(task[s]) => task[s].id \in Nat
    BY TaskTypes DEF BackupInv, Make
  <1>7. \A i \in 1..Len(manifest) : manifest[i].id \in Nat
    BY DEF BackupInv, BackupTypes, Row
  <1>8. OwnIds'
    BY <1>1, <1>2, <1>3, <1>5, <1>6, <1>7 DEF BackupInv, OwnIds
  <1>9. OldVictims'
    <2>1. \A s \in Task : Cleaning(task[s]) => \A k \in 1..Len(task[s].todo) : task[s].todo[k].id \in Nat
      BY TodoTypes DEF BackupInv
    <2>2. \A s \in Task : Cleaning(task'[s]) => task'[s] = task[s] /\ Cleaning(task[s])
      BY <1>1, <1>3
    <2>3. \A s \in Task : Copying(task'[s]) => task'[s].id = nextId \/ (Copying(task[s]) /\ task'[s] = task[s])
      BY <1>1, <1>3
    <2>4. \A s \in Task : Cleaning(task[s]) => \A k \in 1..Len(task[s].todo) :
            task[s].todo[k].id < nextId /\ task[s].todo[k].id < nextId + 1 /\ task[s].todo[k].id # nextId
      BY <1>5, <2>1 DEF BackupInv, OldVictims
    <2> SUFFICES ASSUME NEW s \in Task, Cleaning(task'[s])
                 PROVE  /\ task'[s].pc = "row" => task'[s].todo # <<>>
                        /\ \A k \in 1..Len(task'[s].todo) :
                             /\ task'[s].todo[k].id < nextId'
                             /\ \A o \in Task : Copying(task'[o]) => task'[o].id # task'[s].todo[k].id
                             /\ \A i \in 1..Len(manifest') :
                                  manifest'[i].id = task'[s].todo[k].id => i <= Len(manifest') - Keep
      BY DEF OldVictims
    <2>5. task'[s] = task[s] /\ Cleaning(task[s])
      BY <2>2
    <2>6. /\ task[s].pc = "row" => task[s].todo # <<>>
          /\ \A k \in 1..Len(task[s].todo) :
                \A i \in 1..Len(manifest) :
                     manifest[i].id = task[s].todo[k].id => i <= Len(manifest) - Keep
      BY <2>5 DEF BackupInv, OldVictims
    <2>7. \A k \in 1..Len(task[s].todo), o \in Task :
             Copying(task[o]) => task[o].id # task[s].todo[k].id
      BY <2>5 DEF BackupInv, OldVictims
    <2>8. \A k \in 1..Len(task[s].todo) :
            /\ task[s].todo[k].id < nextId'
            /\ \A o \in Task : Copying(task'[o]) => task'[o].id # task[s].todo[k].id
      BY <1>2, <2>3, <2>4, <2>5, <2>7
    <2> QED
      BY <1>2, <2>5, <2>6, <2>8
  <1>10. Archived'
    BY <1>1, <1>2, <1>3 DEF BackupInv, Archived
  <1>11. Pictured'
    BY <1>1, <1>2, <1>3 DEF BackupInv, Pictured, Occupied
  <1> QED
    BY <1>4, <1>8, <1>9, <1>10, <1>11 DEF BackupInv

\* A run goes on under its id.
LEMMA CopyStep ==
  ASSUME BackupConstants, BackupInv, NEW r \in Task, NEW q \in Make, Copying(task[r]), q.id = task[r].id,
         task' = [task EXCEPT ![r] = q], UNCHANGED <<branch, office, moving, manifest, nextId>>,
         object \subseteq object', r \notin Cli /\ q.pc = "record" => q.id \in object',
         \/ q.torn
         \/ /\ q.pc = "collect"
            /\ "tree" \in q.read => q.tree = branch
            /\ "seats" \in q.read => q.seats = Occupied
         \/ q.pc # "collect" /\ q.seats \subseteq DOMAIN q.tree
  PROVE  BackupInv'
  <1>1. Copying(q) /\ ~Cleaning(q)
    BY DEF Make, Copying, Cleaning
  <1>3. \A s \in Task : task'[s] = IF s = r THEN q ELSE task[s]
    BY DEF BackupInv, BackupTypes
  <1>4. BackupTypes'
    <2>1. task' \in [Task -> {NoTask, [pc |-> "list"]} \cup Make \cup Clean]
      BY DEF BackupInv, BackupTypes
    <2> QED
      BY <2>1 DEF BackupInv, BackupTypes, Built
  <1>8. OwnIds'
    BY <1>1, <1>3 DEF BackupInv, OwnIds
  <1>9. OldVictims'
    BY <1>1, <1>3 DEF BackupInv, OldVictims
  <1>10. Archived'
    BY <1>1, <1>3 DEF BackupInv, Archived
  <1>11. Pictured'
    <2>1. Occupied' = Occupied
      BY DEF Occupied
    <2> QED
      BY <1>1, <1>3, <2>1 DEF BackupInv, Pictured
  <1> QED
    BY <1>4, <1>8, <1>9, <1>10, <1>11 DEF BackupInv

LEMMA CollectStep ==
  ASSUME BackupConstants, BackupInv, NEW r \in Task, CollectVertical(r) \/ CollectMemberships(r)
  PROVE  BackupInv'
  <1>1. PICK table \in {"tree", "seats"}, tree \in Tree, seats \in SUBSET Place :
           /\ Collected(r, table, tree, seats)
           /\ \/ table = "tree" /\ tree = branch /\ seats = task[r].seats
              \/ table = "seats" /\ tree = task[r].tree /\ seats = Occupied
    <2>1. task[r].pc = "collect" /\ task[r] \in Make
      BY TaskTypes DEF CollectVertical, CollectMemberships, Collected, Copying, BackupInv
    <2>2. task[r].tree \in Tree /\ task[r].seats \in SUBSET Place
      BY <2>1 DEF Make
    <2>3. branch \in Tree
      BY DEF BackupInv, BackupTypes
    <2>4. Built \subseteq Place
      BY <2>3 DEF Tree, Built
    <2>5. Occupied \in SUBSET Place
      BY <2>4 DEF BackupInv, BackupTypes, Occupied
    <2> USE <2>2, <2>3, <2>5
    <2>6. CASE CollectVertical(r)
      <3> WITNESS "tree" \in {"tree", "seats"}, branch \in Tree, task[r].seats \in SUBSET Place
      <3> QED
        BY <2>6 DEF CollectVertical
    <2>7. CASE CollectMemberships(r)
      <3> WITNESS "seats" \in {"tree", "seats"}, task[r].tree \in Tree, Occupied \in SUBSET Place
      <3> QED
        BY <2>7 DEF CollectMemberships
    <2> QED
      BY <2>6, <2>7
  <1> DEFINE p == task[r]
             read == p.read \cup {table}
             q == [pc |-> IF read = {"tree", "seats"} THEN "write" ELSE "collect",
                   id |-> p.id, read |-> read, tree |-> tree, seats |-> seats, torn |-> p.torn]
  <1>2. p.pc = "collect" /\ table \notin p.read /\ task' = [task EXCEPT ![r] = q]
        /\ UNCHANGED <<branch, office, moving, manifest, nextId, object>>
    BY <1>1 DEF Collected, stateVars, storeVars
  <1>3. Copying(p) /\ p \in Make
    BY <1>2, TaskTypes DEF Copying, BackupInv
  <1>4. p.torn \/ (/\ "tree" \in p.read => p.tree = branch
                   /\ "seats" \in p.read => p.seats = Occupied)
    BY <1>2, <1>3 DEF BackupInv, Pictured
  <1> HIDE DEF p
  <1>5. q \in Make /\ q.id = p.id /\ q.torn = p.torn /\ q.read = read /\ q.tree = tree /\ q.seats = seats
    BY <1>3 DEF Make
  <1>6. q.pc = IF read = {"tree", "seats"} THEN "write" ELSE "collect"
    OBVIOUS
  <1> HIDE DEF q
  <1>7. \/ q.torn
        \/ /\ q.pc = "collect"
           /\ "tree" \in q.read => q.tree = branch
           /\ "seats" \in q.read => q.seats = Occupied
        \/ q.pc # "collect" /\ q.seats \subseteq DOMAIN q.tree
    <2>1. CASE p.torn
      BY <1>5, <2>1
    <2>2. CASE ~p.torn
      <3>1. ("tree" \in read => tree = branch) /\ ("seats" \in read => seats = Occupied)
        BY <1>1, <1>4, <2>2 DEF p
      <3>2. Occupied \subseteq DOMAIN branch
        BY DEF Occupied, BackupInv, BackupTypes, Built
      <3>3. CASE read = {"tree", "seats"}
        BY <1>5, <1>6, <3>1, <3>2, <3>3
      <3>4. CASE read # {"tree", "seats"}
        BY <1>5, <1>6, <3>1, <3>4
      <3> QED
        BY <3>3, <3>4
    <2> QED
      BY <2>1, <2>2
  <1>8. q.pc # "record"
    BY <1>6
  <1> QED
    BY <1>2, <1>3, <1>5, <1>7, <1>8, CopyStep DEF p

LEMMA StoreStep ==
  ASSUME BackupConstants, BackupInv, NEW r \in Task, StoreObject(r)
  PROVE  BackupInv'
  <1>1. task[r] \in Make /\ Copying(task[r])
    BY TaskTypes DEF StoreObject, Copying, BackupInv
  <1> DEFINE q == [task[r] EXCEPT !.pc = "record"]
  <1>2. q \in Make /\ q.id = task[r].id /\ q.pc = "record" /\ q.torn = task[r].torn
        /\ q.seats = task[r].seats /\ q.tree = task[r].tree
    BY <1>1 DEF Make
  <1>3. q.torn \/ q.seats \subseteq DOMAIN q.tree
    BY <1>1, <1>2 DEF StoreObject, BackupInv, Pictured
  <1> HIDE DEF q
  <1>4. task' = [task EXCEPT ![r] = q] /\ UNCHANGED <<branch, office, moving, manifest, nextId>>
        /\ object \subseteq object' /\ (r \notin Cli => task[r].id \in object')
    BY DEF StoreObject, stateVars, q
  <1> QED
    BY <1>1, <1>2, <1>3, <1>4, CopyStep

\* The row follows the archive, and pushes the oldest of the kept out of them.
LEMMA RecordStep ==
  ASSUME BackupConstants, BackupInv, NEW r \in Task, RecordManifest(r)
  PROVE  BackupInv'
  <1> DEFINE p == task[r]
             x == [id |-> p.id, s3 |-> r \notin Cli, tree |-> p.tree, seats |-> p.seats, torn |-> p.torn]
             q == IF r \in Cli THEN NoTask ELSE [pc |-> "list"]
             n == Len(manifest)
  <1>1. p \in Make /\ Copying(p) /\ p.pc = "record"
    BY TaskTypes DEF RecordManifest, Copying, BackupInv
  <1>2. x \in Row /\ x.id = p.id /\ x.s3 = (r \notin Cli)
    <2>1. p.torn \/ p.seats \subseteq DOMAIN p.tree
      BY <1>1 DEF BackupInv, Pictured
    <2> HIDE DEF p
    <2> QED
      BY <1>1, <2>1 DEF Row, Make
  <1>3. q \in {NoTask, [pc |-> "list"]} /\ ~Copying(q) /\ ~Cleaning(q) /\ q.pc # "record"
    BY DEF NoTask, Copying, Cleaning
  <1>4. manifest' = Append(manifest, x) /\ task' = [task EXCEPT ![r] = q]
        /\ UNCHANGED <<branch, office, moving, object, nextId>>
    BY DEF RecordManifest, stateVars
  <1> HIDE DEF q, x
  <1>5. \A s \in Task : task'[s] = IF s = r THEN q ELSE task[s]
    BY <1>4 DEF BackupInv, BackupTypes
  <1>6. manifest \in Seq(Row) /\ n \in Nat
    BY DEF BackupInv, BackupTypes
  <1>7. /\ manifest' \in Seq(Row) /\ Len(manifest') = n + 1 /\ manifest'[n + 1] = x
        /\ \A i \in 1..n : manifest'[i] = manifest[i]
    BY <1>2, <1>4, <1>6
  <1>8. BackupTypes'
    <2>1. task' \in [Task -> {NoTask, [pc |-> "list"]} \cup Make \cup Clean]
      BY <1>3, <1>4 DEF BackupInv, BackupTypes
    <2> QED
      BY <1>4, <1>7, <2>1 DEF BackupInv, BackupTypes, Built
  <1>9. \A i \in 1..(n + 1) : i \in 1..n \/ i = n + 1
    BY <1>6
  <1>10. \A s \in Task : /\ Copying(task'[s]) => s # r /\ Copying(task[s]) /\ task'[s] = task[s]
                         /\ Cleaning(task'[s]) => Cleaning(task[s]) /\ task'[s] = task[s]
    BY <1>3, <1>5
  <1>11. p.id < nextId /\ \A i \in 1..n : manifest[i].id # p.id
    BY <1>1 DEF BackupInv, OwnIds
  <1>12. OwnIds'
    <2>1. \A i \in 1..Len(manifest') : manifest'[i].id < nextId'
      BY <1>2, <1>4, <1>7, <1>9, <1>11 DEF BackupInv, OwnIds
    <2>2. ASSUME NEW i \in 1..Len(manifest'), NEW j \in 1..Len(manifest'), manifest'[i].id = manifest'[j].id
          PROVE i = j
      BY <1>2, <1>7, <1>9, <1>11, <2>2 DEF BackupInv, OwnIds
    <2>3. ASSUME NEW s \in Task, Copying(task'[s])
          PROVE  /\ task'[s].id < nextId'
                 /\ \A i \in 1..Len(manifest') : manifest'[i].id # task'[s].id
                 /\ \A o \in Task \ {s} : Copying(task'[o]) => task'[o].id # task'[s].id
      <3>1. s # r /\ Copying(task[s]) /\ task'[s] = task[s]
        BY <1>10, <2>3
      <3>2. task[s].id < nextId /\ (\A i \in 1..n : manifest[i].id # task[s].id)
            /\ \A o \in Task \ {s} : Copying(task[o]) => task[o].id # task[s].id
        BY <3>1 DEF BackupInv, OwnIds
      <3>3. p.id # task[s].id
        BY <3>1, <3>2, <1>1
      <3>4. \A i \in 1..(n + 1) : manifest'[i].id # task[s].id
        BY <3>2, <3>3, <1>2, <1>7, <1>9
      <3> QED
        BY <1>4, <1>7, <1>10, <3>1, <3>2, <3>4
    <2> QED
      BY <2>1, <2>2, <2>3 DEF OwnIds
  <1>13. OldVictims'
    <2> SUFFICES ASSUME NEW s \in Task, Cleaning(task[s]), task'[s] = task[s], NEW k \in 1..Len(task[s].todo)
                 PROVE  /\ task[s].pc = "row" => task[s].todo # <<>>
                        /\ task[s].todo[k].id < nextId'
                        /\ \A o \in Task : Copying(task'[o]) => task'[o].id # task[s].todo[k].id
                        /\ \A i \in 1..Len(manifest') :
                             manifest'[i].id = task[s].todo[k].id => i <= Len(manifest') - Keep
      <3>1. \A s \in Task : Cleaning(task[s]) => (task[s].pc = "row" => task[s].todo # <<>>)
        BY DEF BackupInv, OldVictims
      <3> QED
        BY <1>10, <3>1 DEF OldVictims
    <2> DEFINE v == task[s].todo[k]
    <2>1. /\ task[s].pc = "row" => task[s].todo # <<>>
          /\ v.id < nextId
          /\ \A o \in Task : Copying(task[o]) => task[o].id # v.id
          /\ \A i \in 1..n : manifest[i].id = v.id => i <= n - Keep
      BY DEF BackupInv, OldVictims
    <2> HIDE DEF v
    <2>2. \A o \in Task : Copying(task'[o]) => task'[o].id # v.id
      BY <1>10, <2>1
    <2>3. p.id # v.id
      BY <1>1, <2>1
    <2>6. ASSUME NEW i \in 1..Len(manifest'), manifest'[i].id = v.id PROVE i <= Len(manifest') - Keep
      <3>1. i \in 1..n /\ manifest[i].id = v.id
        BY <1>2, <1>7, <1>9, <2>3, <2>6
      <3>2. i <= n - Keep /\ Keep \in Nat
        BY <2>1, <3>1 DEF BackupConstants
      <3> QED
        BY <1>6, <1>7, <3>2
    <2>5. v.id < nextId'
      BY <1>4, <2>1
    <2> QED
      BY <2>1, <2>2, <2>5, <2>6 DEF v
  <1>14. Archived'
    <2>1. ASSUME NEW k \in 1..Len(manifest'), k > Len(manifest') - Keep, manifest'[k].s3
          PROVE manifest'[k].id \in object'
      <3>1. CASE k = n + 1
        BY <3>1, <1>1, <1>2, <1>4, <1>7, <2>1 DEF BackupInv, Archived
      <3>2. CASE k \in 1..n
        <4>1. k > n - Keep /\ manifest[k].s3
          BY <1>6, <1>7, <2>1, <3>2 DEF BackupConstants
        <4> QED
          BY <1>4, <1>7, <3>2, <4>1 DEF BackupInv, Archived
      <3> QED
        BY <1>7, <1>9, <3>1, <3>2
    <2>2. \A s \in Task \ Cli : task'[s].pc = "record" => task'[s].id \in object'
      BY <1>3, <1>4, <1>5 DEF BackupInv, Archived
    <2> QED
      BY <2>1, <2>2 DEF Archived
  <1>15. Pictured'
    <2>1. Occupied' = Occupied
      BY <1>4 DEF Occupied
    <2> QED
      BY <1>4, <1>10, <2>1 DEF BackupInv, Pictured
  <1> QED
    BY <1>8, <1>12, <1>13, <1>14, <1>15 DEF BackupInv

\* What is left of the manifests when the row of a victim goes: the rows above it
\* move down, and so does the border of the newest.
Thinned(old, new) ==
    /\ new \in Seq(Row) /\ \A i, j \in 1..Len(new) : new[i].id = new[j].id => i = j
    /\ \A i \in 1..Len(new) : \E j \in 1..Len(old) :
          new[i] = old[j] /\ (j <= Len(old) - Keep => i <= Len(new) - Keep)

\* A job goes on pruning with rows that are old enough, and has deleted none of
\* the newest, nor what is in the making.
LEMMA PruneStep ==
  ASSUME BackupConstants, BackupInv, NEW r \in Task, ~Copying(task[r]), NEW q \in Clean,
         q.pc = "row" => q.todo # <<>>,
         \A k \in 1..Len(q.todo) :
             /\ q.todo[k].id < nextId
             /\ \A s \in Task : Copying(task[s]) => task[s].id # q.todo[k].id
             /\ \A i \in 1..Len(manifest) : manifest[i].id = q.todo[k].id => i <= Len(manifest) - Keep,
         task' = [task EXCEPT ![r] = q], UNCHANGED <<branch, office, moving, nextId>>,
         Thinned(manifest, manifest'),
         \A id \in object \ object' :
             /\ \A s \in Task : Copying(task[s]) => task[s].id # id
             /\ \A i \in 1..Len(manifest) : manifest[i].id = id => i <= Len(manifest) - Keep
  PROVE  BackupInv'
  <1>1. Cleaning(q) /\ ~Copying(q) /\ q.pc # "record"
    BY DEF Clean, Cleaning, Copying
  <1>2. \A s \in Task : task'[s] = IF s = r THEN q ELSE task[s]
    BY DEF BackupInv, BackupTypes
  <1>3. BackupTypes'
    <2>1. task' \in [Task -> {NoTask, [pc |-> "list"]} \cup Make \cup Clean]
      BY DEF BackupInv, BackupTypes
    <2>2. manifest' \in Seq(Row)
      BY DEF Thinned
    <2> QED
      BY <2>1, <2>2 DEF BackupInv, BackupTypes, Built
  <1>4. \A s \in Task : Copying(task'[s]) => Copying(task[s]) /\ task'[s] = task[s]
    BY <1>1, <1>2
  <1>5. \A i \in 1..Len(manifest') : \E j \in 1..Len(manifest) :
          manifest'[i] = manifest[j] /\ (j <= Len(manifest) - Keep => i <= Len(manifest') - Keep)
    BY DEF Thinned
  <1>6. OwnIds'
    <2>1. \A i, j \in 1..Len(manifest') : manifest'[i].id = manifest'[j].id => i = j
      BY DEF Thinned
    <2>2. \A i \in 1..Len(manifest') : manifest'[i].id < nextId'
      BY <1>5 DEF BackupInv, OwnIds
    <2>3. ASSUME NEW s \in Task, Copying(task'[s])
          PROVE  /\ task'[s].id < nextId'
                 /\ \A i \in 1..Len(manifest') : manifest'[i].id # task'[s].id
                 /\ \A o \in Task \ {s} : Copying(task'[o]) => task'[o].id # task'[s].id
      BY <1>4, <1>5, <2>3 DEF BackupInv, OwnIds
    <2> QED
      BY <2>1, <2>2, <2>3 DEF OwnIds
  <1>7. \A id : (\A i \in 1..Len(manifest) : manifest[i].id = id => i <= Len(manifest) - Keep)
           => \A i \in 1..Len(manifest') : manifest'[i].id = id => i <= Len(manifest') - Keep
    BY <1>5
  <1>8. OldVictims'
    <2> SUFFICES ASSUME NEW s \in Task, Cleaning(task'[s])
                 PROVE  /\ task'[s].pc = "row" => task'[s].todo # <<>>
                        /\ \A k \in 1..Len(task'[s].todo) :
                             /\ task'[s].todo[k].id < nextId'
                             /\ \A o \in Task : Copying(task'[o]) => task'[o].id # task'[s].todo[k].id
                             /\ \A i \in 1..Len(manifest') :
                                  manifest'[i].id = task'[s].todo[k].id => i <= Len(manifest') - Keep
      BY DEF OldVictims
    <2>1. CASE s = r
      <3>1. task'[s] = q
        BY <1>2, <2>1
      <3>2. \A k \in 1..Len(q.todo) : \A i \in 1..Len(manifest') :
              manifest'[i].id = q.todo[k].id => i <= Len(manifest') - Keep
        BY <1>7
      <3> QED
        BY <1>4, <3>1, <3>2
    <2>2. CASE s # r
      <3>1. task'[s] = task[s] /\ Cleaning(task[s])
        BY <1>2, <2>2
      <3>2. \A k \in 1..Len(task[s].todo) :
              /\ task[s].todo[k].id < nextId
              /\ \A o \in Task : Copying(task[o]) => task[o].id # task[s].todo[k].id
              /\ \A i \in 1..Len(manifest) : manifest[i].id = task[s].todo[k].id => i <= Len(manifest) - Keep
        BY <3>1 DEF BackupInv, OldVictims
      <3>3. task[s].pc = "row" => task[s].todo # <<>>
        BY <3>1 DEF BackupInv, OldVictims
      <3>4. \A k \in 1..Len(task[s].todo) : \A i \in 1..Len(manifest') :
              manifest'[i].id = task[s].todo[k].id => i <= Len(manifest') - Keep
        BY <1>7, <3>2
      <3> QED
        BY <1>4, <3>1, <3>2, <3>3, <3>4
    <2> QED
      BY <2>1, <2>2
  <1>9. Archived'
    <2>1. ASSUME NEW s \in Task \ Cli, task'[s].pc = "record" PROVE task'[s].id \in object'
      <3>1. Copying(task[s]) /\ task'[s] = task[s] /\ task[s].id \in object
        BY <1>1, <1>2, <2>1 DEF Copying, BackupInv, Archived
      <3> QED
        BY <3>1
    <2>2. ASSUME NEW i \in 1..Len(manifest'), i > Len(manifest') - Keep, manifest'[i].s3
          PROVE manifest'[i].id \in object'
      <3>1. PICK j \in 1..Len(manifest) :
               manifest'[i] = manifest[j] /\ (j <= Len(manifest) - Keep => i <= Len(manifest') - Keep)
        BY <1>5
      <3>2. Len(manifest) \in Nat /\ Len(manifest') \in Nat /\ Keep \in Nat
        BY <1>3 DEF BackupInv, BackupTypes, BackupConstants
      <3>3. ~(i <= Len(manifest') - Keep)
        BY <2>2, <3>2
      <3>4. j > Len(manifest) - Keep
        BY <3>1, <3>2, <3>3
      <3>5. manifest[j].id \in object /\ ~(j <= Len(manifest) - Keep)
        BY <2>2, <3>1, <3>3, <3>4 DEF BackupInv, Archived
      <3> QED
        BY <3>1, <3>5
    <2> QED
      BY <2>1, <2>2 DEF Archived
  <1>10. Pictured'
    <2>1. Occupied' = Occupied
      BY DEF Occupied
    <2> QED
      BY <1>4, <2>1 DEF BackupInv, Pictured
  <1> QED
    BY <1>3, <1>6, <1>8, <1>9, <1>10 DEF BackupInv

\* Nothing gone is a case of it.
LEMMA NoneRemoved == ASSUME BackupInv PROVE Thinned(manifest, manifest)
  BY DEF BackupInv, BackupTypes, OwnIds, Thinned

LEMMA ListStep ==
  ASSUME BackupConstants, BackupInv, NEW r \in Task, ListManifests(r)
  PROVE  BackupInv'
  <1> DEFINE q == Pruning("object", Victims(manifest))
             n == Len(manifest)
  <1>1. manifest \in Seq(Row) /\ n \in Nat /\ Keep \in Nat /\ Keep > 0
    BY DEF BackupInv, BackupTypes, BackupConstants
  <1>2. Reverse(manifest) \in Seq(Row) /\ Len(Reverse(manifest)) = n
        /\ \A k \in 1..n : Reverse(manifest)[k] = manifest[(n - k) + 1]
    BY <1>1 DEF Reverse
  <1>3. Victims(manifest) \in Seq(Row)
        /\ \A k \in 1..Len(Victims(manifest)) : Keep + k <= n /\ Victims(manifest)[k] = manifest[(n - (Keep + k)) + 1]
    <2> DEFINE rev == Reverse(manifest)
    <2> HIDE DEF rev
    <2>1. rev \in Seq(Row) /\ Len(rev) = n
      BY <1>2 DEF rev
    <2>2. Victims(manifest) = SubSeq(rev, Keep + 1, n)
      BY DEF Victims, rev
    <2>3. \A i \in (Keep + 1)..n : rev[i] \in Row
      BY <1>1, <2>1
    <2>4. /\ SubSeq(rev, Keep + 1, n) \in Seq(Row)
          /\ Len(SubSeq(rev, Keep + 1, n)) = IF Keep + 1 <= n THEN n - (Keep + 1) + 1 ELSE 0
          /\ \A i \in 1..(n - (Keep + 1) + 1) : SubSeq(rev, Keep + 1, n)[i] = rev[Keep + 1 + i - 1]
      <3>1. Keep + 1 \in Int /\ n \in Int
        BY <1>1
      <3> HIDE DEF n
      <3> QED
        BY <2>3, <3>1, SubSeqProperties
    <2>5. \A k \in 1..Len(Victims(manifest)) : Keep + k \in 1..n
      BY <1>1, <2>2, <2>4
    <2>6. \A k \in 1..Len(Victims(manifest)) : Victims(manifest)[k] = rev[Keep + k]
      BY <1>1, <2>2, <2>4
    <2>7. \A k \in 1..n : rev[k] = manifest[(n - k) + 1]
      BY <1>2 DEF rev
    <2> SUFFICES ASSUME NEW k \in 1..Len(Victims(manifest))
                 PROVE  Keep + k <= n /\ Victims(manifest)[k] = manifest[(n - (Keep + k)) + 1]
      BY <2>2, <2>4
    <2>8. rev[Keep + k] = manifest[(n - (Keep + k)) + 1]
      BY <2>5, <2>7
    <2>9. Keep + k <= n
      BY <1>1, <2>5
    <2> QED
      BY <2>6, <2>8, <2>9
  <1>4. q \in Clean /\ q.pc = "object" /\ q.todo = Victims(manifest)
    BY <1>3 DEF Pruning, Clean
  <1>5. ASSUME NEW k \in 1..Len(q.todo)
        PROVE  /\ q.todo[k].id < nextId
               /\ \A s \in Task : Copying(task[s]) => task[s].id # q.todo[k].id
               /\ \A i \in 1..Len(manifest) : manifest[i].id = q.todo[k].id => i <= Len(manifest) - Keep
    <2> DEFINE j == (n - (Keep + k)) + 1
    <2>1. j \in 1..n /\ j <= n - Keep /\ q.todo[k] = manifest[j]
      <3>1. Keep + k <= n /\ q.todo[k] = manifest[j] /\ k \in Nat /\ k > 0
        BY <1>1, <1>3, <1>4
      <3> QED
        BY <1>1, <3>1
    <2> HIDE DEF j, q
    <2> QED
      BY <2>1 DEF BackupInv, OwnIds
  <1> HIDE DEF q
  <1>6. task' = [task EXCEPT ![r] = q] /\ UNCHANGED <<branch, office, moving, nextId, object>> /\ ~Copying(task[r]) /\ manifest' = manifest
    BY DEF ListManifests, stateVars, storeVars, Copying, q
  <1> QED
    BY <1>4, <1>5, <1>6, NoneRemoved, PruneStep

LEMMA DeleteObjectStep ==
  ASSUME BackupConstants, BackupInv, NEW r \in Task, DeleteObject(r)
  PROVE  BackupInv'
  <1> DEFINE todo == task[r].todo
  <1>1. task[r].pc = "object" /\ Cleaning(task[r]) /\ ~Copying(task[r]) /\ todo # <<>>
    BY DEF DeleteObject, Cleaning, Copying
  <1>2. todo \in Seq(Row)
    BY <1>1, TodoTypes DEF BackupInv
  <1>3. \A k \in 1..Len(todo) :
             /\ todo[k].id < nextId
             /\ \A s \in Task : Copying(task[s]) => task[s].id # todo[k].id
             /\ \A i \in 1..Len(manifest) : manifest[i].id = todo[k].id => i <= Len(manifest) - Keep
    BY <1>1 DEF BackupInv, OldVictims
  <1>4. UNCHANGED <<branch, office, moving, manifest, nextId>>
    BY DEF DeleteObject, stateVars
  <1>5. CASE object' = (IF todo[1].s3 THEN object \ {todo[1].id} ELSE object)
             /\ task' = [task EXCEPT ![r] = Pruning("row", todo)]
    <2> HIDE DEF todo
    <2> DEFINE q == Pruning("row", todo)
    <2>1. q \in Clean /\ q.pc = "row" /\ q.todo = todo
      BY <1>2 DEF Pruning, Clean
    <2>2. 1 \in 1..Len(todo)
      BY <1>1, <1>2
    <2>3. \A id \in object \ object' : id = todo[1].id
      BY <1>5
    <2>4. task' = [task EXCEPT ![r] = q]
      BY <1>5
    <2> HIDE DEF q
    <2> QED
      BY <1>1, <1>3, <1>4, <2>1, <2>2, <2>3, <2>4, NoneRemoved, PruneStep
  <1>6. CASE object' = object /\ task' = [task EXCEPT ![r] = Pruning("object", Tail(todo))]
    <2> HIDE DEF todo
    <2> DEFINE q == Pruning("object", Tail(todo))
    <2>1. Tail(todo) \in Seq(Row) /\ Len(Tail(todo)) = Len(todo) - 1
          /\ \A k \in 1..Len(Tail(todo)) : Tail(todo)[k] = todo[k + 1] /\ k + 1 \in 1..Len(todo)
      BY <1>1, <1>2
    <2>2. q \in Clean /\ q.pc = "object" /\ q.todo = Tail(todo)
      BY <2>1 DEF Pruning, Clean
    <2>3. task' = [task EXCEPT ![r] = q]
      BY <1>6
    <2> HIDE DEF q
    <2>4. \A k \in 1..Len(q.todo) :
             /\ q.todo[k].id < nextId
             /\ \A s \in Task : Copying(task[s]) => task[s].id # q.todo[k].id
             /\ \A i \in 1..Len(manifest) : manifest[i].id = q.todo[k].id => i <= Len(manifest) - Keep
      BY <1>3, <2>1, <2>2
    <2> QED
      BY <1>1, <1>4, <1>6, <2>2, <2>3, <2>4, NoneRemoved, PruneStep
  <1> QED
    BY <1>5, <1>6 DEF DeleteObject

\* The row of a victim goes: the rows above it move down, and so does the border
\* of the newest.
LEMMA Removed ==
  ASSUME BackupConstants, BackupInv, NEW k \in 1..Len(manifest), k <= Len(manifest) - Keep,
         NEW new, new = RemoveAt(manifest, k)
  PROVE  Thinned(manifest, new)
  <1> DEFINE n == Len(manifest)
  <1>1. manifest \in Seq(Row) /\ n \in Nat /\ Keep \in Nat
    BY DEF BackupInv, BackupTypes, BackupConstants
  <1>2. new = SubSeq(manifest, 1, k - 1) \o SubSeq(manifest, k + 1, n)
    BY DEF RemoveAt
  <1>3. /\ SubSeq(manifest, 1, k - 1) \in Seq(Row) /\ Len(SubSeq(manifest, 1, k - 1)) = k - 1
        /\ \A i \in 1..(k - 1) : SubSeq(manifest, 1, k - 1)[i] = manifest[i]
    <2>1. /\ SubSeq(manifest, 1, k - 1) \in Seq(Row)
          /\ Len(SubSeq(manifest, 1, k - 1)) = IF 1 <= k - 1 THEN k - 1 - 1 + 1 ELSE 0
          /\ \A i \in 1..(k - 1 - 1 + 1) : SubSeq(manifest, 1, k - 1)[i] = manifest[1 + i - 1]
      <3>1. \A i \in 1..(k - 1) : manifest[i] \in Row
        BY <1>1
      <3>2. k - 1 \in Int /\ 1 \in Int
        OBVIOUS
      <3> QED
        BY <3>1, <3>2, SubSeqProperties
    <2> QED
      BY <1>1, <2>1
  <1>4. /\ SubSeq(manifest, k + 1, n) \in Seq(Row) /\ Len(SubSeq(manifest, k + 1, n)) = n - k
        /\ \A i \in 1..(n - k) : SubSeq(manifest, k + 1, n)[i] = manifest[k + i]
    <2>1. /\ SubSeq(manifest, k + 1, n) \in Seq(Row)
          /\ Len(SubSeq(manifest, k + 1, n)) = IF k + 1 <= n THEN n - (k + 1) + 1 ELSE 0
          /\ \A i \in 1..(n - (k + 1) + 1) : SubSeq(manifest, k + 1, n)[i] = manifest[k + 1 + i - 1]
      <3>1. \A i \in (k + 1)..n : manifest[i] \in Row
        BY <1>1
      <3>2. k + 1 \in Int /\ n \in Int
        BY <1>1
      <3> HIDE DEF n
      <3> QED
        BY <3>1, <3>2, SubSeqProperties
    <2> QED
      BY <1>1, <2>1
  <1>5. new \in Seq(Row) /\ Len(new) = n - 1
        /\ \A i \in 1..(n - 1) : new[i] = IF i < k THEN manifest[i] ELSE manifest[i + 1]
    <2> DEFINE a == SubSeq(manifest, 1, k - 1)
               b == SubSeq(manifest, k + 1, n)
    <2> HIDE DEF a, b
    <2>1. /\ a \in Seq(Row) /\ Len(a) = k - 1 /\ \A i \in 1..(k - 1) : a[i] = manifest[i]
          /\ b \in Seq(Row) /\ Len(b) = n - k /\ \A i \in 1..(n - k) : b[i] = manifest[k + i]
      BY <1>3, <1>4 DEF a, b
    <2>2. new = a \o b
      BY <1>2 DEF a, b
    <2>3. /\ a \o b \in Seq(Row) /\ Len(a \o b) = Len(a) + Len(b)
          /\ \A i \in 1..(Len(a) + Len(b)) : (a \o b)[i] = IF i <= Len(a) THEN a[i] ELSE b[i - Len(a)]
      BY <2>1, ConcatProperties
    <2>6. Len(a) + Len(b) = n - 1
      BY <1>1, <2>1
    <2>4. new \in Seq(Row) /\ Len(new) = n - 1
          /\ \A i \in 1..(n - 1) : new[i] = IF i <= k - 1 THEN a[i] ELSE b[i - (k - 1)]
      BY <2>1, <2>2, <2>3, <2>6
    <2>5. ASSUME NEW i \in 1..(n - 1) PROVE new[i] = IF i < k THEN manifest[i] ELSE manifest[i + 1]
      <3>1. CASE i < k
        <4>1. i <= k - 1 /\ i \in 1..(k - 1)
          BY <3>1
        <4> QED
          BY <2>1, <2>4, <3>1, <4>1
      <3>2. CASE ~(i < k)
        <4>1. i - (k - 1) \in 1..(n - k) /\ k + (i - (k - 1)) = i + 1
          BY <1>1, <3>2
        <4>2. b[i - (k - 1)] = manifest[i + 1]
          BY <2>1, <4>1
        <4> QED
          BY <1>1, <2>4, <3>2, <4>2
      <3> QED
        BY <3>1, <3>2
    <2> QED
      BY <2>4, <2>5
  <1>6. \A i \in 1..(n - 1) : \E j \in 1..n : /\ new[i] = manifest[j]
                                              /\ (i < k /\ j = i) \/ (i >= k /\ j = i + 1)
    <2> SUFFICES ASSUME NEW i \in 1..(n - 1)
                 PROVE  \E j \in 1..n : new[i] = manifest[j] /\ ((i < k /\ j = i) \/ (i >= k /\ j = i + 1))
      OBVIOUS
    <2>1. i \in 1..n /\ i + 1 \in 1..n
      BY <1>1
    <2>2. CASE i < k
      BY <1>5, <2>1, <2>2
    <2>3. CASE ~(i < k)
      <3>1. new[i] = manifest[i + 1] /\ i >= k
        BY <1>5, <2>3
      <3> QED
        BY <2>1, <3>1
    <2> QED
      BY <2>2, <2>3
  <1>7. ASSUME NEW i \in 1..(n - 1), NEW j \in 1..(n - 1), new[i].id = new[j].id PROVE i = j
    <2>1. PICK x \in 1..n : new[i] = manifest[x] /\ ((i < k /\ x = i) \/ (i >= k /\ x = i + 1))
      BY <1>6
    <2>2. PICK y \in 1..n : new[j] = manifest[y] /\ ((j < k /\ y = j) \/ (j >= k /\ y = j + 1))
      BY <1>6
    <2>3. x = y
      BY <1>7, <2>1, <2>2 DEF BackupInv, OwnIds
    <2> QED
      BY <1>1, <2>1, <2>2, <2>3
  <1>8. ASSUME NEW i \in 1..(n - 1)
        PROVE  \E j \in 1..n : new[i] = manifest[j] /\ (j <= n - Keep => i <= n - 1 - Keep)
    <2>1. PICK j \in 1..n : new[i] = manifest[j] /\ ((i < k /\ j = i) \/ (i >= k /\ j = i + 1))
      BY <1>6
    <2>2. j <= n - Keep => i <= n - 1 - Keep
      BY <1>1, <2>1
    <2> QED
      BY <2>1, <2>2
  <1>9. new \in Seq(Row) /\ Len(new) = n - 1
    BY <1>5
  <1> HIDE DEF n
  <1> QED
    BY <1>7, <1>8, <1>9 DEF Thinned, n

LEMMA DeleteManifestStep ==
  ASSUME BackupConstants, BackupInv, NEW r \in Task, DeleteManifest(r)
  PROVE  BackupInv'
  <1> DEFINE todo == task[r].todo
             q == Pruning("object", Tail(todo))
  <1>1. task[r].pc = "row" /\ Cleaning(task[r]) /\ ~Copying(task[r])
    BY DEF DeleteManifest, Cleaning, Copying
  <1>2. todo \in Seq(Row) /\ todo # <<>>
    BY <1>1, TodoTypes DEF BackupInv, OldVictims
  <1>3. \A k \in 1..Len(todo) :
             /\ todo[k].id < nextId
             /\ \A s \in Task : Copying(task[s]) => task[s].id # todo[k].id
             /\ \A i \in 1..Len(manifest) : manifest[i].id = todo[k].id => i <= Len(manifest) - Keep
    BY <1>1 DEF BackupInv, OldVictims
  <1>4. UNCHANGED <<branch, office, moving, object, nextId>> /\ task' = [task EXCEPT ![r] = q]
    BY DEF DeleteManifest, stateVars
  <1>5. Thinned(manifest, manifest')
    <2>1. CASE manifest' = manifest
      BY <2>1, NoneRemoved
    <2>2. ASSUME NEW k \in 1..Len(manifest), manifest[k].id = todo[1].id, manifest' = RemoveAt(manifest, k)
          PROVE  Thinned(manifest, manifest')
      <3>1. 1 \in 1..Len(todo)
        BY <1>2
      <3>2. k <= Len(manifest) - Keep
        BY <1>3, <2>2, <3>1
      <3> QED
        BY <2>2, <3>2, Removed
    <2> QED
      BY <2>1, <2>2 DEF DeleteManifest
  <1> HIDE DEF todo
  <1>6. Tail(todo) \in Seq(Row) /\ Len(Tail(todo)) = Len(todo) - 1
        /\ \A k \in 1..Len(Tail(todo)) : Tail(todo)[k] = todo[k + 1] /\ k + 1 \in 1..Len(todo)
    BY <1>2
  <1>7. q \in Clean /\ q.pc = "object" /\ q.todo = Tail(todo)
    BY <1>6 DEF Pruning, Clean
  <1> HIDE DEF q
  <1>8. \A k \in 1..Len(q.todo) :
             /\ q.todo[k].id < nextId
             /\ \A s \in Task : Copying(task[s]) => task[s].id # q.todo[k].id
             /\ \A i \in 1..Len(manifest) : manifest[i].id = q.todo[k].id => i <= Len(manifest) - Keep
    BY <1>3, <1>6, <1>7
  <1> QED
    BY <1>1, <1>4, <1>5, <1>7, <1>8, PruneStep

LEMMA BackupInductive ==
  ASSUME BackupConstants, BackupInv, [BackupNext]_backupVars
  PROVE  BackupInv'
  <1>1. CASE UNCHANGED backupVars
    BY <1>1 DEF backupVars, BackupInv, BackupTypes, OwnIds, OldVictims, Archived, Pictured, Built, Occupied
  <1>2. ASSUME NEW r \in Task, EndPrune(r) \/ TaskDies(r) PROVE BackupInv'
    BY <1>2, QuitStep DEF EndPrune, TaskDies, stateVars, storeVars
  <1>3. CASE BackupNext
    BY <1>2, <1>3, AddNodeStep, DeleteNodeStep, TakeSeatStep, StartMoveStep,
       FinishMoveStep, SaveTreeStep, BeginStep, CollectStep, StoreStep, RecordStep,
       ListStep, DeleteObjectStep, DeleteManifestStep DEF BackupNext
  <1> QED
    BY <1>1, <1>3

\* Through overlapping jobs, failures, moves and other changes of the State, the
\* parents and seats of an archive that is not torn are nodes of its tree, and no
\* job deletes one of the newest.
THEOREM BackupInvariant == ASSUME BackupConstants PROVE BackupSpec => []BackupInv
  BY BackupInitInv, BackupInductive, PTL DEF BackupSpec

\* However many jobs and requests back up and prune at once, and whichever of their
\* steps fail, the Keep newest backups have their archive, and one that no change of
\* the State fell into is accepted by a restore exactly when its tree has no cycle.
THEOREM NewestRestore == ASSUME BackupConstants PROVE BackupSpec => []NewestBackupsRestore
  <1>1. BackupInv => NewestBackupsRestore
    <2> SUFFICES ASSUME BackupInv, NEW k \in 1..Len(manifest), k > Len(manifest) - Keep
                 PROVE  /\ manifest[k].s3 => manifest[k].id \in object
                        /\ manifest[k].torn \/ (Restores(manifest[k]) <=> ~Cycle(manifest[k].tree))
      BY DEF NewestBackupsRestore
    <2>1. manifest[k] \in Row
      BY DEF BackupInv, BackupTypes
    <2>2. manifest[k].tree \in Tree
      BY <2>1 DEF Row
    <2>3. Placed(manifest[k].tree) = DOMAIN manifest[k].tree <=> ~Cycle(manifest[k].tree)
      <3> DEFINE t == manifest[k].tree
      <3>1. DOMAIN t \subseteq Place /\ \A n \in DOMAIN t : t[n] \in DOMAIN t \cup {Nowhere}
        BY <2>2 DEF Tree
      <3> HIDE DEF t
      <3>2. Placed(t) = DOMAIN t <=> ~Cycle(t)
        BY <3>1, PlacedUnlessCycle
      <3> QED
        BY <3>2 DEF t
    <2>4. manifest[k].torn \/ manifest[k].seats \subseteq DOMAIN manifest[k].tree
      BY <2>1 DEF Row
    <2>5. manifest[k].s3 => manifest[k].id \in object
      BY DEF BackupInv, Archived
    <2> QED
      BY <2>3, <2>4, <2>5 DEF Restores
  <1> QED
    BY <1>1, BackupInvariant, PTL

-----------------------------------------------------------------------------
(* The feed. *)

\* The ids that the answer under way brings, and where a page of it goes on.
Answered == IF load.pc = "answer" THEN load.ids ELSE {}
\* A row that the page has lost for a reason that the page cannot know.
Excused(x) == x.at \in cuts \/ x.at <= skipped \/ x.id \in missed
\* A row is shown, on its way, or below the cursor.
Awaited(x) ==
    \/ x.id \in arriving
    \/ x.id \in entries /\ ~Loading
    \/ load.pc = "start"
    \/ load.pc = "answer" /\ (x.id \in load.ids \/ x.at < load.next)
    \/ load.pc = "none" /\ x.at < nextBefore
\* A row of an event is what the event became; ids are given once.
RowsInv ==
    /\ IsFiniteSet(log) /\ cutoff \in Nat
    /\ \A x, y \in log : x.id = y.id => x = y
    /\ \A x \in log : x.at \in 1..(Top - 1)
    /\ \A x \in log : x.id \in Slots =>
         /\ x.id \in DOMAIN said /\ Recorded(said[x.id]) /\ x = NewRow(x.id, said[x.id])
    /\ DOMAIN said \subseteq Slots /\ \A i \in DOMAIN said : said[i] \in Events[i]
\* Nothing that the page shows or awaits is hidden from the viewer or yet to come.
ShownInv ==
    /\ (entries \cup arriving \cup Answered) \cap Slots \subseteq DOMAIN said
    /\ \A x \in log : x.id \in entries \cup arriving \cup Answered => IsVisibleTo(x)
\* A page that goes on has seen no read of hidden rows only.
CursorInv ==
    /\ load.pc \in {"start", "none", "answer"} /\ skipped \in Nat /\ nextBefore \in Nat
    /\ load.pc = "answer" => load.next \in Nat /\ (load.next # End => skipped = End)
    /\ load.pc = "start" \/ (load.pc = "none" /\ nextBefore # End) => skipped = End
CoverInv == \A x \in log : IsVisibleTo(x) /\ x.at >= cutoff => Excused(x) \/ Awaited(x)
FeedInv == RowsInv /\ ShownInv /\ CursorInv /\ CoverInv

\* The oldest of some rows is one of them.
LEMMA OldestIs ==
  ASSUME NEW rows, rows # {}, \A x \in rows : x.at \in Nat
  PROVE  (\E x \in rows : OldestOf(rows) = x.at) /\ \A x \in rows : OldestOf(rows) <= x.at
  <1> DEFINE T == {x.at : x \in rows}
  <1>1. T \in SUBSET Nat /\ T # {}
    OBVIOUS
  <1>2. OldestOf(rows) = CHOOSE k \in T : \A j \in T : k <= j
    BY DEF OldestOf, Min
  <1> HIDE DEF T
  <1>3. OldestOf(rows) \in T /\ \A j \in T : OldestOf(rows) <= j
    BY <1>1, <1>2, LeastNumber
  <1> QED
    BY <1>3 DEF T

\* A read takes something where there is something.
LEMMA TakesSome ==
  ASSUME NEW S, IsFiniteSet(S), S # {}, NEW n \in Nat \ {0}, NEW T, Cardinality(T) = Min({n, Cardinality(S)})
  PROVE  T # {}
  <1>1. Cardinality(S) \in Nat /\ Cardinality(S) # 0
    BY FS_CardinalityType, FS_EmptySet
  <1> DEFINE M == {n, Cardinality(S)}
  <1>2. M \in SUBSET Nat /\ M # {} /\ 0 \notin M
    BY <1>1
  <1>3. Min(M) = CHOOSE k \in M : \A j \in M : k <= j
    BY DEF Min
  <1> HIDE DEF M
  <1>4. Min(M) \in M
    BY <1>2, <1>3, LeastNumber
  <1>5. Cardinality(T) # 0
    BY <1>2, <1>4 DEF M
  <1> QED
    BY <1>5, FS_EmptySet

\* The row of an event is seen by those whom the event concerns.
LEMMA RowsConcern ==
  ASSUME FeedConstants, NEW i \in Slots, NEW e \in Events[i], Recorded(e)
  PROVE  IsVisibleTo(NewRow(i, e)) <=> Concerns(e)
  <1> DEFINE x == NewRow(i, e)
             y == EntryOf(e)
  <1>1. x.visibility = y.visibility /\ x.actor = y.actor /\ x.node = y.node /\ x.audience = y.audience
    BY DEF NewRow
  <1> HIDE DEF x, y
  <1>2. IsVisibleTo(x) <=> \/ y.actor = Viewer \/ Viewer \in y.audience \/ y.visibility = "public"
                           \/ y.visibility = "node" /\ y.node \in Scope
    BY <1>1 DEF IsVisibleTo
  <1>3. Viewer # NoOne /\ Viewer \notin DOMAIN Lineage /\ DOMAIN SeatedAt = DOMAIN Lineage
    BY DEF FeedConstants
  <1>4. \A n : n \in Scope <=> Sits(AtOrBelow(n))
    <2> SUFFICES ASSUME NEW n PROVE n \in Scope <=> Sits(AtOrBelow(n))
      OBVIOUS
    <2>1. n \in Scope <=> \E m \in DOMAIN SeatedAt : Viewer \in SeatedAt[m] /\ n \in Lineage[m]
      BY DEF Scope
    <2>2. Sits(AtOrBelow(n)) <=> \E m \in DOMAIN Lineage : n \in Lineage[m] /\ Viewer \in SeatedAt[m]
      BY DEF Sits, AtOrBelow
    <2> QED
      BY <1>3, <2>1, <2>2
  <1>5. CASE e.kind \in WalletKinds
    <2>1. y = FeedRow(ClassifyWalletTx(e), e.actor, NoOne, RecipientUserIds(e))
      BY <1>5 DEF y, EntryOf, WalletRow
    <2>2. /\ y.visibility = IF e.kind \in {"mint", "burn"} THEN "public" ELSE "audience"
          /\ y.actor = e.actor /\ y.audience = RecipientUserIds(e)
      BY <2>1 DEF FeedRow, ClassifyWalletTx
    <2>3. \A side : Viewer \in Owners(side)
                      <=> side = Viewer \/ (side \in DOMAIN Lineage /\ Sits(Lineage[side]))
      BY <1>3 DEF Owners, Sits
    <2>4. Viewer \in RecipientUserIds(e) <=> e.actor = Viewer \/ Viewer \in Owners(e.from) \/ Viewer \in Owners(e.to)
      BY <1>3 DEF RecipientUserIds
    <2>5. y.visibility = "public" <=> e.kind \notin {"transfer", "treasury_allocation", "channel", "directive",
                                                     "granted", "revoked", "merged"}
      BY <1>5, <2>2 DEF WalletKinds
    <2>6. y.visibility # "node"
      BY <2>2
    <2>7. e.kind \notin {"channel", "granted", "revoked"}
      BY <1>5 DEF WalletKinds
    <2> QED
      BY <1>2, <1>5, <2>2, <2>3, <2>4, <2>5, <2>6, <2>7 DEF Concerns, x
  <1>6. CASE e.kind = "channel"
    <2>1. y = FeedRow(IF e.node = NoOne THEN "public" ELSE "node", NoOne, e.node, {})
      BY <1>6 DEF y, EntryOf, ChatRow, WalletKinds
    <2>2. /\ y.visibility = IF e.node = NoOne THEN "public" ELSE "node"
          /\ y.actor = NoOne /\ y.node = e.node /\ y.audience = {}
      BY <2>1 DEF FeedRow
    <2>3. e.actor = NoOne /\ e.users = {}
      BY <1>6 DEF FeedConstants
    <2> QED
      BY <1>2, <1>3, <1>4, <1>6, <2>2, <2>3 DEF Concerns, WalletKinds, x
  <1>7. CASE e.kind = "directive"
    <2>1. y = FeedRow("audience", e.actor, e.node, {e.actor} \cup e.users)
      BY <1>7 DEF y, EntryOf, ChatRow, WalletKinds
    <2>2. y.visibility = "audience" /\ y.actor = e.actor /\ y.audience = {e.actor} \cup e.users
      BY <2>1 DEF FeedRow
    <2> QED
      BY <1>2, <1>7, <2>2 DEF Concerns, WalletKinds, x
  <1>8. CASE e.kind = "merged"
    <2>1. y = FeedRow("sovereign", e.actor, NoOne, {})
      BY <1>8 DEF y, EntryOf, KernelRow, WalletKinds
    <2>2. y.visibility = "sovereign" /\ y.actor = e.actor /\ y.audience = {}
      BY <2>1 DEF FeedRow
    <2>3. e.users = {}
      BY <1>8 DEF FeedConstants
    <2> QED
      BY <1>2, <1>8, <2>2, <2>3 DEF Concerns, WalletKinds, x
  <1>9. CASE e.kind \in {"granted", "revoked"}
    <2>1. y = FeedRow("node", e.actor, e.node, e.users)
      BY <1>9 DEF y, EntryOf, KernelRow, WalletKinds
    <2>2. y.visibility = "node" /\ y.actor = e.actor /\ y.node = e.node /\ y.audience = e.users
      BY <2>1 DEF FeedRow
    <2> QED
      BY <1>2, <1>4, <1>9, <2>2 DEF Concerns, WalletKinds, x
  <1>10. CASE e.kind \notin WalletKinds \cup {"channel", "directive", "merged", "granted", "revoked"}
    <2>1. e.kind # "message"
      BY DEF Recorded
    <2>2. y = FeedRow("public", e.actor, NoOne, {}) \/ y = FeedRow("public", e.actor, e.node, e.users)
      BY <1>10, <2>1 DEF y, EntryOf, StateRow, KernelRow
    <2>3. y.visibility = "public"
      BY <2>2 DEF FeedRow
    <2>4. Concerns(e)
      BY <1>10 DEF Concerns, WalletKinds
    <2> QED
      BY <1>2, <2>3, <2>4 DEF x
  <1> QED
    BY <1>5, <1>6, <1>7, <1>8, <1>9, <1>10

LEMMA FeedInitInv == ASSUME FeedConstants, FeedInit PROVE FeedInv
  <1>1. load = [pc |-> "start"] /\ log \in Histories /\ said = <<>> /\ entries = {} /\ arriving = {}
        /\ cutoff = 0 /\ nextBefore = End /\ skipped = End /\ End = 0
    BY DEF FeedInit, End
  <1>2. RowsInv
    BY <1>1 DEF FeedConstants, RowsInv
  <1>3. ShownInv
    BY <1>1 DEF ShownInv, Answered
  <1>4. CursorInv
    BY <1>1 DEF CursorInv
  <1>5. CoverInv
    BY <1>1 DEF CoverInv, Awaited
  <1> QED
    BY <1>2, <1>3, <1>4, <1>5 DEF FeedInv

\* An event becomes a row: the stream brings it, or it is missed.
LEMMA NewsStep ==
  ASSUME FeedConstants, FeedInv, NEW i \in Slots, NEW e \in Events[i], Record(i, e)
  PROVE  FeedInv'
  <1> DEFINE new == NewRow(i, e)
  <1>1. /\ i \in Slots \ DOMAIN said /\ Recorded(e) /\ log' = log \cup {new}
        /\ said' = [j \in DOMAIN said \cup {i} |-> IF j = i THEN e ELSE said[j]]
        /\ UNCHANGED <<cutoff, subscribed, entries, nextBefore, load, cuts, skipped>>
    BY DEF Record, pageVars
  <1>7. PICK published \in BOOLEAN :
          /\ arriving' = IF published /\ subscribed /\ IsVisibleTo(new) THEN arriving \cup {i} ELSE arriving
          /\ missed' = IF (published /\ subscribed) \/ load.pc = "start" THEN missed ELSE missed \cup {i}
    BY Zenon DEF Record
  <1>8. /\ arriving \subseteq arriving' /\ arriving' \subseteq arriving \cup {i}
        /\ i \in arriving' \ arriving => IsVisibleTo(new)
        /\ missed \subseteq missed'
        /\ IsVisibleTo(new) => load.pc = "start" \/ i \in arriving' \/ i \in missed'
    BY <1>7
  <1>2. new.id = i /\ new.at = NewsAt
    BY DEF NewRow
  <1> HIDE DEF new
  <1>3. RowsInv'
    <2>1. IsFiniteSet(log') /\ cutoff' \in Nat
      BY <1>1, FS_AddElement DEF FeedInv, RowsInv
    <2>2. \A x \in log' : x.at \in 1..(Top - 1)
      BY <1>1, <1>2 DEF FeedInv, RowsInv, FeedConstants
    <2>3. ASSUME NEW x \in log', x.id \in Slots
          PROVE x.id \in DOMAIN said' /\ Recorded(said'[x.id]) /\ x = NewRow(x.id, said'[x.id])
      <3>1. CASE x = new
        BY <1>1, <1>2, <3>1 DEF new
      <3>2. CASE x # new
        <4>1. x.id \in DOMAIN said /\ Recorded(said[x.id]) /\ x = NewRow(x.id, said[x.id])
          BY <1>1, <2>3, <3>2 DEF FeedInv, RowsInv
        <4>2. said'[x.id] = said[x.id] /\ x.id \in DOMAIN said'
          BY <1>1, <4>1
        <4> QED
          BY <4>1, <4>2
      <3> QED
        BY <3>1, <3>2
    <2>5. \A x, y \in log' : x.id = y.id => x = y
      BY <1>1, <1>2 DEF FeedInv, RowsInv
    <2>4. DOMAIN said' \subseteq Slots /\ \A j \in DOMAIN said' : said'[j] \in Events[j]
      BY <1>1 DEF FeedInv, RowsInv
    <2> QED
      BY <2>1, <2>2, <2>3, <2>4, <2>5 DEF RowsInv
  <1>4. ShownInv'
    <2>1. Answered' = Answered /\ arriving \subseteq arriving' /\ arriving' \subseteq arriving \cup {i}
      BY <1>1, <1>8 DEF Answered
    <2>2. (entries \cup arriving' \cup Answered) \cap Slots \subseteq DOMAIN said'
      BY <1>1, <2>1 DEF FeedInv, ShownInv
    <2>3. i \notin entries \cup arriving \cup Answered
      BY <1>1 DEF FeedInv, ShownInv
    <2>4. ASSUME NEW x \in log', x.id \in entries \cup arriving' \cup Answered PROVE IsVisibleTo(x)
      <3>1. CASE x = new
        BY <1>1, <1>2, <1>8, <2>3, <2>4, <3>1
      <3>2. CASE x # new
        <4>1. x \in log
          BY <1>1, <3>2
        <4>2. x.id # i
          BY <1>1, <4>1 DEF FeedInv, RowsInv
        <4> QED
          BY <2>1, <2>4, <4>1, <4>2 DEF FeedInv, ShownInv
      <3> QED
        BY <3>1, <3>2
    <2> QED
      BY <1>1, <2>1, <2>2, <2>4 DEF ShownInv, IsVisibleTo
  <1>5. CursorInv'
    BY <1>1 DEF FeedInv, CursorInv
  <1>6. CoverInv'
    <2> SUFFICES ASSUME NEW x \in log', IsVisibleTo(x), x.at >= cutoff PROVE (Excused(x) \/ Awaited(x))'
      BY <1>1 DEF CoverInv, IsVisibleTo
    <2>1. CASE x = new
      BY <1>1, <1>2, <1>8, <2>1 DEF Excused, Awaited
    <2>2. CASE x # new
      <3>1. Excused(x) \/ Awaited(x)
        BY <1>1, <2>2 DEF FeedInv, CoverInv
      <3> QED
        BY <1>1, <1>8, <3>1 DEF Excused, Awaited, Loading
    <2> QED
      BY <2>1, <2>2
  <1> QED
    BY <1>3, <1>4, <1>5, <1>6 DEF FeedInv

\* Time passes and old rows go.
LEMMA AgeStep ==
  ASSUME FeedConstants, FeedInv, log' \subseteq log, cutoff' \in Nat, cutoff' >= cutoff,
         UNCHANGED <<arriving, entries, nextBefore, load, missed, said, cuts, skipped>>
  PROVE  FeedInv'
  <1>1. RowsInv'
    <2>1. IsFiniteSet(log')
      BY FS_Subset DEF FeedInv, RowsInv
    <2> QED
      BY <2>1 DEF FeedInv, RowsInv
  <1>2. ShownInv'
    BY DEF FeedInv, ShownInv, Answered, IsVisibleTo
  <1>3. CursorInv'
    BY DEF FeedInv, CursorInv
  <1>4. CoverInv'
    <2> SUFFICES ASSUME NEW x \in log', IsVisibleTo(x), x.at >= cutoff' PROVE (Excused(x) \/ Awaited(x))'
      BY DEF CoverInv, IsVisibleTo
    <2>1. x.at \in Nat /\ cutoff \in Nat
      BY DEF FeedInv, RowsInv
    <2>2. x \in log /\ x.at >= cutoff
      BY <2>1
    <2>3. Excused(x) \/ Awaited(x)
      BY <2>2 DEF FeedInv, CoverInv
    <2> QED
      BY <2>3 DEF Excused, Awaited, Loading
  <1> QED
    BY <1>1, <1>2, <1>3, <1>4 DEF FeedInv

\* A read below a cursor: what it does not bring lies below the next cursor, or is
\* excused by the entry that ends the page or by a read that shows nothing.
LEMMA ReadStep ==
  ASSUME FeedConstants, FeedInv, NEW before \in Nat, NEW first \in BOOLEAN, ListForViewer(before, first),
         skipped = End, load.pc # "answer", first <=> load.pc = "start", first => before = Top,
         ~first => load.pc = "none" /\ before = nextBefore
  PROVE  FeedInv'
  <1> DEFINE found == {x \in log : x.at < before /\ x.at >= cutoff}
  <1>0. PICK fetched \in ListByState(before, 3 * Limit) :
          \E shown \in Slices({x \in fetched : IsVisibleTo(x)}) :
            /\ load' = [pc |-> "answer", first |-> first, ids |-> Ids(shown), next |-> Cursor(shown, fetched)]
            /\ cuts' = IF shown = {} THEN cuts ELSE cuts \cup {OldestOf(shown)}
            /\ skipped' = IF shown = {} /\ fetched # {} THEN OldestOf(fetched) ELSE skipped
    BY DEF ListForViewer
  <1>1. PICK shown \in Slices({x \in fetched : IsVisibleTo(x)}) :
          /\ load' = [pc |-> "answer", first |-> first, ids |-> Ids(shown), next |-> Cursor(shown, fetched)]
          /\ cuts' = IF shown = {} THEN cuts ELSE cuts \cup {OldestOf(shown)}
          /\ skipped' = IF shown = {} /\ fetched # {} THEN OldestOf(fetched) ELSE skipped
    BY <1>0
  <1>2. UNCHANGED <<log, cutoff, arriving, entries, nextBefore, missed, said>>
    BY DEF ListForViewer
  <1> DEFINE visible == {x \in fetched : IsVisibleTo(x)}
  <1>3. /\ fetched \subseteq found /\ Cardinality(fetched) = Min({3 * Limit, Cardinality(found)})
        /\ \A x \in fetched, y \in found \ fetched : x.at >= y.at
    BY DEF ListByState
  <1>4. /\ shown \subseteq visible /\ Cardinality(shown) = Min({Limit, Cardinality(visible)})
        /\ \A x \in shown, y \in visible \ shown : x.at >= y.at
    BY DEF Slices
  <1>5. IsFiniteSet(found) /\ IsFiniteSet(visible) /\ Limit \in Nat \ {0} /\ 3 * Limit \in Nat \ {0}
    <2>1. found \in SUBSET log /\ visible \in SUBSET log /\ IsFiniteSet(log)
      BY <1>3 DEF FeedInv, RowsInv
    <2> HIDE DEF found, visible
    <2> QED
      BY <2>1, FS_Subset DEF FeedConstants
  <1>6. \A x \in log : x.at \in Nat /\ x.at \in 1..(Top - 1)
    BY DEF FeedInv, RowsInv
  <1>7. shown \subseteq log /\ fetched \subseteq log /\ (shown # {} => fetched # {})
    BY <1>3, <1>4
  <1>a. ASSUME NEW x \in found PROVE fetched # {}
    <2> HIDE DEF found
    <2> QED
      BY <1>3, <1>5, TakesSome
  <1>b. ASSUME NEW x \in visible PROVE shown # {}
    <2> HIDE DEF visible
    <2> QED
      BY <1>4, <1>5, TakesSome
  <1>c. /\ shown # {} => /\ OldestOf(shown) \in 1..(Top - 1) /\ \E y \in shown : OldestOf(shown) = y.at
                         /\ \A y \in shown : OldestOf(shown) <= y.at
        /\ fetched # {} => /\ OldestOf(fetched) \in 1..(Top - 1)
                           /\ \E y \in fetched : OldestOf(fetched) = y.at
    BY <1>6, <1>7, OldestIs
  <1>d. load'.pc = "answer" /\ load'.first = first /\ load'.ids = Ids(shown) /\ load'.next = Cursor(shown, fetched)
    BY <1>1
  <1>e. End = 0 /\ Top \in Nat
    BY DEF End, Top
  <1>9. RowsInv'
    BY <1>2 DEF FeedInv, RowsInv
  <1>10. ShownInv'
    <2>1. Answered' = Ids(shown)
      BY <1>d DEF Answered
    <2>2. ASSUME NEW x \in log, x.id \in Ids(shown) PROVE IsVisibleTo(x)
      <3>1. PICK y \in shown : y.id = x.id
        BY <2>2 DEF Ids
      <3>2. y \in log /\ IsVisibleTo(y)
        BY <1>4, <1>7, <3>1
      <3>3. x = y
        BY <3>1, <3>2 DEF FeedInv, RowsInv
      <3> QED
        BY <3>2, <3>3
    <2>3. Ids(shown) \cap Slots \subseteq DOMAIN said
      BY <1>7 DEF Ids, FeedInv, RowsInv
    <2> QED
      BY <1>2, <2>1, <2>2, <2>3 DEF FeedInv, ShownInv, IsVisibleTo
  <1>11. CursorInv'
    BY <1>1, <1>2, <1>c, <1>d, <1>e DEF FeedInv, CursorInv, Cursor
  <1>12. CoverInv'
    <2> SUFFICES ASSUME NEW x \in log, IsVisibleTo(x), x.at >= cutoff PROVE (Excused(x) \/ Awaited(x))'
      BY <1>2 DEF CoverInv, IsVisibleTo
    <2>1. CASE x \in found
      <3>1. CASE shown = {}
        <4>1. x \notin fetched /\ fetched # {}
          BY <1>a, <1>b, <2>1, <3>1
        <4>2. skipped' = OldestOf(fetched)
          BY <1>1, <3>1, <4>1
        <4>3. PICK y \in fetched : OldestOf(fetched) = y.at
          BY <1>c, <4>1
        <4>4. y.at >= x.at
          BY <1>3, <2>1, <4>1
        <4>5. x.at <= skipped'
          BY <1>6, <1>7, <4>2, <4>3, <4>4
        <4> QED
          BY <4>5 DEF Excused
      <3>2. CASE shown # {} /\ x \in shown
        <4>1. x.id \in load'.ids
          BY <1>d, <3>2 DEF Ids
        <4> QED
          BY <1>d, <4>1 DEF Awaited
      <3>3. CASE shown # {} /\ x \notin shown
        <4>1. \A y \in shown : y.at >= x.at
          BY <1>3, <1>4, <2>1, <3>3
        <4>2. PICK y \in shown : OldestOf(shown) = y.at
          BY <1>c, <3>3
        <4>3. x.at < OldestOf(shown) \/ x.at = OldestOf(shown)
          BY <1>6, <1>7, <4>1, <4>2
        <4>4. OldestOf(shown) \in cuts' /\ load'.next = OldestOf(shown)
          BY <1>1, <1>d, <3>3 DEF Cursor
        <4> QED
          BY <1>d, <4>3, <4>4 DEF Excused, Awaited
      <3> QED
        BY <3>1, <3>2, <3>3
    <2>2. CASE x \notin found
      <3>1. ~(x.at < before)
        BY <2>2
      <3>2. ~first
        BY <1>6, <1>e, <3>1
      <3>3. Excused(x) \/ Awaited(x)
        BY DEF FeedInv, CoverInv
      <3>4. Excused(x) => x.at \in cuts \/ x.id \in missed
        BY <1>6, <1>e DEF Excused
      <3>5. Awaited(x) => x.id \in arriving \/ x.id \in entries
        BY <3>1, <3>2 DEF Awaited
      <3>6. cuts \subseteq cuts'
        BY <1>1
      <3> QED
        BY <1>2, <1>d, <3>2, <3>3, <3>4, <3>5, <3>6 DEF Excused, Awaited, Loading
    <2> QED
      BY <2>1, <2>2
  <1> QED
    BY <1>9, <1>10, <1>11, <1>12 DEF FeedInv

LEMMA LoadStep ==
  ASSUME FeedConstants, FeedInv, LoadInitial \/ LoadMore
  PROVE  FeedInv'
  <1>1. Top \in Nat /\ nextBefore \in Nat
    BY DEF Top, FeedInv, CursorInv
  <1>2. CASE LoadInitial
    <2>1. load.pc = "start" /\ ListForViewer(Top, TRUE) /\ skipped = End
      BY <1>2 DEF LoadInitial, FeedInv, CursorInv
    <2> QED
      BY <1>1, <2>1, ReadStep
  <1>3. CASE LoadMore
    <2>1. load.pc = "none" /\ ListForViewer(nextBefore, FALSE) /\ skipped = End
      BY <1>3 DEF LoadMore, FeedInv, CursorInv
    <2> QED
      BY <1>1, <2>1, ReadStep
  <1> QED
    BY <1>2, <1>3

LEMMA ShowStep ==
  ASSUME FeedConstants, FeedInv, ShowRows
  PROVE  FeedInv'
  <1>1. /\ load.pc = "answer" /\ load' = NoLoad /\ nextBefore' = load.next
        /\ entries' = IF load.first THEN load.ids ELSE entries \cup load.ids
        /\ UNCHANGED <<log, cutoff, arriving, missed, said, cuts, skipped>>
    BY DEF ShowRows, feedGhosts
  <1>2. load'.pc = "none" /\ Answered = load.ids /\ Answered' = {} /\ ~Loading'
    BY <1>1 DEF NoLoad, Answered, Loading
  <1>3. RowsInv'
    BY <1>1 DEF FeedInv, RowsInv
  <1>4. ShownInv'
    BY <1>1, <1>2 DEF FeedInv, ShownInv, IsVisibleTo
  <1>5. CursorInv'
    BY <1>1, <1>2 DEF FeedInv, CursorInv
  <1>6. CoverInv'
    <2> SUFFICES ASSUME NEW x \in log, IsVisibleTo(x), x.at >= cutoff PROVE (Excused(x) \/ Awaited(x))'
      BY <1>1 DEF CoverInv, IsVisibleTo
    <2>1. Excused(x) \/ Awaited(x)
      BY DEF FeedInv, CoverInv
    <2> QED
      BY <1>1, <1>2, <2>1 DEF Excused, Awaited, Loading
  <1> QED
    BY <1>3, <1>4, <1>5, <1>6 DEF FeedInv

\* The stream opens, is cut, and brings an entry.
LEMMA StreamStep ==
  ASSUME FeedConstants, FeedInv, Connect \/ Drop \/ \E i \in Slots : Ingest(i)
  PROVE  FeedInv'
  <1>1. UNCHANGED <<log, cutoff, nextBefore, load, said, cuts, skipped>>
    BY DEF Connect, Drop, Ingest, pageVars, feedGhosts
  <1>2. /\ entries' \cup arriving' \subseteq entries \cup arriving /\ entries \subseteq entries'
        /\ missed \subseteq missed'
        /\ \A i \in arriving : i \in arriving' \/ i \in missed' \/ (i \in entries' /\ (Loading => i \in load.ids))
    BY DEF Connect, Drop, Ingest, pageVars, feedGhosts
  <1>3. RowsInv'
    BY <1>1 DEF FeedInv, RowsInv
  <1>4. ShownInv'
    <2>1. Answered' = Answered
      BY <1>1 DEF Answered
    <2> QED
      BY <1>1, <1>2, <2>1 DEF FeedInv, ShownInv, IsVisibleTo
  <1>5. CursorInv'
    BY <1>1 DEF FeedInv, CursorInv
  <1>6. CoverInv'
    <2> SUFFICES ASSUME NEW x \in log, IsVisibleTo(x), x.at >= cutoff PROVE (Excused(x) \/ Awaited(x))'
      BY <1>1 DEF CoverInv, IsVisibleTo
    <2>1. Excused(x) \/ Awaited(x)
      BY DEF FeedInv, CoverInv
    <2>2. CASE x.id \in arriving
      BY <1>1, <1>2, <2>2 DEF Excused, Awaited, Loading
    <2>3. CASE x.id \notin arriving
      BY <1>1, <1>2, <2>1, <2>3 DEF Excused, Awaited, Loading
    <2> QED
      BY <2>2, <2>3
  <1> QED
    BY <1>3, <1>4, <1>5, <1>6 DEF FeedInv

LEMMA FeedInductive == ASSUME FeedConstants, FeedInv, [FeedNext]_feedVars PROVE FeedInv'
  <1>1. cutoff \in Nat /\ \A t \in Expiries : t \in Nat
    BY DEF FeedInv, RowsInv, FeedConstants
  <1>2. CASE UNCHANGED feedVars
    BY <1>1, <1>2, AgeStep DEF feedVars
  <1>3. ASSUME NEW t \in Expiries, RowsExpire(t) PROVE FeedInv'
    BY <1>1, <1>3, AgeStep DEF RowsExpire, pageVars, feedGhosts
  <1>4. ASSUME ReapActivityLog PROVE FeedInv'
    <2>1. log' \subseteq log /\ cutoff' = cutoff
      BY <1>4 DEF ReapActivityLog
    <2> QED
      BY <1>1, <1>4, <2>1, AgeStep DEF ReapActivityLog, pageVars, feedGhosts
  <1>5. CASE FeedNext
    BY <1>3, <1>4, <1>5, NewsStep, LoadStep, ShowStep, StreamStep DEF FeedNext
  <1> QED
    BY <1>2, <1>5

\* Each visible live row is shown, arriving, below the cursor of the pages, or lost
\* for a named reason, however loads, stream and reaper interleave.
THEOREM FeedInvariant == ASSUME FeedConstants PROVE FeedSpec => []FeedInv
  BY FeedInitInv, FeedInductive, PTL DEF FeedSpec

\* Pages and stream together leave out no row that concerns the viewer by the scope
\* that the code defines, unless it expired, shares its time with the end of a page,
\* lies below a read of hidden rows only or was missed, its publication lost among
\* the reasons; and they show none that does not.
THEOREM FeedKeepsScope == ASSUME FeedConstants PROVE FeedSpec => []FeedFollowsScope
  <1>1. ASSUME FeedInv PROVE FeedFollowsScope
    <2>1. ASSUME NEW x \in log PROVE IsDue(x) <=> IsVisibleTo(x)
      <3>1. CASE x.id \in Slots
        <4> DEFINE i == x.id
                   e == said[x.id]
        <4>1. i \in Slots /\ e \in Events[i] /\ Recorded(e) /\ x = NewRow(i, e)
          BY <1>1, <3>1 DEF FeedInv, RowsInv
        <4> HIDE DEF i, e
        <4>2. IsVisibleTo(NewRow(i, e)) <=> Concerns(e)
          BY <4>1, RowsConcern
        <4> QED
          BY <3>1, <4>1, <4>2 DEF IsDue, i, e
      <3>2. CASE x.id \notin Slots
        BY <3>2 DEF IsDue
      <3> QED
        BY <3>1, <3>2
    <2>2. \A x \in log : x.id \in entries => IsDue(x)
      BY <1>1, <2>1 DEF FeedInv, ShownInv
    <2>3. ASSUME load.pc = "none", nextBefore = End, arriving = {}, NEW x \in log, IsDue(x), x.at >= cutoff
          PROVE  x.id \in entries \/ x.at \in cuts \/ x.at <= skipped \/ x.id \in missed
      <3>1. Excused(x) \/ Awaited(x)
        BY <1>1, <2>1, <2>3 DEF FeedInv, CoverInv
      <3>2. x.at \in Nat /\ x.at > 0
        BY <1>1 DEF FeedInv, RowsInv
      <3> QED
        BY <2>3, <3>1, <3>2 DEF Excused, Awaited, End
    <2> QED
      BY <2>2, <2>3 DEF FeedFollowsScope
  <1> QED
    BY <1>1, FeedInvariant, PTL
=============================================================================
