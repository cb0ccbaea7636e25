------------------------------ MODULE DaemonProofs ------------------------------
(***************************************************************************)
(* What TLAPS proves of Daemon: for any number of services, whatever they  *)
(* depend on, whatever is started by itself, has a readiness check or is   *)
(* created later, and however many processes, faults, requests and crashes *)
(* there are.                                                              *)
(***************************************************************************)
EXTENDS Daemon, TLAPS, WellFoundedInduction, FiniteSetTheorems, SequenceTheorems

-----------------------------------------------------------------------------
(* Facts about the graph. *)

\* Every set of natural numbers that is not empty has a least element: the form of
\* induction that needs no operator as a parameter.
LEMMA LeastNumber ==
    ASSUME NEW T \in SUBSET Nat, T # {}
    PROVE  \E x \in T : \A y \in T : x <= y
<1> DEFINE Below == {0..m : m \in T}
<1>1. \A m \in Nat : IsFiniteSet(0..m) /\ 0..m \subseteq Nat
  BY FS_Interval
<1>2. Below \subseteq FiniteSubsetsOf(Nat) /\ Below # {}
  BY <1>1 DEF FiniteSubsetsOf
<1>3. \E X \in Below : \A Y \in Below : ~ (<<Y, X>> \in StrictSubsetOrdering(Nat))
  <2> HIDE DEF Below
  <2> QED
    BY <1>2, FS_StrictSubsetOrderingWellFounded, WFMin
<1>4. PICK x \in T : \A Y \in Below : ~ (<<Y, 0..x>> \in StrictSubsetOrdering(Nat))
  BY <1>3
<1>5. \A y \in T : y < x => <<0..y, 0..x>> \in StrictSubsetOrdering(Nat)
  BY <1>1 DEF StrictSubsetOrdering
<1>6. \A y \in T : ~(y < x)
  BY <1>4, <1>5
<1> QED
  BY <1>6

\* What Kahn's algorithm takes when it has taken so much.
After(g, taken) == {s \in DOMAIN g : g[s] \cap DOMAIN g \subseteq taken}

\* What has been taken after k layers is what the recursion says.
LEMMA TakenUnfolds ==
    ASSUME NEW g, IsFiniteSet(DOMAIN g)
    PROVE  /\ Cardinality(DOMAIN g) \in Nat
           /\ Taken(g) = [k \in 0..Cardinality(DOMAIN g) |->
                             IF k = 0 THEN {} ELSE After(g, Taken(g)[k - 1])]
<1> DEFINE D == DOMAIN g
           Body(f, k) == IF k = 0 THEN {} ELSE After(g, f[k - 1])
           Bad == {m \in Nat : ~\E f : f = [k \in 0..m |-> Body(f, k)]}
<1>0. Cardinality(D) \in Nat
  BY FS_CardinalityType
<1>1. Bad = {}
  <2> SUFFICES ASSUME Bad # {} PROVE FALSE
    OBVIOUS
  <2>1. PICK m \in Bad : \A y \in Bad : m <= y
    BY LeastNumber
  <2>2. m # 0
    <3> DEFINE f == [k \in 0..0 |-> {}]
    <3>1. f = [k \in 0..0 |-> Body(f, k)]
      OBVIOUS
    <3> QED
      BY <3>1
  <2>3. m \in Nat /\ m - 1 \in Nat /\ m - 1 \notin Bad
    <3> HIDE DEF Bad
    <3>1. m \in Nat
      BY DEF Bad
    <3> QED
      BY <2>1, <2>2, <3>1
  <2>4. PICK f : f = [k \in 0..(m - 1) |-> Body(f, k)]
    BY <2>3
  <2> DEFINE h == [k \in 0..m |-> IF k < m THEN f[k] ELSE Body(f, m)]
  <2>5. h = [k \in 0..m |-> Body(h, k)]
    <3> SUFFICES ASSUME NEW k \in 0..m PROVE h[k] = Body(h, k)
      OBVIOUS
    <3>1. CASE k = m
      BY <3>1, <2>2
    <3>2. CASE k < m
      <4>1. k \in 0..(m - 1) /\ h[k] = f[k]
        BY <3>2
      <4>2. h[k] = Body(f, k)
        BY <4>1, <2>4
      <4>3. k # 0 => h[k - 1] = f[k - 1]
        BY <3>2
      <4> QED
        BY <4>2, <4>3
    <3> QED
      BY <3>1, <3>2
  <2> QED
    BY <2>5, <2>1
<1>2. \E f : f = [k \in 0..Cardinality(D) |-> Body(f, k)]
  BY <1>0, <1>1
<1> QED
  BY <1>0, <1>2 DEF Taken, After

\* What has been taken stays so; whatever is taken belongs to one layer, the layers are
\* disjoint, and what a service depends on belongs to earlier ones.
LEMMA LayersOfGraph ==
    ASSUME NEW g, IsFiniteSet(DOMAIN g), NEW n, n = Cardinality(DOMAIN g)
    PROVE  /\ n \in Nat
           /\ \A k \in 1..n : Layer(g, k) \subseteq DOMAIN g
           /\ \A i, j \in 1..n : i < j => Layer(g, i) \cap Layer(g, j) = {}
           /\ \A k \in 1..n : \A s \in Layer(g, k) : \A d \in g[s] \cap DOMAIN g :
                 \E j \in 1..(k - 1) : d \in Layer(g, j)
           /\ \A s \in Taken(g)[n] : \E j \in 1..n : s \in Layer(g, j)
           /\ \A k \in 1..(n - 1) : Layer(g, k) = {} => Layer(g, k + 1) = {}
<1> DEFINE D == DOMAIN g
           T == Taken(g)
<1>0. n \in Nat
  BY TakenUnfolds
<1>1. T[0] = {} /\ \A k \in 1..n : T[k] = {s \in D : g[s] \cap D \subseteq T[k - 1]}
  <2>1. T = [k \in 0..n |-> IF k = 0 THEN {} ELSE After(g, T[k - 1])]
    BY TakenUnfolds
  <2> HIDE DEF T
  <2>2. T[0] = {}
    <3>1. 0 \in 0..n
      BY <1>0
    <3> QED
      BY <2>1, <3>1, Zenon
  <2>3. ASSUME NEW k \in 1..n PROVE T[k] = After(g, T[k - 1])
    <3>1. k \in 0..n /\ k # 0
      BY <1>0
    <3> QED
      BY <2>1, <3>1, Zenon
  <2> QED
    BY <2>2, <2>3 DEF After
<1>2. \A k \in 1..n : Layer(g, k) = T[k] \ T[k - 1]
  BY DEF Layer
<1> HIDE DEF T
<1>3. \A k \in 1..n : T[k - 1] \subseteq T[k]
  <2> DEFINE Bad == {k \in 1..n : ~(T[k - 1] \subseteq T[k])}
  <2> SUFFICES ASSUME Bad # {} PROVE FALSE
    OBVIOUS
  <2>1. PICK k \in Bad : \A y \in Bad : k <= y
    <3>1. Bad \in SUBSET Nat
      BY <1>0
    <3> QED
      BY <3>1, LeastNumber
  <2>2. k \in 1..n /\ ~(T[k - 1] \subseteq T[k])
    OBVIOUS
  <2>3. k # 1
    BY <2>2, <1>1
  <2>4. k - 1 \in 1..n /\ k - 1 \notin Bad
    <3> HIDE DEF Bad
    <3> QED
      BY <2>1, <2>2, <2>3, <1>0
  <2>5. T[k - 2] \subseteq T[k - 1]
    <3>1. (k - 1) - 1 = k - 2
      BY <2>2
    <3> QED
      BY <2>4, <3>1
  <2>6. T[k - 1] = {s \in D : g[s] \cap D \subseteq T[k - 2]}
    <3>1. (k - 1) - 1 = k - 2
      BY <2>2
    <3> QED
      BY <2>4, <3>1, <1>1
  <2>7. T[k] = {s \in D : g[s] \cap D \subseteq T[k - 1]}
    BY <2>2, <1>1
  <2> QED
    BY <2>2, <2>5, <2>6, <2>7
<1>4. \A i \in 0..n : \A j \in i..n : T[i] \subseteq T[j]
  <2> SUFFICES ASSUME NEW i \in 0..n PROVE {j \in i..n : ~(T[i] \subseteq T[j])} = {}
    OBVIOUS
  <2> DEFINE Bad == {j \in i..n : ~(T[i] \subseteq T[j])}
  <2> SUFFICES ASSUME Bad # {} PROVE FALSE
    OBVIOUS
  <2>1. PICK j \in Bad : \A y \in Bad : j <= y
    <3>1. Bad \in SUBSET Nat
      BY <1>0
    <3> QED
      BY <3>1, LeastNumber
  <2>2. j \in i..n /\ ~(T[i] \subseteq T[j])
    OBVIOUS
  <2>3. j - 1 \in i..n /\ j - 1 \notin Bad /\ j \in 1..n
    <3>1. j # i
      BY <2>2
    <3> HIDE DEF Bad
    <3> QED
      BY <2>1, <2>2, <3>1, <1>0
  <2> QED
    BY <2>2, <2>3, <1>3
<1>5. \A k \in 0..n : \A s \in T[k] : \E j \in 1..k : s \in Layer(g, j)
  <2> SUFFICES ASSUME NEW k \in 0..n, NEW s \in T[k] PROVE \E j \in 1..k : s \in Layer(g, j)
    OBVIOUS
  <2> DEFINE Has == {j \in 0..k : s \in T[j]}
  <2>1. PICK j \in Has : \A y \in Has : j <= y
    <3>1. Has \in SUBSET Nat /\ Has # {}
      BY <1>0
    <3> QED
      BY <3>1, LeastNumber
  <2>2. j \in 0..k /\ s \in T[j] /\ j # 0
    BY <1>1
  <2>3. j - 1 \notin Has
    <3> HIDE DEF Has
    <3> QED
      BY <2>1, <2>2
  <2> QED
    BY <2>2, <2>3, <1>2, <1>0
<1>6. \A k \in 1..n : Layer(g, k) \subseteq D
  BY <1>1, <1>2
<1>7. \A i, j \in 1..n : i < j => Layer(g, i) \cap Layer(g, j) = {}
  <2> SUFFICES ASSUME NEW i \in 1..n, NEW j \in 1..n, i < j PROVE Layer(g, i) \cap Layer(g, j) = {}
    OBVIOUS
  <2>1. T[i] \subseteq T[j - 1]
    BY <1>0, <1>4
  <2> QED
    BY <2>1, <1>2
<1>8. \A k \in 1..n : \A s \in Layer(g, k) : \A d \in g[s] \cap D :
         \E j \in 1..(k - 1) : d \in Layer(g, j)
  <2> SUFFICES ASSUME NEW k \in 1..n, NEW s \in Layer(g, k), NEW d \in g[s] \cap D
               PROVE \E j \in 1..(k - 1) : d \in Layer(g, j)
    OBVIOUS
  <2>1. d \in T[k - 1]
    BY <1>1, <1>2
  <2>2. k - 1 \in 0..n
    BY <1>0
  <2> QED
    BY <2>1, <2>2, <1>5
<1>9. \A k \in 1..(n - 1) : Layer(g, k) = {} => Layer(g, k + 1) = {}
  <2> SUFFICES ASSUME NEW k \in 1..(n - 1), Layer(g, k) = {} PROVE Layer(g, k + 1) = {}
    OBVIOUS
  <2>1. k \in 1..n /\ k + 1 \in 1..n /\ (k + 1) - 1 = k
    BY <1>0
  <2>2. T[k] = T[k - 1]
    BY <2>1, <1>2, <1>3
  <2>3. T[k] = {s \in D : g[s] \cap D \subseteq T[k - 1]}
    BY <2>1, <1>1
  <2>4. T[k + 1] = {s \in D : g[s] \cap D \subseteq T[k]}
    BY <2>1, <1>1
  <2>5. T[k + 1] = T[k]
    BY <2>2, <2>3, <2>4
  <2>6. Layer(g, k + 1) = T[k + 1] \ T[k]
    BY <2>1, <1>2
  <2> QED
    BY <2>5, <2>6
<1>10. \A s \in T[n] : \E j \in 1..n : s \in Layer(g, j)
  BY <1>0, <1>5
<1> QED
  BY <1>0, <1>6, <1>7, <1>8, <1>9, <1>10 DEF T

\* The layers L sort g: each service is in one, and all it depends on in earlier ones.
Sorted(g, L) ==
    /\ L \in Seq(SUBSET DOMAIN g)
    /\ \A i, j \in 1..Len(L) : i < j => L[i] \cap L[j] = {}
    /\ \A i \in 1..Len(L) : \A s \in L[i] : \A d \in g[s] \cap DOMAIN g :
          \E j \in 1..(i - 1) : d \in L[j]
    /\ \A s \in DOMAIN g : \E i \in 1..Len(L) : s \in L[i]

LEMMA SortSorts ==
    ASSUME NEW g, IsFiniteSet(DOMAIN g), Acyclic(g)
    PROVE  Sorted(g, TopologicalSort(g))
<1> DEFINE n == Cardinality(DOMAIN g)
           Full == {k \in 1..n : Layer(g, k) # {}}
           Empty == {k \in 1..n : Layer(g, k) = {}}
           L == TopologicalSort(g)
<1>1. n \in Nat
  BY LayersOfGraph
<1>2. PICK m \in 0..n : Full = 1..m
  <2>1. CASE Empty = {}
    <3>1. Full = 1..n
      BY <2>1
    <3> QED
      BY <3>1, <1>1
  <2>2. CASE Empty # {}
    <3>1. PICK e \in Empty : \A y \in Empty : e <= y
      <4>1. Empty \in SUBSET Nat
        BY <1>1
      <4> QED
        BY <4>1, <2>2, LeastNumber
    <3>2. e \in 1..n
      OBVIOUS
    <3>3. {k \in e..n : Layer(g, k) # {}} = {}
      <4> DEFINE Bad == {k \in e..n : Layer(g, k) # {}}
      <4> SUFFICES ASSUME Bad # {} PROVE FALSE
        OBVIOUS
      <4>1. PICK k \in Bad : \A y \in Bad : k <= y
        <5>1. Bad \in SUBSET Nat
          BY <1>1, <3>2
        <5> QED
          BY <5>1, LeastNumber
      <4>2. k \in e..n /\ Layer(g, k) # {} /\ k # e
        OBVIOUS
      <4>3. k - 1 \in e..n /\ k - 1 \notin Bad /\ k - 1 \in 1..(n - 1) /\ (k - 1) + 1 = k
        <5> HIDE DEF Bad
        <5> QED
          BY <4>1, <4>2, <3>2, <1>1
      <4>4. Layer(g, k - 1) = {}
        BY <4>3
      <4> QED
        BY <4>2, <4>3, <4>4, LayersOfGraph
    <3>4. Full = 1..(e - 1)
      <4>1. \A k \in 1..n : k < e => Layer(g, k) # {}
        BY <3>1, <3>2
      <4>2. \A k \in 1..n : k >= e => Layer(g, k) = {}
        BY <3>3, <3>2, <1>1
      <4> QED
        BY <4>1, <4>2, <3>2, <1>1
    <3> QED
      BY SMTT(30), <3>2, <3>4, <1>1
  <2> QED
    BY <2>1, <2>2
<1>3. Cardinality(Full) = m
  <2>1. m \in Nat /\ 1 \in Int
    BY <1>1
  <2>2. Cardinality(1..m) = IF 1 > m THEN 0 ELSE m - 1 + 1
    BY <2>1, FS_Interval
  <2>3. Cardinality(1..m) = m
    BY <2>1, <2>2
  <2> HIDE DEF Full
  <2> QED
    BY <1>2, <2>3
<1>4. L = [k \in 1..m |-> Layer(g, k)]
  BY <1>3 DEF TopologicalSort
<1>5. \A s \in DOMAIN g : \E j \in 1..m : s \in Layer(g, j)
  <2>1. Taken(g)[n] = DOMAIN g
    BY DEF Acyclic
  <2>2. \A s \in DOMAIN g : \E j \in 1..n : s \in Layer(g, j)
    BY <2>1, LayersOfGraph
  <2>3. \A j \in 1..n : Layer(g, j) # {} => j \in 1..m
    BY <1>2
  <2> QED
    BY <2>2, <2>3
<1>6. 1..m \subseteq 1..n
  BY <1>1
<1> HIDE DEF L, n
<1>7. L \in Seq(SUBSET DOMAIN g) /\ Len(L) = m
  <2>1. L \in [1..m -> SUBSET DOMAIN g]
    BY <1>4, <1>6, LayersOfGraph DEF n
  <2>2. m \in Nat
    BY <1>1
  <2> QED
    BY <2>1, <2>2, SeqDef, LenProperties
<1>8. \A i, j \in 1..m : i < j => L[i] \cap L[j] = {}
  <2>1. \A i, j \in 1..n : i < j => Layer(g, i) \cap Layer(g, j) = {}
    BY LayersOfGraph DEF n
  <2> QED
    BY <2>1, <1>4, <1>6
<1>9. \A i \in 1..m : \A s \in L[i] : \A d \in g[s] \cap DOMAIN g : \E j \in 1..(i - 1) : d \in L[j]
  <2> SUFFICES ASSUME NEW i \in 1..m, NEW s \in L[i], NEW d \in g[s] \cap DOMAIN g
               PROVE  \E j \in 1..(i - 1) : d \in L[j]
    OBVIOUS
  <2>1. i \in 1..n /\ s \in Layer(g, i)
    BY <1>4, <1>6
  <2>2. PICK j \in 1..(i - 1) : d \in Layer(g, j)
    BY <2>1, LayersOfGraph DEF n
  <2>3. j \in 1..m
    BY <1>1
  <2> QED
    BY <2>2, <2>3, <1>4
<1>10. \A s \in DOMAIN g : \E i \in 1..m : s \in L[i]
  BY <1>5, <1>4
<1> QED
  BY <1>7, <1>8, <1>9, <1>10 DEF Sorted, L

\* In an acyclic graph no service depends on itself.
LEMMA NoSelfReference ==
    ASSUME NEW g, IsFiniteSet(DOMAIN g), Acyclic(g)
    PROVE  DetectSelfReference(g) = {}
<1> DEFINE L == TopologicalSort(g)
<1>1. Sorted(g, L)
  BY SortSorts
<1> HIDE DEF L
<1> SUFFICES ASSUME NEW s \in DOMAIN g, s \in g[s] PROVE FALSE
  BY DEF DetectSelfReference
<1>2. PICK i \in 1..Len(L) : s \in L[i]
  BY <1>1 DEF Sorted
<1>3. PICK j \in 1..(i - 1) : s \in L[j]
  BY <1>1, <1>2 DEF Sorted
<1>4. Len(L) \in Nat
  BY <1>1 DEF Sorted
<1>5. j \in 1..Len(L) /\ j < i
  BY <1>4
<1> QED
  BY <1>1, <1>2, <1>3, <1>5 DEF Sorted

\* The graph before the bootstrap and after the end is acyclic.
LEMMA EmptyGraph == IsFiniteSet(DOMAIN <<>>) /\ DOMAIN <<>> = {} /\ Acyclic(<<>>) /\ DetectCycle(<<>>) = {{}}
<1>1. DOMAIN <<>> = {}
  OBVIOUS
<1>2. IsFiniteSet(DOMAIN <<>>) /\ Cardinality(DOMAIN <<>>) = 0
  BY <1>1, FS_EmptySet
<1>3. Taken(<<>>)[0] = {}
  <2>1. Taken(<<>>) = [k \in 0..0 |-> IF k = 0 THEN {} ELSE After(<<>>, Taken(<<>>)[k - 1])]
    BY <1>2, TakenUnfolds
  <2>2. 0 \in 0..0
    OBVIOUS
  <2> QED
    BY <2>1, <2>2, Zenon
<1>4. Acyclic(<<>>)
  BY <1>1, <1>2, <1>3 DEF Acyclic
<1> QED
  BY <1>1, <1>2, <1>4 DEF DetectCycle

\* What the bootstrap is to start in graph g: Startable, with the graph a parameter.
StartableIn(g, cycle) ==
    {s \in DOMAIN g : /\ s \in conf.auto
                      /\ s \notin cycle \cup DetectSelfReference(g)
                      /\ g[s] \subseteq DOMAIN g}

\* The plan P starts services in their order: none twice, only what can be started, and
\* each after all it depends on that can be started too.
InOrder(g, cycle, P) ==
    /\ P \in Seq(SUBSET DOMAIN g)
    /\ \A i, j \in 1..Len(P) : i < j => P[i] \cap P[j] = {}
    /\ \A i \in 1..Len(P) : \A s \in P[i] :
          /\ s \in StartableIn(g, cycle)
          /\ \A d \in g[s] \cap StartableIn(g, cycle) : \E j \in 1..(i - 1) : d \in P[j]

LEMMA BootLayersInOrder ==
    ASSUME NEW g, IsFiniteSet(DOMAIN g), NEW cycle \in DetectCycle(g)
    PROVE  InOrder(g, cycle, BootLayers(g, cycle))
<1> DEFINE P == BootLayers(g, cycle)
           off == MissingDependencies(g, DOMAIN g)
           h == IF Acyclic(g) THEN g ELSE CleanGraph(g, cycle)
           L == TopologicalSort(h)
           D == DOMAIN h
<1>1. P = [k \in DOMAIN L |-> (L[k] \cap conf.auto) \ off]
  BY DEF BootLayers
<1>2. D \subseteq DOMAIN g /\ IsFiniteSet(D)
  <2>1. D \subseteq DOMAIN g
    BY DEF CleanGraph
  <2> HIDE DEF D
  <2> QED
    BY <2>1, FS_Subset
<1>3. \A s \in D : s \in conf.auto /\ s \notin off => s \in StartableIn(g, cycle)
  <2>1. CASE Acyclic(g)
    <3>1. cycle = {}
      BY <2>1 DEF DetectCycle
    <3>2. DetectSelfReference(g) = {}
      BY <2>1, NoSelfReference
    <3> QED
      BY <2>1, <3>1, <3>2 DEF StartableIn, MissingDependencies
  <2>2. CASE ~Acyclic(g)
    <3>1. D = DOMAIN g \ Skipped(g, cycle)
      BY <2>2 DEF CleanGraph
    <3> QED
      BY <3>1, <1>2 DEF StartableIn, MissingDependencies, Skipped
  <2> QED
    BY <2>1, <2>2
<1>4. \A s \in D : \A d \in g[s] \cap StartableIn(g, cycle) : d \in h[s] \cap D /\ d \notin off
  <2>1. CASE Acyclic(g)
    BY <2>1 DEF StartableIn, MissingDependencies
  <2>2. CASE ~Acyclic(g)
    <3>1. D = DOMAIN g \ Skipped(g, cycle)
      BY <2>2 DEF CleanGraph
    <3>2. \A s \in D : h[s] = g[s] \ (cycle \cup DetectSelfReference(g))
      BY <2>2, <3>1 DEF CleanGraph
    <3>3. \A d \in StartableIn(g, cycle) :
             d \in D /\ d \notin cycle \cup DetectSelfReference(g) /\ d \notin off
      BY <3>1 DEF StartableIn, MissingDependencies, Skipped
    <3> HIDE DEF h, D
    <3> QED
      BY <3>2, <3>3
  <2> QED
    BY <2>1, <2>2
<1>5. CASE ~Acyclic(h)
  <2>1. L = <<>>
    BY <1>5 DEF TopologicalSort
  <2>2. P = <<>>
    BY <2>1, <1>1
  <2> HIDE DEF P
  <2> QED
    BY <2>2 DEF InOrder, P
<1>6. CASE Acyclic(h)
  <2>1. Sorted(h, L)
    BY <1>2, <1>6, SortSorts
  <2> HIDE DEF L, h, P, off
  <2>2. L \in Seq(SUBSET D) /\ Len(L) \in Nat /\ DOMAIN L = 1..Len(L)
    BY <2>1, LenProperties DEF Sorted
  <2>3. P \in Seq(SUBSET DOMAIN g) /\ Len(P) = Len(L)
    <3>1. \A k \in 1..Len(L) : L[k] \subseteq D
      BY <2>2, ElementOfSeq
    <3>2. P \in [1..Len(L) -> SUBSET DOMAIN g]
      BY <1>1, <1>2, <2>2, <3>1
    <3> QED
      BY <2>2, <3>2, SeqDef, LenProperties
  <2>4. \A i \in 1..Len(L) : P[i] = (L[i] \cap conf.auto) \ off
    BY <1>1, <2>2
  <2>5. \A i, j \in 1..Len(P) : i < j => P[i] \cap P[j] = {}
    <3>1. \A i, j \in 1..Len(L) : i < j => L[i] \cap L[j] = {}
      BY <2>1 DEF Sorted
    <3> QED
      BY <3>1, <2>3, <2>4
  <2>6. ASSUME NEW i \in 1..Len(P), NEW s \in P[i]
        PROVE  /\ s \in StartableIn(g, cycle)
               /\ \A d \in g[s] \cap StartableIn(g, cycle) : \E j \in 1..(i - 1) : d \in P[j]
    <3>1. i \in 1..Len(L) /\ s \in L[i] /\ s \in conf.auto /\ s \notin off
      BY <2>3, <2>4, <2>6
    <3>2. s \in D
      BY <2>2, <3>1, ElementOfSeq
    <3>3. s \in StartableIn(g, cycle)
      BY <1>3, <3>1, <3>2
    <3>4. ASSUME NEW d \in g[s] \cap StartableIn(g, cycle) PROVE \E j \in 1..(i - 1) : d \in P[j]
      <4>1. d \in h[s] \cap D /\ d \notin off /\ d \in conf.auto
        BY <1>4, <3>2 DEF StartableIn
      <4>2. PICK j \in 1..(i - 1) : d \in L[j]
        BY <2>1, <3>1, <4>1 DEF Sorted
      <4>3. j \in 1..Len(L)
        BY <2>2, <3>1
      <4> QED
        BY <2>4, <4>1, <4>2, <4>3
    <3> QED
      BY <3>3, <3>4
  <2> QED
    BY <2>3, <2>5, <2>6 DEF InOrder, P
<1> QED
  BY <1>5, <1>6

\* The plan R stops services in the reverse order: none twice, each after all that
\* depend on it.
InReverse(g, R) ==
    /\ R \in Seq(SUBSET DOMAIN g)
    /\ \A i, j \in 1..Len(R) : i < j => R[i] \cap R[j] = {}
    /\ Acyclic(g) => \A i \in 1..Len(R) : \A s \in R[i] : \A d \in GetDependents(g, s) :
                        \E j \in 1..(i - 1) : d \in R[j]

LEMMA ReverseLayersInReverse ==
    ASSUME NEW g, IsFiniteSet(DOMAIN g)
    PROVE  InReverse(g, ReverseLayers(g))
<1> DEFINE L == TopologicalSort(g)
           n == Len(L)
           R == ReverseLayers(g)
<1>1. CASE ~Acyclic(g)
  <2>1. R = <<DOMAIN g>>
    BY <1>1 DEF ReverseLayers
  <2> HIDE DEF R
  <2> QED
    BY <1>1, <2>1 DEF InReverse, R
<1>2. CASE Acyclic(g)
  <2>1. Sorted(g, L)
    BY <1>2, SortSorts
  <2>2. R = [k \in 1..n |-> L[n + 1 - k]]
    BY <1>2 DEF ReverseLayers
  <2> HIDE DEF R, L
  <2>3. n \in Nat
    BY <2>1 DEF Sorted
  <2>4. \A k \in 1..n : n + 1 - k \in 1..n /\ n + 1 - (n + 1 - k) = k
    BY <2>3
  <2> HIDE DEF n
  <2>5. R \in Seq(SUBSET DOMAIN g) /\ Len(R) = n
    <3>1. \A k \in 1..n : L[k] \subseteq DOMAIN g
      BY <2>1, ElementOfSeq DEF Sorted, n
    <3>2. R \in [1..n -> SUBSET DOMAIN g]
      BY <2>2, <2>4, <3>1
    <3> QED
      BY <2>3, <3>2, SeqDef, LenProperties
  <2>6. \A i, j \in 1..n : i < j => L[i] \cap L[j] = {}
    BY <2>1 DEF Sorted, n
  <2>7. ASSUME NEW i \in 1..n, NEW j \in 1..n, i < j PROVE R[i] \cap R[j] = {}
    <3>1. n + 1 - j < n + 1 - i
      BY <2>3, <2>7
    <3>2. L[n + 1 - j] \cap L[n + 1 - i] = {}
      BY <2>4, <2>6, <3>1
    <3> QED
      BY <2>2, <3>2
  <2>8. ASSUME NEW i \in 1..n, NEW s \in R[i], NEW d \in GetDependents(g, s)
        PROVE  \E j \in 1..(i - 1) : d \in R[j]
    <3>1. n + 1 - i \in 1..n /\ s \in L[n + 1 - i]
      BY <2>2, <2>4
    <3>2. s \in DOMAIN g /\ d \in DOMAIN g /\ s \in g[d]
      BY <3>1, <2>1, ElementOfSeq DEF Sorted, GetDependents, n
    <3>3. PICK k \in 1..n : d \in L[k]
      BY <2>1, <3>2 DEF Sorted, n
    <3>4. PICK m \in 1..(k - 1) : s \in L[m]
      BY <2>1, <3>2, <3>3 DEF Sorted, n
    <3>5. m \in 1..n /\ m < k
      BY <2>3
    <3>6. m = n + 1 - i
      <4>1. m < n + 1 - i => L[m] \cap L[n + 1 - i] = {}
        BY <3>1, <3>5, <2>6
      <4>2. n + 1 - i < m => L[n + 1 - i] \cap L[m] = {}
        BY <3>1, <3>5, <2>6
      <4> QED
        BY <2>3, <3>1, <3>4, <3>5, <4>1, <4>2
    <3>7. n + 1 - k \in 1..(i - 1) /\ n + 1 - k \in 1..n
      BY <2>3, <3>5, <3>6
    <3>8. R[n + 1 - k] = L[k]
      BY <2>2, <2>4, <3>7
    <3> QED
      BY <3>3, <3>7, <3>8
  <2> QED
    BY <2>5, <2>7, <2>8 DEF InReverse, R
<1> QED
  BY <1>1, <1>2

-----------------------------------------------------------------------------
(* The inductive invariant. *)

\* The processes of a service the books have to account for.
Booked(s) == {g \in alive[s] : <<s, g>> \notin lost}

\* The bootstrap, or a goroutine it has left behind, is still at work.
BootTime == phase = "boot" \/ \E s \in Services : boot[s] \notin {"none", "done"}

\* Nobody else forks or stops then; the supervisors are the bootstrap's own.
BootTimeInv ==
    BootTime => /\ phase \in {"boot", "exiting"}
                /\ \A s \in Services : /\ org[s] = "boot" /\ s \notin hand /\ co[s] = "none"
                                       /\ turn[s] = "none" /\ lock[s] \in {"free", "boot", "sup"}

AtRest(s) ==
    /\ lock[s] = "free" /\ boot[s] = "none" /\ sup[s] = "none" /\ co[s] = "none"
    /\ s \notin hand /\ s \notin chk /\ turn[s] = "none" /\ org[s] = "boot"

\* Who holds the lock of a service is where the lock says; a service that has no state
\* machine yet is nobody's business.
OwnersInv(s) ==
    /\ lock[s] = "boot" <=> boot[s] \in {"fork", "check"}
    /\ lock[s] = "sup" <=> sup[s] = "forked"
    /\ lock[s] = "shut" <=> turn[s] = "stop"
    /\ s \in hand => lock[s] \in {"api", "coord"}
    /\ phase = "off" => AtRest(s)
    /\ s \notin known => gen[s] = 0 /\ lock[s] = "free" /\ boot[s] = "none" /\ sup[s] = "none"
                         /\ co[s] = "none"
    /\ turn[s] # "none" => phase \in {"stopping", "exiting"}

\* No process before the bootstrap has forked it.
FreshInv(s) ==
    LET untouched == sup[s] = "none" /\ s \notin chk /\ Booked(s) = {}
    IN  /\ phase = "boot" /\ boot[s] = "none" =>
              untouched /\ lock[s] = "free" /\ (s \in known \cap conf.auto => st[s] = "pending")
        /\ boot[s] = "lock" => untouched /\ lock[s] = "free" /\ st[s] = "pending"
        /\ boot[s] = "fork" => untouched /\ st[s] = "starting"
        /\ boot[s] = "check" => res[s] = gen[s]

\* A process that lives shows in the state of its service, and who is about to fork has
\* seen that there is none.
StateInv(s) ==
    /\ st[s] = "stopping" => lock[s] \in {"stop", "shut"}
    /\ lock[s] \in {"api", "coord"} /\ s \notin hand =>
          Booked(s) = {} /\ st[s] \in {"pending", "down", "failed"}
    /\ sup[s] \in {"backoff", "lock"} /\ s \notin hand => Booked(s) = {}
    /\ Runs /\ lock[s] \notin {"stop", "shut"} /\ Booked(s) # {} => st[s] \in Running

\* Only the latest process of a service is booked: it has the entry, or the one who has
\* forked it will see to it.
BooksInv(s) ==
    /\ alive[s] \subseteq 1..gen[s] /\ reg[s] <= gen[s] /\ res[s] <= gen[s]
    /\ \A g \in Booked(s) :
          /\ g = gen[s]
          /\ \/ reg[s] = g \/ s \in hand \/ sup[s] = "forked"
             \/ boot[s] \in {"check", "result"} /\ res[s] = g

ServiceInv ==
    \A s \in Services : OwnersInv(s) /\ FreshInv(s) /\ StateInv(s) /\ BooksInv(s)

\* What is left of the layers of a plan, and how many are behind.
Behind(plan) == Len(plan) - Len(layers)

Rest(plan) ==
    /\ Behind(plan) \in 0..Len(plan)
    /\ \A i \in 1..Len(layers) : layers[i] = plan[Behind(plan) + i]

\* The bootstrap is where its layers say: those behind, but the last, are done.
BootPlan(cycle) ==
    LET plan == BootLayers(graph, cycle)
    IN  /\ Rest(plan)
        /\ \A s \in Services : boot[s] # "none" <=> \E i \in 1..Behind(plan) : s \in plan[i]
        /\ \A i \in 1..(Behind(plan) - 1) : \A s \in plan[i] : boot[s] = "done"

OrderInv ==
    \E cycle \in DetectCycle(graph) :
        /\ phase = "boot" => BootPlan(cycle)
        /\ \A s \in Services : boot[s] # "none" =>
              /\ s \in Startable(cycle)
              /\ \A d \in graph[s] \cap Startable(cycle) : boot[d] = "done"

\* And so is the shutdown.
StopPlan ==
    LET plan == ReverseLayers(graph)
    IN  /\ Rest(plan)
        /\ \A s \in Services : turn[s] # "none" <=> \E i \in 1..Behind(plan) : s \in plan[i]
        /\ \A i \in 1..(Behind(plan) - 1) : \A s \in plan[i] : turn[s] \in {"skipped", "over"}

\* The order of the turns: what StopsInReverse says without the processes.
TurnsInReverse ==
    Acyclic(graph) =>
        \A s \in DOMAIN graph : turn[s] \in {"lock", "stop", "over"} =>
            \A d \in GetDependents(graph, s) : turn[d] \in {"skipped", "over"}

\* A process the shutdown has stopped does not live on, nor can another take its number.
StoppedInv(s) ==
    /\ stopped[s] <= gen[s]
    /\ turn[s] \in {"none", "skipped", "lock"} => stopped[s] = 0
    /\ turn[s] = "stop" => reg[s] = stopped[s] \/ stopped[s] \notin alive[s]
    /\ turn[s] = "over" => stopped[s] \notin alive[s]

StopInv ==
    /\ \A s \in Services : StoppedInv(s)
    /\ phase = "stopping" => StopPlan
    /\ TurnsInReverse

\* The types, in parts.
FilesType ==
    /\ conf \in Confs /\ known \subseteq Services /\ DOMAIN graph \subseteq Services
    /\ graph = [s \in DOMAIN graph |-> graph[s]]
    /\ phase = "boot" => DOMAIN graph = known
CtlType == phase \in Phase /\ sig \in BOOLEAN /\ layers \in Seq(SUBSET Services)
StateType == st \in [Services -> ServiceState] /\ lock \in [Services -> Holder]
ProcType ==
    /\ gen \in [Services -> 0..MaxGen] /\ alive \in [Services -> SUBSET (1..MaxGen)]
    /\ reg \in [Services -> 0..MaxGen]
SupType == sup \in [Services -> SupPc] /\ org \in [Services -> {"boot", "api"}] /\ chk \subseteq Services
BootType == boot \in [Services -> BootPc] /\ res \in [Services -> 0..MaxGen]
CoType == hand \subseteq Services /\ co \in [Services -> CoPc] /\ missed \subseteq Services
TurnType == turn \in [Services -> TurnPc] /\ stopped \in [Services -> 0..MaxGen]
LostType == lost \subseteq Services \X (1..MaxGen)
BoundType == faults \in 0..MaxFaults /\ requests \in 0..conf.requests /\ boots \in 0..conf.boots

Types ==
    /\ FilesType /\ CtlType /\ StateType /\ ProcType /\ SupType /\ BootType /\ CoType
    /\ TurnType /\ LostType /\ BoundType

IInv == Types /\ BootTimeInv /\ ServiceInv /\ OrderInv /\ StopInv

-----------------------------------------------------------------------------
(* The steps. *)

\* Every step is one of the actions, or nothing happens.
LEMMA NextCases ==
    ASSUME [Next]_vars
    PROVE  \/ vars' = vars
           \/ BootRun \/ BootNextLayer \/ BootDone \/ Enable \/ Scan \/ BootInterrupted
           \/ ShutBegin \/ ShutDrain \/ ShutLayer \/ ShutEnds \/ Deadline \/ Signal \/ Gone
           \/ \E s \in Services :
                 \/ BootStart(s) \/ BootForks(s) \/ BootForkFails(s) \/ BootCheckEnds(s)
                 \/ BootRegisters(s) \/ CoRecheck(s) \/ CoStart(s) \/ CoUnmark(s) \/ ApiStart(s)
                 \/ StartForks(s) \/ StartForkFails(s) \/ StartPublishes(s) \/ ApiStop(s)
                 \/ ApiStopped(s) \/ Discover(s) \/ End(s) \/ SupSees(s) \/ SupBackoffOver(s)
                 \/ SupForks(s) \/ SupForkFails(s) \/ SupPublishes(s) \/ CheckPasses(s)
                 \/ CheckTimesOut(s) \/ CheckStops(s) \/ ShutStops(s) \/ ShutStopped(s)
  BY DEF Next, BootStep, ShutStep, Outside, CoStep, OpStep, SupStep, Exit, Crash

\* Which actions write which variables.
Writers ==
    /\ conf' = conf
    /\ \/ known' = known
       \/ \E s \in Services : Discover(s)
    /\ \/ graph' = graph \/ BootRun \/ Gone
    /\ \/ phase' = phase \/ BootRun \/ BootDone \/ Enable \/ Scan \/ BootInterrupted
       \/ ShutBegin \/ ShutDrain \/ ShutEnds \/ Deadline \/ Gone
    /\ \/ sig' = sig \/ Signal \/ Gone
    /\ \/ layers' = layers \/ BootRun \/ BootNextLayer \/ ShutDrain \/ ShutLayer
       \/ Gone
    /\ \/ UNCHANGED <<turn, stopped>> \/ ShutLayer \/ Gone
       \/ \E s \in Services : ShutStops(s) \/ ShutStopped(s)
    /\ \/ UNCHANGED <<boot, res>> \/ BootNextLayer \/ Gone
       \/ \E s \in Services : BootStart(s) \/ BootForks(s) \/ BootForkFails(s)
            \/ BootCheckEnds(s) \/ BootRegisters(s)
    /\ \/ hand' = hand \/ Gone
       \/ \E s \in Services : StartForks(s) \/ StartPublishes(s)
    /\ \/ gen' = gen
       \/ \E s \in Services : BootForks(s) \/ StartForks(s) \/ SupForks(s)
    /\ \/ alive' = alive \/ BootRun \/ BootInterrupted \/ Deadline
       \/ \E s \in Services : BootForks(s) \/ BootCheckEnds(s) \/ StartForks(s)
            \/ ApiStopped(s) \/ End(s) \/ SupForks(s) \/ CheckTimesOut(s)
            \/ ShutStopped(s)
    /\ \/ reg' = reg \/ BootRun \/ BootInterrupted \/ Deadline
       \/ \E s \in Services : BootRegisters(s) \/ StartPublishes(s) \/ ApiStopped(s)
            \/ SupPublishes(s) \/ ShutStopped(s)
    /\ \/ UNCHANGED <<sup, org, chk>> \/ Gone
       \/ \E s \in Services : BootForks(s) \/ StartPublishes(s) \/ SupSees(s)
            \/ SupBackoffOver(s) \/ SupForks(s) \/ SupForkFails(s) \/ SupPublishes(s)
            \/ CheckPasses(s) \/ CheckTimesOut(s) \/ CheckStops(s)
    /\ \/ UNCHANGED <<co, missed>> \/ Scan \/ Gone
       \/ \E s \in Services : CoRecheck(s) \/ CoStart(s) \/ CoUnmark(s)
            \/ StartForkFails(s) \/ StartPublishes(s) \/ SupPublishes(s)
            \/ CheckPasses(s)
    /\ \/ lost' = lost \/ Gone
       \/ \E s \in Services : BootRegisters(s) \/ SupForks(s)
    /\ \/ st' = st \/ BootRun \/ Gone
       \/ \E s \in Services : BootStart(s) \/ BootForks(s) \/ BootForkFails(s)
            \/ BootCheckEnds(s) \/ StartForks(s) \/ StartForkFails(s) \/ ApiStop(s)
            \/ ApiStopped(s) \/ Discover(s) \/ SupSees(s) \/ SupForks(s)
            \/ SupForkFails(s) \/ CheckPasses(s) \/ CheckTimesOut(s) \/ ShutStops(s)
            \/ ShutStopped(s)
    /\ \/ lock' = lock \/ Gone
       \/ \E s \in Services : BootStart(s) \/ BootForks(s) \/ BootForkFails(s)
            \/ BootCheckEnds(s) \/ CoStart(s) \/ ApiStart(s) \/ StartForkFails(s)
            \/ StartPublishes(s) \/ ApiStop(s) \/ ApiStopped(s) \/ SupForks(s)
            \/ SupPublishes(s) \/ ShutStops(s) \/ ShutStopped(s)
    /\ \/ UNCHANGED <<faults, requests, boots>> \/ BootRun
       \/ \E s \in Services : BootForkFails(s) \/ BootCheckEnds(s) \/ ApiStart(s)
            \/ StartForkFails(s) \/ ApiStop(s) \/ End(s) \/ SupForkFails(s)
            \/ CheckTimesOut(s)

LEMMA WritersAre == [Next]_vars => Writers
<1> SUFFICES ASSUME [Next]_vars PROVE Writers
  OBVIOUS
<1> USE DEF files, ctl, procs, supVars, bootVars, coVars, history, bounds
<1>1. CASE vars' = vars
  BY <1>1 DEF vars, Writers
<1>2. CASE BootRun
  <2>1. UNCHANGED <<conf, known, sig, turn, stopped, boot, res, hand, gen, sup, org, chk, co,
                   missed, lost, lock>>
    BY <1>2 DEF BootRun
  <2> QED
    BY <1>2, <2>1 DEF Writers
<1>3. CASE BootNextLayer
  <2>1. UNCHANGED <<conf, known, graph, phase, sig, turn, stopped, hand, gen, alive, reg, sup,
                    org,
                   chk, co, missed, lost, st, lock, faults, requests, boots>>
    BY <1>3 DEF BootNextLayer
  <2> QED
    BY <1>3, <2>1 DEF Writers
<1>4. CASE BootDone
  <2>1. UNCHANGED <<conf, known, graph, sig, layers, turn, stopped, boot, res, hand, gen, alive,
                   reg, sup, org, chk, co, missed, lost, st, lock, faults, requests, boots>>
    BY <1>4 DEF BootDone
  <2> QED
    BY <1>4, <2>1 DEF Writers
<1>5. CASE Enable
  <2>1. UNCHANGED <<conf, known, graph, sig, layers, turn, stopped, boot, res, hand, gen, alive,
                   reg, sup, org, chk, co, missed, lost, st, lock, faults, requests, boots>>
    BY <1>5 DEF Enable
  <2> QED
    BY <1>5, <2>1 DEF Writers
<1>6. CASE Scan
  <2>1. UNCHANGED <<conf, known, graph, sig, layers, turn, stopped, boot, res, hand, gen, alive,
                   reg, sup, org, chk, lost, st, lock, faults, requests, boots>>
    BY <1>6 DEF Scan
  <2> QED
    BY <1>6, <2>1 DEF Writers
<1>7. CASE BootInterrupted
  <2>1. UNCHANGED <<conf, known, graph, sig, layers, turn, stopped, boot, res, hand, gen, sup,
                    org,
                   chk, co, missed, lost, st, lock, faults, requests, boots>>
    BY <1>7 DEF BootInterrupted
  <2> QED
    BY <1>7, <2>1 DEF Writers
<1>8. CASE ShutBegin
  <2>1. UNCHANGED <<conf, known, graph, sig, layers, turn, stopped, boot, res, hand, gen, alive,
                   reg, sup, org, chk, co, missed, lost, st, lock, faults, requests, boots>>
    BY <1>8 DEF ShutBegin
  <2> QED
    BY <1>8, <2>1 DEF Writers
<1>9. CASE ShutDrain
  <2>1. UNCHANGED <<conf, known, graph, sig, turn, stopped, boot, res, hand, gen, alive, reg,
                    sup,
                   org, chk, co, missed, lost, st, lock, faults, requests, boots>>
    BY <1>9 DEF ShutDrain
  <2> QED
    BY <1>9, <2>1 DEF Writers
<1>10. CASE ShutLayer
  <2>1. UNCHANGED <<conf, known, graph, phase, sig, boot, res, hand, gen, alive, reg, sup, org,
                    chk,
                   co, missed, lost, st, lock, faults, requests, boots>>
    BY <1>10 DEF ShutLayer
  <2> QED
    BY <1>10, <2>1 DEF Writers
<1>11. CASE ShutEnds
  <2>1. UNCHANGED <<conf, known, graph, sig, layers, turn, stopped, boot, res, hand, gen, alive,
                   reg, sup, org, chk, co, missed, lost, st, lock, faults, requests, boots>>
    BY <1>11 DEF ShutEnds
  <2> QED
    BY <1>11, <2>1 DEF Writers
<1>12. CASE Deadline
  <2>1. UNCHANGED <<conf, known, graph, sig, layers, turn, stopped, boot, res, hand, gen, sup,
                    org,
                   chk, co, missed, lost, st, lock, faults, requests, boots>>
    BY <1>12 DEF Deadline
  <2> QED
    BY <1>12, <2>1 DEF Writers
<1>13. CASE Signal
  <2>1. UNCHANGED <<conf, known, graph, phase, layers, turn, stopped, boot, res, hand, gen,
                    alive,
                   reg, sup, org, chk, co, missed, lost, st, lock, faults, requests, boots>>
    BY <1>13 DEF Signal
  <2> QED
    BY <1>13, <2>1 DEF Writers
<1>14. CASE Gone
  <2>1. UNCHANGED <<conf, known, gen, alive, reg, faults, requests, boots>>
    BY <1>14 DEF Gone
  <2> QED
    BY <1>14, <2>1 DEF Writers
<1>15. ASSUME NEW s \in Services, BootStart(s) PROVE Writers
  <2>1. UNCHANGED <<conf, known, graph, phase, sig, layers, turn, stopped, hand, gen, alive,
                    reg,
                   sup, org, chk, co, missed, lost, faults, requests, boots>>
    BY <1>15 DEF BootStart
  <2> QED
    BY <1>15, <2>1 DEF Writers
<1>16. ASSUME NEW s \in Services, BootForks(s) PROVE Writers
  <2>1. UNCHANGED <<conf, known, graph, phase, sig, layers, turn, stopped, hand, reg, co,
                    missed,
                   lost, faults, requests, boots>>
    BY <1>16 DEF BootForks
  <2> QED
    BY <1>16, <2>1 DEF Writers
<1>17. ASSUME NEW s \in Services, BootForkFails(s) PROVE Writers
  <2>1. UNCHANGED <<conf, known, graph, phase, sig, layers, turn, stopped, hand, gen, alive,
                    reg,
                   sup, org, chk, co, missed, lost>>
    BY <1>17 DEF BootForkFails
  <2> QED
    BY <1>17, <2>1 DEF Writers
<1>18. ASSUME NEW s \in Services, BootCheckEnds(s) PROVE Writers
  <2>1. UNCHANGED <<conf, known, graph, phase, sig, layers, turn, stopped, hand, gen, reg, sup,
                    org,
                   chk, co, missed, lost>>
    BY <1>18 DEF BootCheckEnds
  <2> QED
    BY <1>18, <2>1 DEF Writers
<1>19. ASSUME NEW s \in Services, BootRegisters(s) PROVE Writers
  <2>1. UNCHANGED <<conf, known, graph, phase, sig, layers, turn, stopped, hand, gen, alive,
                    sup,
                   org, chk, co, missed, st, lock, faults, requests, boots>>
    BY <1>19 DEF BootRegisters
  <2> QED
    BY <1>19, <2>1 DEF Writers
<1>20. ASSUME NEW s \in Services, CoRecheck(s) PROVE Writers
  <2>1. UNCHANGED <<conf, known, graph, phase, sig, layers, turn, stopped, boot, res, hand, gen,
                   alive, reg, sup, org, chk, lost, st, lock, faults, requests, boots>>
    BY <1>20 DEF CoRecheck
  <2> QED
    BY <1>20, <2>1 DEF Writers
<1>21. ASSUME NEW s \in Services, CoStart(s) PROVE Writers
  <2>1. UNCHANGED <<conf, known, graph, phase, sig, layers, turn, stopped, boot, res, hand, gen,
                   alive, reg, sup, org, chk, lost, st, faults, requests, boots>>
    BY <1>21 DEF CoStart
  <2> QED
    BY <1>21, <2>1 DEF Writers
<1>22. ASSUME NEW s \in Services, CoUnmark(s) PROVE Writers
  <2>1. UNCHANGED <<conf, known, graph, phase, sig, layers, turn, stopped, boot, res, hand, gen,
                   alive, reg, sup, org, chk, lost, st, lock, faults, requests, boots>>
    BY <1>22 DEF CoUnmark
  <2> QED
    BY <1>22, <2>1 DEF Writers
<1>23. ASSUME NEW s \in Services, ApiStart(s) PROVE Writers
  <2>1. UNCHANGED <<conf, known, graph, phase, sig, layers, turn, stopped, boot, res, hand, gen,
                   alive, reg, sup, org, chk, co, missed, lost, st>>
    BY <1>23 DEF ApiStart
  <2> QED
    BY <1>23, <2>1 DEF Writers
<1>24. ASSUME NEW s \in Services, StartForks(s) PROVE Writers
  <2>1. UNCHANGED <<conf, known, graph, phase, sig, layers, turn, stopped, boot, res, reg, sup,
                    org,
                   chk, co, missed, lost, lock, faults, requests, boots>>
    BY <1>24 DEF StartForks
  <2> QED
    BY <1>24, <2>1 DEF Writers
<1>25. ASSUME NEW s \in Services, StartForkFails(s) PROVE Writers
  <2>1. UNCHANGED <<conf, known, graph, phase, sig, layers, turn, stopped, boot, res, hand, gen,
                   alive, reg, sup, org, chk, lost>>
    BY <1>25 DEF StartForkFails
  <2> QED
    BY <1>25, <2>1 DEF Writers
<1>26. ASSUME NEW s \in Services, StartPublishes(s) PROVE Writers
  <2>1. UNCHANGED <<conf, known, graph, phase, sig, layers, turn, stopped, boot, res, gen,
                    alive,
                   lost, st, faults, requests, boots>>
    BY <1>26 DEF StartPublishes
  <2> QED
    BY <1>26, <2>1 DEF Writers
<1>27. ASSUME NEW s \in Services, ApiStop(s) PROVE Writers
  <2>1. UNCHANGED <<conf, known, graph, phase, sig, layers, turn, stopped, boot, res, hand, gen,
                   alive, reg, sup, org, chk, co, missed, lost>>
    BY <1>27 DEF ApiStop
  <2> QED
    BY <1>27, <2>1 DEF Writers
<1>28. ASSUME NEW s \in Services, ApiStopped(s) PROVE Writers
  <2>1. UNCHANGED <<conf, known, graph, phase, sig, layers, turn, stopped, boot, res, hand, gen,
                   sup, org, chk, co, missed, lost, faults, requests, boots>>
    BY <1>28 DEF ApiStopped
  <2> QED
    BY <1>28, <2>1 DEF Writers
<1>29. ASSUME NEW s \in Services, Discover(s) PROVE Writers
  <2>1. UNCHANGED <<conf, graph, phase, sig, layers, turn, stopped, boot, res, hand, gen, alive,
                   reg, sup, org, chk, co, missed, lost, lock, faults, requests, boots>>
    BY <1>29 DEF Discover
  <2> QED
    BY <1>29, <2>1 DEF Writers
<1>30. ASSUME NEW s \in Services, End(s) PROVE Writers
  <2>1. UNCHANGED <<conf, known, graph, phase, sig, layers, turn, stopped, boot, res, hand, gen,
                   reg, sup, org, chk, co, missed, lost, st, lock>>
    BY <1>30 DEF End
  <2> QED
    BY <1>30, <2>1 DEF Writers
<1>31. ASSUME NEW s \in Services, SupSees(s) PROVE Writers
  <2>1. UNCHANGED <<conf, known, graph, phase, sig, layers, turn, stopped, boot, res, hand, gen,
                   alive, reg, co, missed, lost, lock, faults, requests, boots>>
    BY <1>31 DEF SupSees
  <2> QED
    BY <1>31, <2>1 DEF Writers
<1>32. ASSUME NEW s \in Services, SupBackoffOver(s) PROVE Writers
  <2>1. UNCHANGED <<conf, known, graph, phase, sig, layers, turn, stopped, boot, res, hand, gen,
                   alive, reg, co, missed, lost, st, lock, faults, requests, boots>>
    BY <1>32 DEF SupBackoffOver
  <2> QED
    BY <1>32, <2>1 DEF Writers
<1>33. ASSUME NEW s \in Services, SupForks(s) PROVE Writers
  <2>1. UNCHANGED <<conf, known, graph, phase, sig, layers, turn, stopped, boot, res, hand, reg,
                    co,
                   missed, faults, requests, boots>>
    BY <1>33 DEF SupForks
  <2> QED
    BY <1>33, <2>1 DEF Writers
<1>34. ASSUME NEW s \in Services, SupForkFails(s) PROVE Writers
  <2>1. UNCHANGED <<conf, known, graph, phase, sig, layers, turn, stopped, boot, res, hand, gen,
                   alive, reg, co, missed, lost, lock>>
    BY <1>34 DEF SupForkFails
  <2> QED
    BY <1>34, <2>1 DEF Writers
<1>35. ASSUME NEW s \in Services, SupPublishes(s) PROVE Writers
  <2>1. UNCHANGED <<conf, known, graph, phase, sig, layers, turn, stopped, boot, res, hand, gen,
                   alive, lost, st, faults, requests, boots>>
    BY <1>35 DEF SupPublishes
  <2> QED
    BY <1>35, <2>1 DEF Writers
<1>36. ASSUME NEW s \in Services, CheckPasses(s) PROVE Writers
  <2>1. UNCHANGED <<conf, known, graph, phase, sig, layers, turn, stopped, boot, res, hand, gen,
                   alive, reg, lost, lock, faults, requests, boots>>
    BY <1>36 DEF CheckPasses
  <2> QED
    BY <1>36, <2>1 DEF Writers
<1>37. ASSUME NEW s \in Services, CheckTimesOut(s) PROVE Writers
  <2>1. UNCHANGED <<conf, known, graph, phase, sig, layers, turn, stopped, boot, res, hand, gen,
                   reg, co, missed, lost, lock>>
    BY <1>37 DEF CheckTimesOut
  <2> QED
    BY <1>37, <2>1 DEF Writers
<1>38. ASSUME NEW s \in Services, CheckStops(s) PROVE Writers
  <2>1. UNCHANGED <<conf, known, graph, phase, sig, layers, turn, stopped, boot, res, hand, gen,
                   alive, reg, co, missed, lost, st, lock, faults, requests, boots>>
    BY <1>38 DEF CheckStops
  <2> QED
    BY <1>38, <2>1 DEF Writers
<1>39. ASSUME NEW s \in Services, ShutStops(s) PROVE Writers
  <2>1. UNCHANGED <<conf, known, graph, phase, sig, layers, boot, res, hand, gen, alive, reg,
                    sup,
                   org, chk, co, missed, lost, faults, requests, boots>>
    BY <1>39 DEF ShutStops
  <2> QED
    BY <1>39, <2>1 DEF Writers
<1>40. ASSUME NEW s \in Services, ShutStopped(s) PROVE Writers
  <2>1. UNCHANGED <<conf, known, graph, phase, sig, layers, boot, res, hand, gen, sup, org, chk,
                    co,
                   missed, lost, faults, requests, boots>>
    BY <1>40 DEF ShutStopped
  <2> QED
    BY <1>40, <2>1 DEF Writers
<1> QED
  BY <1>1, <1>2, <1>3, <1>4, <1>5, <1>6, <1>7, <1>8, <1>9, <1>10, <1>11, <1>12, <1>13,
  <1>14, <1>15, <1>16, <1>17, <1>18, <1>19, <1>20, <1>21, <1>22, <1>23, <1>24, <1>25, <1>26,
  <1>27, <1>28, <1>29, <1>30, <1>31, <1>32, <1>33, <1>34, <1>35, <1>36, <1>37, <1>38, <1>39,
  <1>40, NextCases

-----------------------------------------------------------------------------
(* Types. *)

\* The state machine knows no other states.
LEMMA FireType ==
    ASSUME NEW w \in ServiceState, NEW e
    PROVE  Fire(w, e) \in ServiceState
  BY DEF Fire, Target, ServiceState

\* The graphs are finite and their plans sequences of sets of services.
LEMMA PlanTypes ==
    ASSUME NEW g, DOMAIN g \subseteq Services
    PROVE  /\ IsFiniteSet(DOMAIN g)
           /\ \A cycle \in DetectCycle(g) : BootLayers(g, cycle) \in Seq(SUBSET Services)
           /\ ReverseLayers(g) \in Seq(SUBSET Services)
<1>1. IsFiniteSet(DOMAIN g)
  BY ServicesAssumption, FS_Subset
<1>2. \A P \in Seq(SUBSET DOMAIN g) : P \in Seq(SUBSET Services)
  OBVIOUS
<1> QED
  BY <1>1, <1>2, BootLayersInOrder, ReverseLayersInReverse DEF InOrder, InReverse

LEMMA WakeableType ==
    ASSUME FilesType, NEW d, NEW w
    PROVE  Wakeable(d, w) \subseteq Services /\ \A m \in Wakeable(d, w) : m \in known
  BY DEF FilesType, Wakeable, CanAutoRecover

LEMMA DependableType ==
    ASSUME FilesType, CoType, NEW d, NEW w, NEW c \in [Services -> CoPc],
           OnServiceDependable(d, w, c)
    PROVE  co' \in [Services -> CoPc] /\ missed' \subseteq Services
<1>1. Wakeable(d, w) \subseteq Services
  BY WakeableType
<1>2. CASE Enabled
  BY <1>1, <1>2 DEF OnServiceDependable, CoPc, CoType
<1>3. CASE ~Enabled
  BY <1>3 DEF OnServiceDependable, CoType
<1> QED
  BY <1>2, <1>3

LEMMA TypesInit == Init => Types
<1> SUFFICES ASSUME Init PROVE Types
  OBVIOUS
<1> USE DEF Init, All
<1>1. conf \in ConfType
  BY ConfsAssumption
<1>2. FilesType
  BY EmptyGraph DEF FilesType
<1>3. CtlType
  <2>1. <<>> \in Seq(SUBSET Services)
    OBVIOUS
  <2> QED
    BY <2>1 DEF CtlType, Phase
<1>4. StateType /\ ProcType /\ LostType
  BY BoundsAssumption DEF StateType, ProcType, LostType, ServiceState, Holder
<1>5. SupType /\ BootType /\ CoType /\ TurnType
  BY BoundsAssumption DEF SupType, BootType, CoType, TurnType, SupPc, BootPc, CoPc, TurnPc
<1>6. BoundType
  BY <1>1, BoundsAssumption DEF BoundType, ConfType
<1> QED
  BY <1>2, <1>3, <1>4, <1>5, <1>6 DEF Types

LEMMA FilesTypeNext == Types /\ [Next]_vars => FilesType'
<1> SUFFICES ASSUME Types, [Next]_vars PROVE FilesType'
  OBVIOUS
<1> USE DEF FilesType
<1>0. FilesType /\ Writers /\ conf' = conf
  BY WritersAre DEF Types, Writers
<1>1. CASE BootRun
  BY <1>0, <1>1 DEF BootRun
<1>2. CASE Gone
  BY <1>0, <1>2, EmptyGraph DEF Gone
<1>3. ASSUME NEW s \in Services, Discover(s) PROVE FilesType'
  BY <1>0, <1>3 DEF Discover, ctl
<1>4. CASE known' = known /\ graph' = graph /\ ~BootRun /\ ~Gone
  <2>1. phase' = phase \/ phase' # "boot"
    BY <1>0, <1>4 DEF Writers, BootDone, Enable, Scan, BootInterrupted, ShutBegin, ShutDrain,
         ShutEnds, Deadline
  <2> QED
    BY <1>0, <1>4, <2>1
<1> QED
  BY <1>0, <1>1, <1>2, <1>3, <1>4 DEF Writers

LEMMA CtlTypeNext == Types /\ [Next]_vars => CtlType'
<1> SUFFICES ASSUME Types, [Next]_vars PROVE CtlType'
  OBVIOUS
<1> USE DEF CtlType
<1>0. CtlType /\ FilesType /\ Writers
  BY WritersAre DEF Types, Writers
<1>1. phase' \in Phase
  BY <1>0 DEF Writers, BootRun, BootDone, Enable, Scan, BootInterrupted, ShutBegin, ShutDrain,
       ShutEnds, Deadline, Gone, Phase
<1>2. sig' \in BOOLEAN
  BY <1>0 DEF Writers, Signal, Gone
<1>3. layers' \in Seq(SUBSET Services)
  <2>1. CASE BootRun
    <3>1. DOMAIN graph' \subseteq Services /\ \E cycle \in DetectCycle(graph') : layers' = BootLayers(graph', cycle)
      BY <1>0, <2>1 DEF BootRun, FilesType
    <3> QED
      BY <3>1, PlanTypes
  <2>2. CASE ShutDrain
    BY <1>0, <2>2, PlanTypes DEF ShutDrain, FilesType
  <2>3. CASE Gone
    <3>1. <<>> \in Seq(SUBSET Services)
      OBVIOUS
    <3> QED
      BY <2>3, <3>1 DEF Gone
  <2>4. CASE layers # <<>> /\ layers' = Tail(layers)
    BY <1>0, <2>4, HeadTailProperties
  <2> QED
    BY <1>0, <2>1, <2>2, <2>3, <2>4 DEF Writers, BootNextLayer, ShutLayer
<1> QED
  BY <1>1, <1>2, <1>3

LEMMA StateTypeNext == Types /\ [Next]_vars => StateType'
<1> SUFFICES ASSUME Types, [Next]_vars PROVE StateType'
  OBVIOUS
<1> USE DEF StateType, Set, All, ServiceState, Holder
<1>0. StateType /\ Writers
  BY WritersAre DEF Types, Writers
<1>1. CASE BootRun
  BY <1>0, <1>1, FireType DEF BootRun
<1>2. CASE Gone
  BY <1>0, <1>2, FireType DEF Gone
<1>3. ASSUME NEW s \in Services, BootStart(s) PROVE StateType'
  BY <1>0, <1>3, FireType DEF BootStart
<1>4. ASSUME NEW s \in Services, BootForks(s) PROVE StateType'
  BY <1>0, <1>4, FireType DEF BootForks
<1>5. ASSUME NEW s \in Services, BootForkFails(s) PROVE StateType'
  BY <1>0, <1>5, FireType DEF BootForkFails
<1>6. ASSUME NEW s \in Services, BootCheckEnds(s) PROVE StateType'
  BY <1>0, <1>6, FireType DEF BootCheckEnds
<1>7. ASSUME NEW s \in Services, CoStart(s) PROVE StateType'
  BY <1>0, <1>7, FireType DEF CoStart
<1>8. ASSUME NEW s \in Services, ApiStart(s) PROVE StateType'
  BY <1>0, <1>8, FireType DEF ApiStart
<1>9. ASSUME NEW s \in Services, StartForks(s) PROVE StateType'
  BY <1>0, <1>9, FireType DEF StartForks, Starting
<1>10. ASSUME NEW s \in Services, StartForkFails(s) PROVE StateType'
  BY <1>0, <1>10, FireType DEF StartForkFails, LetGo, Starting
<1>11. ASSUME NEW s \in Services, StartPublishes(s) PROVE StateType'
  BY <1>0, <1>11, FireType DEF StartPublishes, LetGo
<1>12. ASSUME NEW s \in Services, ApiStop(s) PROVE StateType'
  BY <1>0, <1>12, FireType DEF ApiStop
<1>13. ASSUME NEW s \in Services, ApiStopped(s) PROVE StateType'
  BY <1>0, <1>13, FireType DEF ApiStopped, Stopped, LetGo
<1>14. ASSUME NEW s \in Services, Discover(s) PROVE StateType'
  BY <1>0, <1>14, FireType DEF Discover
<1>15. ASSUME NEW s \in Services, SupSees(s) PROVE StateType'
  BY <1>0, <1>15, FireType DEF SupSees
<1>16. ASSUME NEW s \in Services, SupForks(s) PROVE StateType'
  BY <1>0, <1>16, FireType DEF SupForks
<1>17. ASSUME NEW s \in Services, SupForkFails(s) PROVE StateType'
  BY <1>0, <1>17, FireType DEF SupForkFails
<1>18. ASSUME NEW s \in Services, SupPublishes(s) PROVE StateType'
  BY <1>0, <1>18, FireType DEF SupPublishes, LetGo
<1>19. ASSUME NEW s \in Services, CheckPasses(s) PROVE StateType'
  BY <1>0, <1>19, FireType DEF CheckPasses
<1>20. ASSUME NEW s \in Services, CheckTimesOut(s) PROVE StateType'
  BY <1>0, <1>20, FireType DEF CheckTimesOut
<1>21. ASSUME NEW s \in Services, ShutStops(s) PROVE StateType'
  BY <1>0, <1>21, FireType DEF ShutStops
<1>22. ASSUME NEW s \in Services, ShutStopped(s) PROVE StateType'
  BY <1>0, <1>22, FireType DEF ShutStopped, Stopped, LetGo
<1> QED
    BY <1>0, <1>1, <1>2, <1>3, <1>4, <1>5, <1>6, <1>7, <1>8, <1>9, <1>10, <1>11, <1>12,
  <1>13, <1>14, <1>15, <1>16, <1>17, <1>18, <1>19, <1>20, <1>21, <1>22 DEF Writers


LEMMA ProcTypeNext == Types /\ [Next]_vars => ProcType'
<1> SUFFICES ASSUME Types, [Next]_vars PROVE ProcType'
  OBVIOUS
<1> USE DEF ProcType, Set, All, procs, BootType
<1>0. ProcType /\ BootType /\ MaxGen \in Nat /\ MaxFaults \in Nat /\ Writers
  BY WritersAre, BoundsAssumption DEF Types, Writers
<1>1. CASE BootRun
  BY <1>0, <1>1 DEF BootRun, ReapOrphans
<1>2. CASE BootInterrupted
  BY <1>0, <1>2 DEF BootInterrupted, KillRegistered
<1>3. CASE Deadline
  BY <1>0, <1>3 DEF Deadline, KillRegistered
<1>4. ASSUME NEW s \in Services, BootForks(s) PROVE ProcType'
  BY <1>0, <1>4 DEF BootForks, Fork
<1>5. ASSUME NEW s \in Services, BootCheckEnds(s) PROVE ProcType'
  BY <1>0, <1>5 DEF BootCheckEnds
<1>6. ASSUME NEW s \in Services, BootRegisters(s) PROVE ProcType'
  BY <1>0, <1>6 DEF BootRegisters
<1>7. ASSUME NEW s \in Services, StartForks(s) PROVE ProcType'
  BY <1>0, <1>7 DEF StartForks, Fork
<1>8. ASSUME NEW s \in Services, StartPublishes(s) PROVE ProcType'
  BY <1>0, <1>8 DEF StartPublishes
<1>9. ASSUME NEW s \in Services, ApiStopped(s) PROVE ProcType'
  BY <1>0, <1>9 DEF ApiStopped, Stopped
<1>10. ASSUME NEW s \in Services, End(s) PROVE ProcType'
  BY <1>0, <1>10 DEF End
<1>11. ASSUME NEW s \in Services, SupForks(s) PROVE ProcType'
  BY <1>0, <1>11 DEF SupForks, Fork
<1>12. ASSUME NEW s \in Services, SupPublishes(s) PROVE ProcType'
  BY <1>0, <1>12 DEF SupPublishes
<1>13. ASSUME NEW s \in Services, CheckTimesOut(s) PROVE ProcType'
  BY <1>0, <1>13 DEF CheckTimesOut
<1>14. ASSUME NEW s \in Services, ShutStopped(s) PROVE ProcType'
  BY <1>0, <1>14 DEF ShutStopped, Stopped
<1> QED
    BY <1>0, <1>1, <1>2, <1>3, <1>4, <1>5, <1>6, <1>7, <1>8, <1>9, <1>10, <1>11, <1>12,
  <1>13, <1>14 DEF Writers


LEMMA SupTypeNext == Types /\ [Next]_vars => SupType'
<1> SUFFICES ASSUME Types, [Next]_vars PROVE SupType'
  OBVIOUS
<1> USE DEF SupType, Set, All, SupPc, supVars
<1>0. SupType /\ Writers
  BY WritersAre DEF Types, Writers
<1>1. CASE Gone
  BY <1>0, <1>1 DEF Gone
<1>2. ASSUME NEW s \in Services, BootForks(s) PROVE SupType'
  BY <1>0, <1>2 DEF BootForks, Fork
<1>3. ASSUME NEW s \in Services, StartPublishes(s) PROVE SupType'
  BY <1>0, <1>3 DEF StartPublishes
<1>4. ASSUME NEW s \in Services, SupSees(s) PROVE SupType'
  BY <1>0, <1>4 DEF SupSees
<1>5. ASSUME NEW s \in Services, SupBackoffOver(s) PROVE SupType'
  BY <1>0, <1>5 DEF SupBackoffOver
<1>6. ASSUME NEW s \in Services, SupForks(s) PROVE SupType'
  BY <1>0, <1>6 DEF SupForks, Fork
<1>7. ASSUME NEW s \in Services, SupForkFails(s) PROVE SupType'
  BY <1>0, <1>7 DEF SupForkFails
<1>8. ASSUME NEW s \in Services, SupPublishes(s) PROVE SupType'
  BY <1>0, <1>8 DEF SupPublishes
<1>9. ASSUME NEW s \in Services, CheckPasses(s) PROVE SupType'
  BY <1>0, <1>9 DEF CheckPasses
<1>10. ASSUME NEW s \in Services, CheckTimesOut(s) PROVE SupType'
  BY <1>0, <1>10 DEF CheckTimesOut
<1>11. ASSUME NEW s \in Services, CheckStops(s) PROVE SupType'
  BY <1>0, <1>11 DEF CheckStops
<1> QED
    BY <1>0, <1>1, <1>2, <1>3, <1>4, <1>5, <1>6, <1>7, <1>8, <1>9, <1>10, <1>11 DEF
  Writers


LEMMA BootTypeNext == Types /\ [Next]_vars => BootType'
<1> SUFFICES ASSUME Types, [Next]_vars PROVE BootType'
  OBVIOUS
<1> USE DEF BootType, Set, All, BootPc, bootVars, procs, ProcType
<1>0. BootType /\ ProcType /\ MaxGen \in Nat /\ MaxFaults \in Nat /\ Writers
  BY WritersAre, BoundsAssumption DEF Types, Writers
<1>1. CASE BootNextLayer
  BY <1>0, <1>1 DEF BootNextLayer
<1>2. CASE Gone
  BY <1>0, <1>2 DEF Gone
<1>3. ASSUME NEW s \in Services, BootStart(s) PROVE BootType'
  BY <1>0, <1>3 DEF BootStart
<1>4. ASSUME NEW s \in Services, BootForks(s) PROVE BootType'
  BY <1>0, <1>4 DEF BootForks, Fork
<1>5. ASSUME NEW s \in Services, BootForkFails(s) PROVE BootType'
  BY <1>0, <1>5 DEF BootForkFails
<1>6. ASSUME NEW s \in Services, BootCheckEnds(s) PROVE BootType'
  BY <1>0, <1>6 DEF BootCheckEnds
<1>7. ASSUME NEW s \in Services, BootRegisters(s) PROVE BootType'
  BY <1>0, <1>7 DEF BootRegisters
<1> QED
    BY <1>0, <1>1, <1>2, <1>3, <1>4, <1>5, <1>6, <1>7 DEF Writers


LEMMA TurnTypeNext == Types /\ [Next]_vars => TurnType'
<1> SUFFICES ASSUME Types, [Next]_vars PROVE TurnType'
  OBVIOUS
<1> USE DEF TurnType, Set, All, TurnPc, history, ProcType
<1>0. TurnType /\ ProcType /\ MaxGen \in Nat /\ MaxFaults \in Nat /\ Writers
  BY WritersAre, BoundsAssumption DEF Types, Writers
<1>1. CASE ShutLayer
  BY <1>0, <1>1 DEF ShutLayer
<1>2. CASE Gone
  BY <1>0, <1>2 DEF Gone
<1>3. ASSUME NEW s \in Services, ShutStops(s) PROVE TurnType'
  BY <1>0, <1>3 DEF ShutStops
<1>4. ASSUME NEW s \in Services, ShutStopped(s) PROVE TurnType'
  BY <1>0, <1>4 DEF ShutStopped
<1> QED
    BY <1>0, <1>1, <1>2, <1>3, <1>4 DEF Writers


LEMMA LostTypeNext == Types /\ [Next]_vars => LostType'
<1> SUFFICES ASSUME Types, [Next]_vars PROVE LostType'
  OBVIOUS
<1> USE DEF LostType, ProcType, BootType, procs, history
<1>0. LostType /\ ProcType /\ BootType /\ MaxGen \in Nat /\ MaxFaults \in Nat /\ Writers
  BY WritersAre, BoundsAssumption DEF Types, Writers
<1>1. CASE Gone
  BY <1>0, <1>1 DEF Gone, InHand, Lives
<1>2. ASSUME NEW s \in Services, BootRegisters(s) PROVE LostType'
  BY <1>0, <1>2 DEF BootRegisters
<1>3. ASSUME NEW s \in Services, SupForks(s) PROVE LostType'
  BY <1>0, <1>3 DEF SupForks, Fork
<1> QED
    BY <1>0, <1>1, <1>2, <1>3 DEF Writers


LEMMA BoundTypeNext == Types /\ [Next]_vars => BoundType'
<1> SUFFICES ASSUME Types, [Next]_vars PROVE BoundType'
  OBVIOUS
<1> USE DEF BoundType, FilesType, bounds
<1>0. BoundType /\ conf' = conf /\ conf \in ConfType /\ MaxGen \in Nat /\ MaxFaults \in Nat /\ Writers
  BY WritersAre, ConfsAssumption, BoundsAssumption DEF Types, Writers
<1>a. conf.requests \in Nat /\ conf.boots \in Nat
  BY <1>0 DEF ConfType
<1>1. CASE BootRun
  BY <1>0, <1>a, <1>1 DEF BootRun
<1>2. ASSUME NEW s \in Services, BootForkFails(s) PROVE BoundType'
  BY <1>0, <1>a, <1>2 DEF BootForkFails, NoFork, Fault
<1>3. ASSUME NEW s \in Services, BootCheckEnds(s) PROVE BoundType'
  BY <1>0, <1>a, <1>3 DEF BootCheckEnds, Fault
<1>4. ASSUME NEW s \in Services, ApiStart(s) PROVE BoundType'
  BY <1>0, <1>a, <1>4 DEF ApiStart
<1>5. ASSUME NEW s \in Services, StartForkFails(s) PROVE BoundType'
  BY <1>0, <1>a, <1>5 DEF StartForkFails, NoFork, Fault
<1>6. ASSUME NEW s \in Services, ApiStop(s) PROVE BoundType'
  BY <1>0, <1>a, <1>6 DEF ApiStop
<1>7. ASSUME NEW s \in Services, End(s) PROVE BoundType'
  BY <1>0, <1>a, <1>7 DEF End, Fault
<1>8. ASSUME NEW s \in Services, SupForkFails(s) PROVE BoundType'
  BY <1>0, <1>a, <1>8 DEF SupForkFails, NoFork, Fault
<1>9. ASSUME NEW s \in Services, CheckTimesOut(s) PROVE BoundType'
  BY <1>0, <1>a, <1>9 DEF CheckTimesOut, Fault
<1> QED
    BY <1>0, <1>1, <1>2, <1>3, <1>4, <1>5, <1>6, <1>7, <1>8, <1>9 DEF Writers

LEMMA CoTypeNext == Types /\ [Next]_vars => CoType'
<1> SUFFICES ASSUME Types, [Next]_vars PROVE CoType'
  OBVIOUS
<1> USE DEF Set, All, CoPc
<1>0. CoType /\ FilesType /\ Writers
  BY WritersAre DEF Types, Writers
<1>a. hand' \subseteq Services
  BY <1>0 DEF CoType, Writers, Gone, StartForks, StartPublishes
<1>b. \A s \in Services : CoDone(s) \in [Services -> CoPc]
  BY <1>0 DEF CoType, CoDone
<1> DEFINE Goal == co' \in [Services -> CoPc] /\ missed' \subseteq Services
<1>1. ASSUME Scan PROVE Goal
  <2>1. missed' \subseteq missed
    BY <1>1 DEF Scan
  <2>2. co' \in [Services -> CoPc]
    BY <1>0, <1>1 DEF Scan, CoType
  <2> QED
    BY <1>0, <2>1, <2>2 DEF CoType
<1>2. ASSUME Gone PROVE Goal
  BY <1>2 DEF Gone
<1>3. ASSUME NEW s \in Services, CoRecheck(s) PROVE Goal
  BY <1>0, <1>3 DEF CoRecheck, CoType, history
<1>4. ASSUME NEW s \in Services, CoStart(s) PROVE Goal
  BY <1>0, <1>4 DEF CoStart, CoType, history
<1>5. ASSUME NEW s \in Services, CoUnmark(s) PROVE Goal
  BY <1>0, <1>5 DEF CoUnmark, CoType, history
<1>6. ASSUME NEW s \in Services, StartForkFails(s) PROVE Goal
  BY <1>0, <1>6, <1>b DEF StartForkFails, CoType, history
<1>7. ASSUME NEW s \in Services, StartPublishes(s) PROVE Goal
  BY <1>0, <1>7, <1>b, DependableType DEF StartPublishes, CoType
<1>8. ASSUME NEW s \in Services, SupPublishes(s) PROVE Goal
  <2>1. co \in [Services -> CoPc] /\ missed \subseteq Services
    BY <1>0 DEF CoType
  <2>2. CASE OnServiceDependable(s, st, co)
    BY <1>0, <2>1, <2>2, DependableType
  <2>3. CASE NobodyTold(s, st)
    BY <1>0, <2>1, <2>3, WakeableType DEF NobodyTold
  <2> QED
    BY <1>8, <2>1, <2>2, <2>3 DEF SupPublishes
<1>9. ASSUME NEW s \in Services, CheckPasses(s) PROVE Goal
  <2>1. co \in [Services -> CoPc] /\ missed \subseteq Services
    BY <1>0 DEF CoType
  <2>2. CASE OnServiceDependable(s, st', co)
    BY <1>0, <2>1, <2>2, DependableType
  <2>3. CASE NobodyTold(s, st')
    BY <1>0, <2>1, <2>3, WakeableType DEF NobodyTold
  <2> QED
    BY <1>9, <2>1, <2>2, <2>3 DEF CheckPasses
<1>10. Goal
  BY <1>0, <1>1, <1>2, <1>3, <1>4, <1>5, <1>6, <1>7, <1>8, <1>9 DEF Writers, CoType
<1> QED
  BY <1>a, <1>10 DEF CoType

LEMMA TypesNext == Types /\ [Next]_vars => Types'
  BY FilesTypeNext, CtlTypeNext, StateTypeNext, ProcTypeNext, SupTypeNext, BootTypeNext,
     CoTypeNext, TurnTypeNext, LostTypeNext, BoundTypeNext DEF Types

\* Every variable of Daemon has its type, in every reachable state.
THEOREM TypeCorrect == Spec => []TypeOK
<1>1. Types => TypeOK
  <2> SUFFICES ASSUME Types PROVE TypeOK
    OBVIOUS
  <2>1. \A k \in DOMAIN layers : layers[k] \subseteq Services
    BY ElementOfSeq, LenProperties DEF Types, CtlType
  <2> QED
    BY <2>1 DEF Types, FilesType, CtlType, StateType, ProcType, SupType, BootType, CoType,
         TurnType, LostType, BoundType, TypeOK
<1> QED
  BY <1>1, TypesInit, TypesNext, PTL DEF Spec

-----------------------------------------------------------------------------
(* The time of the bootstrap. *)

\* It begins with Bootstrap.Run.
LEMMA BootTimeBegins ==
    ASSUME Types, Writers, BootTime', ~BootTime
    PROVE  BootRun
<1>1. boot \in [Services -> BootPc]
  BY DEF Types, BootType
<1>2. \A s \in Services : boot[s] \in {"none", "done"}
  BY DEF BootTime
<1>3. phase # "boot"
  BY DEF BootTime
<1>4. phase' = "boot" => BootRun
  BY <1>3 DEF Writers, BootDone, Enable, Scan, BootInterrupted, ShutBegin, ShutDrain, ShutEnds,
     Deadline, Gone
<1>5. boot' = boot \/ Gone
  BY <1>2, <1>3 DEF Writers, BootNextLayer, BootStart, BootForks, BootForkFails, BootCheckEnds,
     BootRegisters
<1>6. ~Gone
  BY DEF Gone, BootTime, All
<1> QED
  BY <1>2, <1>4, <1>5, <1>6 DEF BootTime

LEMMA BootTimeNext == IInv /\ Types' /\ [Next]_vars => BootTimeInv'
<1> SUFFICES ASSUME IInv, Types', [Next]_vars, BootTime'
             PROVE  /\ phase' \in {"boot", "exiting"}
                    /\ \A s \in Services : /\ org'[s] = "boot" /\ s \notin hand' /\ co'[s] = "none"
                                           /\ turn'[s] = "none" /\ lock'[s] \in {"free", "boot", "sup"}
  BY DEF BootTimeInv
<1>0. Types /\ Writers /\ ServiceInv /\ BootTimeInv
  BY WritersAre DEF IInv
<1>1. CASE BootRun
  BY <1>0, <1>1 DEF BootRun, ServiceInv, OwnersInv, AtRest, supVars, coVars
<1>2. CASE ~BootRun
  <2>1. BootTime
    BY <1>0, <1>2, BootTimeBegins
  <2>2. /\ phase \in {"boot", "exiting"}
        /\ \A s \in Services : /\ org[s] = "boot" /\ s \notin hand /\ co[s] = "none"
                               /\ turn[s] = "none" /\ lock[s] \in {"free", "boot", "sup"}
    BY <1>0, <2>1 DEF BootTimeInv
  <2>3. ~Gone
    BY DEF Gone, BootTime, All
  <2>4. ~BootDone
    BY DEF BootDone, BootTime, bootVars
  <2>5. phase' \in {"boot", "exiting"}
    BY <1>0, <1>2, <2>2, <2>3, <2>4 DEF Writers, Enable, Scan, BootInterrupted, ShutBegin,
       ShutDrain, ShutEnds, Deadline
  <2>6. hand' = hand
    BY <1>0, <2>2, <2>3 DEF Writers, StartForks, StartPublishes
  <2>7. turn' = turn
    BY <1>0, <2>2, <2>3 DEF Writers, ShutLayer, ShutStops, ShutStopped
  <2>8. \A s \in Services : org'[s] = "boot"
    <3>1. ASSUME NEW s \in Services, BootForks(s) PROVE \A r \in Services : org'[r] = "boot"
      BY <1>0, <2>2, <3>1 DEF BootForks, Set, Types, SupType
    <3>2. ASSUME NEW s \in Services, StartPublishes(s) PROVE FALSE
      BY <2>2, <3>2 DEF StartPublishes
    <3>3. org' = org \/ \E s \in Services : BootForks(s)
      BY <1>0, <2>3, <3>2 DEF Writers, SupSees, SupBackoffOver, SupForks, SupForkFails,
         SupPublishes, CheckPasses, CheckTimesOut, CheckStops
    <3> QED
      BY <2>2, <3>1, <3>3
  <2>9. co' = co
    <3>1. \A s \in Services : /\ ~CoRecheck(s) /\ ~CoStart(s) /\ ~CoUnmark(s) /\ ~StartForkFails(s)
                              /\ ~StartPublishes(s)
      BY <2>2 DEF CoRecheck, CoStart, CoUnmark, StartForkFails, StartPublishes
    <3>2. \A s \in Services : SupPublishes(s) => co' = co
      BY <2>2 DEF SupPublishes, NobodyTold
    <3>3. \A s \in Services : CheckPasses(s) => co' = co
      BY <2>2 DEF CheckPasses, NobodyTold
    <3>4. ~Scan
      BY <2>2 DEF Scan
    <3> QED
      BY <1>0, <2>3, <3>1, <3>2, <3>3, <3>4 DEF Writers
  <2>10. \A s \in Services : lock'[s] \in {"free", "boot", "sup"}
    <3>1. \A s \in Services : /\ ~CoStart(s) /\ ~ApiStart(s) /\ ~StartForkFails(s)
                              /\ ~StartPublishes(s) /\ ~ApiStop(s) /\ ~ApiStopped(s)
                              /\ ~ShutStops(s) /\ ~ShutStopped(s)
      BY <2>2 DEF CoStart, ApiStart, StartForkFails, StartPublishes, ApiStop, ApiStopped,
         ShutStops, ShutStopped, Open
    <3>2. \A s \in Services : BootStart(s) \/ BootForks(s) \/ BootForkFails(s) \/ BootCheckEnds(s)
                               \/ SupForks(s) \/ SupPublishes(s) =>
             \E h \in {"free", "boot", "sup"} : lock' = [lock EXCEPT ![s] = h] \/ lock' = lock
      BY DEF BootStart, BootForks, BootForkFails, BootCheckEnds, SupForks, SupPublishes, Set,
         LetGo
    <3>3. \/ lock' = lock
          \/ \E s \in Services : \E h \in {"free", "boot", "sup"} : lock' = [lock EXCEPT ![s] = h]
      BY <1>0, <2>3, <3>1, <3>2 DEF Writers
    <3>4. lock \in [Services -> Holder]
      BY <1>0 DEF Types, StateType
    <3> QED
      BY <2>2, <3>3, <3>4
  <2> QED
    BY <2>2, <2>5, <2>6, <2>7, <2>8, <2>9, <2>10
<1> QED
  BY <1>1, <1>2

-----------------------------------------------------------------------------
(* Where the bootstrap and the shutdown are in their plans. *)

\* The next layer is the one after those that are behind.
LEMMA RestNext ==
    ASSUME NEW P, NEW L, NEW S, P \in Seq(S), L \in Seq(S), L # <<>>,
           Len(P) - Len(L) \in 0..Len(P),
           \A i \in 1..Len(L) : L[i] = P[Len(P) - Len(L) + i]
    PROVE  LET b == Len(P) - Len(L)
           IN  /\ b + 1 \in 1..Len(P) /\ Head(L) = P[b + 1]
               /\ Tail(L) \in Seq(S) /\ Len(P) - Len(Tail(L)) = b + 1
               /\ \A i \in 1..Len(Tail(L)) : Tail(L)[i] = P[b + 1 + i]
<1> DEFINE b == Len(P) - Len(L)
<1>1. Len(P) \in Nat /\ Len(L) \in Nat /\ Len(L) # 0
  BY LenProperties, EmptySeq
<1>2. Len(Tail(L)) = Len(L) - 1 /\ Tail(L) \in Seq(S) /\ Head(L) = L[1]
  BY HeadTailProperties
<1>3. b \in Int /\ b + 1 \in 1..Len(P) /\ Head(L) = P[b + 1]
  BY <1>1, <1>2
<1>4. \A i \in 1..Len(Tail(L)) : Tail(L)[i] = P[b + 1 + i]
  <2> SUFFICES ASSUME NEW i \in 1..Len(Tail(L)) PROVE Tail(L)[i] = P[b + 1 + i]
    OBVIOUS
  <2>1. i + 1 \in 1..Len(L) /\ Tail(L)[i] = L[i + 1]
    BY <1>1, <1>2, HeadTailProperties
  <2>2. b + (i + 1) = b + 1 + i
    BY <1>3
  <2> QED
    BY <2>1, <2>2
<1>5. Len(P) - Len(Tail(L)) = b + 1
  BY <1>1, <1>2
<1> QED
  BY <1>2, <1>3, <1>4, <1>5

\* The plan of the bootstrap, for a cycle it may have met.
LEMMA BootPlanType ==
    ASSUME Types, NEW cycle \in DetectCycle(graph)
    PROVE  /\ BootLayers(graph, cycle) \in Seq(SUBSET Services)
           /\ InOrder(graph, cycle, BootLayers(graph, cycle))
           /\ StartableIn(graph, cycle) = Startable(cycle)
<1>1. DOMAIN graph \subseteq Services
  BY DEF Types, FilesType
<1> QED
  BY <1>1, PlanTypes, BootLayersInOrder DEF StartableIn, Startable

\* The next layer is of services that have not been touched and are to be started, after
\* all they depend on.
LEMMA NextLayer ==
    ASSUME Types, OrderInv, BootNextLayer
    PROVE  \A s \in Head(layers) :
              boot[s] = "none" /\ s \in known /\ s \in conf.auto
<1>1. phase = "boot" /\ layers # <<>> /\ layers \in Seq(SUBSET Services) /\ DOMAIN graph = known
  BY DEF BootNextLayer, Types, CtlType, FilesType
<1>2. PICK cycle \in DetectCycle(graph) : BootPlan(cycle)
  BY <1>1 DEF OrderInv
<1> DEFINE P == BootLayers(graph, cycle)
           b == Behind(P)
<1>3. P \in Seq(SUBSET Services) /\ InOrder(graph, cycle, P)
  BY BootPlanType
<1>4. b \in 0..Len(P) /\ \A i \in 1..Len(layers) : layers[i] = P[b + i]
  BY <1>2 DEF BootPlan, Rest
<1>5. \A s \in Services : boot[s] # "none" => \E i \in 1..b : s \in P[i]
  BY <1>2 DEF BootPlan
<1> HIDE DEF P
<1>6. b + 1 \in 1..Len(P) /\ Head(layers) = P[b + 1]
  BY <1>1, <1>3, <1>4, RestNext DEF Behind
<1>7. Len(P) \in Nat
  BY <1>3
<1> HIDE DEF b
<1> SUFFICES ASSUME NEW s \in Head(layers)
             PROVE  boot[s] = "none" /\ s \in known /\ s \in conf.auto
  OBVIOUS
<1>8. s \in StartableIn(graph, cycle)
  BY <1>3, <1>6 DEF InOrder
<1>9. s \in known /\ s \in conf.auto
  BY <1>1, <1>8 DEF StartableIn
<1>10. ~\E i \in 1..b : s \in P[i]
  <2> SUFFICES ASSUME NEW i \in 1..b, s \in P[i] PROVE FALSE
    OBVIOUS
  <2>1. i \in 1..Len(P) /\ i < b + 1
    BY <1>4, <1>7
  <2>2. P[i] \cap P[b + 1] = {}
    BY <1>3, <1>6, <2>1 DEF InOrder
  <2> QED
    BY <2>2, <1>6
<1>11. s \in Services
  BY <1>9 DEF Types, FilesType
<1> QED
  BY <1>5, <1>9, <1>10, <1>11

-----------------------------------------------------------------------------
(* The services, each by itself. *)

SInv(s) == OwnersInv(s) /\ FreshInv(s) /\ StateInv(s) /\ BooksInv(s)

\* A step that is none of this service's: the coordinator at most marks it.
Still(s) ==
    /\ st'[s] = st[s] /\ lock'[s] = lock[s]
    /\ gen'[s] = gen[s] /\ alive'[s] = alive[s] /\ reg'[s] = reg[s]
    /\ sup'[s] = sup[s] /\ org'[s] = org[s] /\ (s \in chk' <=> s \in chk)
    /\ boot'[s] = boot[s] /\ res'[s] = res[s]
    /\ (s \in hand' <=> s \in hand) /\ turn'[s] = turn[s]
    /\ co'[s] = co[s] \/ (phase # "off" /\ s \in known)
    /\ (s \in known' <=> s \in known)
    /\ \A g : <<s, g>> \in lost' <=> <<s, g>> \in lost

\* supd goes on, to another phase or not, but not back to an earlier one.
GoesOn ==
    \/ phase' = phase
    \/ /\ phase # "off" /\ phase' \notin {"off", "boot"}
       /\ phase \in {"stopping", "exiting"} => phase' \in {"stopping", "exiting"}

LEMMA SInvStill ==
    ASSUME NEW s \in Services, SInv(s), Still(s), GoesOn, conf' = conf
    PROVE  SInv(s)'
<1>1. Booked(s)' = Booked(s)
  BY DEF Still, Booked
<1>2. OwnersInv(s)'
  BY DEF SInv, Still, GoesOn, OwnersInv, AtRest
<1>3. FreshInv(s)'
  BY <1>1 DEF SInv, Still, GoesOn, FreshInv
<1>4. StateInv(s)'
  BY <1>1 DEF SInv, Still, GoesOn, StateInv, Runs
<1>5. BooksInv(s)'
  BY <1>1 DEF SInv, Still, BooksInv
<1> QED
  BY <1>2, <1>3, <1>4, <1>5 DEF SInv

\* When one service moves it is enough to look at that one.
LEMMA OneMoves ==
    ASSUME NEW s \in Services, ServiceInv, GoesOn, conf' = conf, SInv(s)',
           \A r \in Services \ {s} : Still(r)
    PROVE  ServiceInv'
  BY SInvStill DEF ServiceInv, SInv

LEMMA NoneMoves ==
    ASSUME ServiceInv, GoesOn, conf' = conf, \A r \in Services : Still(r)
    PROVE  ServiceInv'
  BY SInvStill DEF ServiceInv, SInv

LEMMA TypesOf ==
    ASSUME Types, NEW s \in Services
    PROVE  /\ st[s] \in ServiceState /\ lock[s] \in Holder /\ sup[s] \in SupPc
           /\ boot[s] \in BootPc /\ turn[s] \in TurnPc /\ co[s] \in CoPc
           /\ gen[s] \in Nat /\ reg[s] \in Nat /\ res[s] \in Nat /\ stopped[s] \in Nat
           /\ alive[s] \subseteq Nat
  BY BoundsAssumption DEF Types, StateType, SupType, BootType, TurnType, CoType, ProcType

\* The coordinator marks only services there are.
LEMMA Marks ==
    ASSUME Types, NEW d, NEW w, NEW c \in [Services -> CoPc],
           OnServiceDependable(d, w, c) \/ (NobodyTold(d, w) /\ c = co), NEW r \in Services
    PROVE  co'[r] = c[r] \/ r \in known
  BY WakeableType DEF Types, OnServiceDependable, NobodyTold

LEMMA BootStartKeeps ==
    ASSUME IInv, NEW s \in Services, BootStart(s)
    PROVE  ServiceInv'
<1> USE DEF files, ctl, procs, supVars, bootVars, coVars, history, bounds
<1>1. SInv(s) /\ Types /\ ServiceInv /\ BootTimeInv /\ GoesOn /\ conf' = conf
  BY DEF IInv, ServiceInv, SInv, GoesOn, BootStart
<1>2. /\ lock[s] = "free" /\ boot[s] = "lock"
      /\ s \notin hand /\ Booked(s) = {} /\ st[s] = "pending"
  BY <1>1, TypesOf DEF BootStart, SInv, BootTimeInv, OwnersInv, FreshInv, StateInv, BooksInv
<1>3. /\ st'[s] = "starting" /\ lock'[s] = "boot" /\ boot'[s] = "fork"
      /\ UNCHANGED <<phase, gen, alive, reg, sup, org, chk, res, hand, co, turn, known, lost>>
  BY <1>1, <1>2, TypesOf DEF BootStart, Set, Fire, Sources, TableSources, Target, Types,
     StateType, ProcType, SupType, BootType, TurnType
<1>4. Booked(s)' = {}
  BY <1>1, <1>2, <1>3 DEF Booked, SInv, BooksInv
<1>5. SInv(s)'
  <2>1. OwnersInv(s)'
    BY <1>1, <1>2, <1>3 DEF SInv, OwnersInv, AtRest
  <2>2. FreshInv(s)'
    BY <1>1, <1>2, <1>3, <1>4 DEF SInv, OwnersInv, FreshInv
  <2>3. StateInv(s)'
    BY <1>1, <1>2, <1>3, <1>4 DEF SInv, OwnersInv, StateInv, Runs, Running
  <2>4. BooksInv(s)'
    BY <1>1, <1>2, <1>3, <1>4, TypesOf DEF SInv, BooksInv, OwnersInv
  <2> QED
    BY <2>1, <2>2, <2>3, <2>4 DEF SInv
<1>6. \A r \in Services \ {s} : Still(r)
  BY <1>1, <1>2, <1>3 DEF BootStart, Still, Set, Types, StateType, ProcType, SupType,
     BootType, CoType, TurnType
<1> QED
  BY <1>1, <1>5, <1>6, OneMoves

LEMMA BootForksKeeps ==
    ASSUME IInv, NEW s \in Services, BootForks(s)
    PROVE  ServiceInv'
<1> USE DEF files, ctl, procs, supVars, bootVars, coVars, history, bounds
<1>1. SInv(s) /\ Types /\ ServiceInv /\ BootTimeInv /\ GoesOn /\ conf' = conf
  BY DEF IInv, ServiceInv, SInv, GoesOn, BootForks
<1>2. /\ lock[s] = "boot" /\ boot[s] = "fork"
      /\ s \notin hand /\ Booked(s) = {} /\ st[s] = "starting"
  BY <1>1, TypesOf DEF BootForks, SInv, BootTimeInv, OwnersInv, FreshInv, StateInv, BooksInv
<1>3. /\ gen'[s] = gen[s] + 1 /\ alive'[s] = alive[s] \cup {gen[s] + 1} /\ res'[s] = gen[s] + 1
      /\ st'[s] = "up" /\ sup'[s] = "wait"
      /\ (boot'[s] = "check" /\ lock'[s] = "boot") \/ (boot'[s] = "result" /\ lock'[s] = "free")
      /\ UNCHANGED <<phase, reg, chk, hand, co, turn, known, lost>>
  <2>1. gen'[s] = gen[s] + 1 /\ alive'[s] = alive[s] \cup {gen[s] + 1} /\ res'[s] = gen[s] + 1
    BY <1>1, <1>2, TypesOf DEF BootForks, Set, Fork, Fire, Sources, TableSources, Target,
       Types, StateType, ProcType, SupType, BootType, TurnType
  <2>2. st'[s] = "up" /\ sup'[s] = "wait"
    BY <1>1, <1>2, TypesOf DEF BootForks, Set, Fork, Fire, Sources, TableSources, Target,
       Types, StateType, ProcType, SupType, BootType, TurnType
  <2>3. (boot'[s] = "check" /\ lock'[s] = "boot") \/ (boot'[s] = "result" /\ lock'[s] = "free")
    <3>1. CASE HasReadiness(s)
      BY <1>1, <1>2, <3>1 DEF BootForks, Set, Types, BootType
    <3>2. CASE ~HasReadiness(s)
      BY <1>1, <1>2, <3>2 DEF BootForks, Set, Types, StateType, BootType
    <3> QED
      BY <3>1, <3>2
  <2>4. UNCHANGED <<phase, reg, chk, hand, co, turn, known, lost>>
    BY <1>1, <1>2, TypesOf DEF BootForks, Set, Fork, Fire, Sources, TableSources, Target,
       Types, StateType, ProcType, SupType, BootType, TurnType
  <2> QED
    BY <2>1, <2>2, <2>3, <2>4
<1>4. Booked(s)' \subseteq {gen[s] + 1}
  BY <1>1, <1>2, <1>3 DEF Booked, SInv, BooksInv
<1>5. SInv(s)'
  <2>1. OwnersInv(s)'
    BY <1>1, <1>2, <1>3 DEF SInv, OwnersInv, AtRest
  <2>2. FreshInv(s)'
    BY <1>1, <1>2, <1>3, <1>4 DEF SInv, OwnersInv, FreshInv
  <2>3. StateInv(s)'
    BY <1>1, <1>2, <1>3, <1>4 DEF SInv, OwnersInv, StateInv, Runs, Running
  <2>4. BooksInv(s)'
    BY <1>1, <1>2, <1>3, <1>4, TypesOf DEF SInv, BooksInv, OwnersInv
  <2> QED
    BY <2>1, <2>2, <2>3, <2>4 DEF SInv
<1>6. \A r \in Services \ {s} : Still(r)
  BY <1>1, <1>2, <1>3 DEF BootForks, Still, Set, Fork, Types, StateType, ProcType, SupType,
     BootType, CoType, TurnType
<1> QED
  BY <1>1, <1>5, <1>6, OneMoves

LEMMA BootForkFailsKeeps ==
    ASSUME IInv, NEW s \in Services, BootForkFails(s)
    PROVE  ServiceInv'
<1> USE DEF files, ctl, procs, supVars, bootVars, coVars, history, bounds
<1>1. SInv(s) /\ Types /\ ServiceInv /\ BootTimeInv /\ GoesOn /\ conf' = conf
  BY DEF IInv, ServiceInv, SInv, GoesOn, BootForkFails
<1>2. /\ lock[s] = "boot" /\ boot[s] = "fork"
      /\ s \notin hand /\ Booked(s) = {} /\ st[s] = "starting"
  BY <1>1, TypesOf DEF BootForkFails, SInv, BootTimeInv, OwnersInv, FreshInv, StateInv, BooksInv
<1>3. /\ st'[s] = "failed" /\ lock'[s] = "free" /\ boot'[s] = "done"
      /\ UNCHANGED <<phase, gen, alive, reg, sup, org, chk, res, hand, co, turn, known, lost>>
  BY <1>1, <1>2, TypesOf DEF BootForkFails, Set, Fire, Sources, TableSources, Target,
     Running, Types, StateType, ProcType, SupType, BootType, TurnType
<1>4. Booked(s)' = {}
  BY <1>1, <1>2, <1>3 DEF Booked, SInv, BooksInv
<1>5. SInv(s)'
  <2>1. OwnersInv(s)'
    BY <1>1, <1>2, <1>3 DEF SInv, OwnersInv, AtRest
  <2>2. FreshInv(s)'
    BY <1>1, <1>2, <1>3, <1>4 DEF SInv, OwnersInv, FreshInv
  <2>3. StateInv(s)'
    BY <1>1, <1>2, <1>3, <1>4 DEF SInv, OwnersInv, StateInv, Runs, Running
  <2>4. BooksInv(s)'
    BY <1>1, <1>2, <1>3, <1>4, TypesOf DEF SInv, BooksInv, OwnersInv
  <2> QED
    BY <2>1, <2>2, <2>3, <2>4 DEF SInv
<1>6. \A r \in Services \ {s} : Still(r)
  BY <1>1, <1>2, <1>3 DEF BootForkFails, Still, Set, Types, StateType, ProcType, SupType,
     BootType, CoType, TurnType
<1> QED
  BY <1>1, <1>5, <1>6, OneMoves

LEMMA BootCheckEndsKeeps ==
    ASSUME IInv, NEW s \in Services, BootCheckEnds(s)
    PROVE  ServiceInv'
<1> USE DEF files, ctl, procs, supVars, bootVars, coVars, history, bounds
<1>1. SInv(s) /\ Types /\ ServiceInv /\ BootTimeInv /\ GoesOn /\ conf' = conf
  BY DEF IInv, ServiceInv, SInv, GoesOn, BootCheckEnds
<1>2. /\ phase # "off" /\ lock[s] = "boot" /\ boot[s] = "check" /\ s \notin hand
      /\ res[s] = gen[s] /\ st[s] # "stopping"
  BY <1>1, TypesOf DEF BootCheckEnds, SInv, BootTimeInv, OwnersInv, FreshInv, StateInv,
     BooksInv, Runs
<1>3. /\ lock'[s] = "free" /\ boot'[s] = "result" /\ alive'[s] \subseteq alive[s]
      /\ st'[s] # "stopping"
      /\ gen[s] \in alive'[s] /\ st[s] \in Running => st'[s] \in Running
      /\ UNCHANGED <<phase, gen, reg, sup, org, chk, res, hand, co, turn, known, lost>>
  BY <1>1, <1>2, TypesOf DEF BootCheckEnds, Set, Fire, Sources, TableSources, Target,
     Running, Types, StateType, ProcType, SupType, BootType, TurnType
<1>4. Booked(s)' \subseteq Booked(s) /\ Booked(s)' \subseteq alive'[s]
  BY <1>1, <1>2, <1>3 DEF Booked, SInv, BooksInv
<1>5. SInv(s)'
  <2>1. OwnersInv(s)'
    BY <1>1, <1>2, <1>3 DEF SInv, OwnersInv, AtRest
  <2>2. FreshInv(s)'
    BY <1>1, <1>2, <1>3, <1>4 DEF SInv, OwnersInv, FreshInv
  <2>3. StateInv(s)'
    BY <1>1, <1>2, <1>3, <1>4 DEF SInv, OwnersInv, StateInv, Runs, Running, BooksInv
  <2>4. BooksInv(s)'
    BY <1>1, <1>2, <1>3, <1>4, TypesOf DEF SInv, BooksInv, OwnersInv
  <2> QED
    BY <2>1, <2>2, <2>3, <2>4 DEF SInv
<1>6. \A r \in Services \ {s} : Still(r)
  BY <1>1, <1>2, <1>3 DEF BootCheckEnds, Still, Set, Types, StateType, ProcType, SupType,
     BootType, CoType, TurnType
<1> QED
  BY <1>1, <1>5, <1>6, OneMoves

LEMMA BootRegistersKeeps ==
    ASSUME IInv, NEW s \in Services, BootRegisters(s)
    PROVE  ServiceInv'
<1> USE DEF files, ctl, procs, supVars, bootVars, coVars, history, bounds
<1>1. SInv(s) /\ Types /\ ServiceInv /\ BootTimeInv /\ GoesOn /\ conf' = conf
  BY DEF IInv, ServiceInv, SInv, GoesOn, BootRegisters
<1>2. /\ phase = "boot" /\ boot[s] = "result"
  BY <1>1, TypesOf DEF BootRegisters, SInv, BootTimeInv, OwnersInv, FreshInv, StateInv, BooksInv
<1>3. /\ reg'[s] = res[s] /\ boot'[s] = "done"
      /\ \A g : <<s, g>> \in lost' <=> <<s, g>> \in lost \/ (reg[s] > res[s] /\ g = reg[s])
      /\ UNCHANGED <<phase, st, lock, gen, alive, sup, org, chk, res, hand, co, turn, known>>
  BY <1>1, <1>2, TypesOf DEF BootRegisters, Set, Types, StateType, ProcType, SupType,
     BootType, TurnType
<1>4. Booked(s)' = {g \in Booked(s) : ~(reg[s] > res[s] /\ g = reg[s])}
  BY <1>1, <1>2, <1>3 DEF Booked, SInv, BooksInv
<1>5. SInv(s)'
  <2>1. OwnersInv(s)'
    BY <1>1, <1>2, <1>3 DEF SInv, OwnersInv, AtRest
  <2>2. FreshInv(s)'
    BY <1>1, <1>2, <1>3, <1>4 DEF SInv, OwnersInv, FreshInv
  <2>3. StateInv(s)'
    BY <1>1, <1>2, <1>3, <1>4 DEF SInv, OwnersInv, StateInv, Runs, Running
  <2>4. BooksInv(s)'
    BY <1>1, <1>2, <1>3, <1>4, TypesOf DEF SInv, BooksInv, OwnersInv
  <2> QED
    BY <2>1, <2>2, <2>3, <2>4 DEF SInv
<1>6. \A r \in Services \ {s} : Still(r)
  BY <1>1, <1>2, <1>3 DEF BootRegisters, Still, Set, Types, StateType, ProcType, SupType,
     BootType, CoType, TurnType
<1> QED
  BY <1>1, <1>5, <1>6, OneMoves

LEMMA ApiStartKeeps ==
    ASSUME IInv, NEW s \in Services, ApiStart(s)
    PROVE  ServiceInv'
<1> USE DEF files, ctl, procs, supVars, bootVars, coVars, history, bounds
<1>1. SInv(s) /\ Types /\ ServiceInv /\ BootTimeInv /\ GoesOn /\ conf' = conf
  BY DEF IInv, ServiceInv, SInv, GoesOn, ApiStart
<1>2. /\ phase \notin {"off", "boot", "stopping", "exiting"} /\ lock[s] = "free" /\ s \notin hand /\ s \in known
      /\ st[s] \in {"pending", "down", "failed"} /\ Booked(s) = {}
      /\ boot[s] \in {"none", "done"}
  <2>1. phase \notin {"off", "boot", "stopping", "exiting"} /\ lock[s] = "free" /\ s \notin hand /\ s \in known
    BY <1>1, TypesOf DEF ApiStart, SInv, BootTimeInv, OwnersInv, FreshInv, StateInv,
       BooksInv, Open, Running, BootTime, ServiceState
  <2>2. st[s] \in {"pending", "down", "failed"} /\ Booked(s) = {}
    BY <1>1, <2>1, TypesOf DEF ApiStart, SInv, StateInv, Runs, Running, ServiceState
  <2>3. boot[s] \in {"none", "done"}
    BY <1>1, <2>1, <2>2, TypesOf DEF ApiStart, SInv, BootTimeInv, OwnersInv, FreshInv,
       StateInv, BooksInv, Open, Running, BootTime, ServiceState
  <2> QED
    BY <2>1, <2>2, <2>3
<1>3. /\ lock'[s] = "api"
      /\ UNCHANGED <<phase, st, gen, alive, reg, sup, org, chk, boot, res, hand, co, turn,
                     known, lost>>
  BY <1>1, <1>2, TypesOf DEF ApiStart, Set, Types, StateType, ProcType, SupType, BootType,
     TurnType
<1>4. Booked(s)' = {}
  BY <1>1, <1>2, <1>3 DEF Booked, SInv, BooksInv
<1>5. SInv(s)'
  <2>1. OwnersInv(s)'
    BY <1>1, <1>2, <1>3 DEF SInv, OwnersInv, AtRest
  <2>2. FreshInv(s)'
    BY <1>1, <1>2, <1>3, <1>4 DEF SInv, OwnersInv, FreshInv
  <2>3. StateInv(s)'
    BY <1>1, <1>2, <1>3, <1>4 DEF SInv, OwnersInv, StateInv, Runs, Running
  <2>4. BooksInv(s)'
    BY <1>1, <1>2, <1>3, <1>4, TypesOf DEF SInv, BooksInv, OwnersInv
  <2> QED
    BY <2>1, <2>2, <2>3, <2>4 DEF SInv
<1>6. \A r \in Services \ {s} : Still(r)
  BY <1>1, <1>2, <1>3 DEF ApiStart, Still, Set, Types, StateType, ProcType, SupType,
     BootType, CoType, TurnType
<1> QED
  BY <1>1, <1>5, <1>6, OneMoves

LEMMA StartForksKeeps ==
    ASSUME IInv, NEW s \in Services, StartForks(s)
    PROVE  ServiceInv'
<1> USE DEF files, ctl, procs, supVars, bootVars, coVars, history, bounds
<1>1. SInv(s) /\ Types /\ ServiceInv /\ BootTimeInv /\ GoesOn /\ conf' = conf
  BY DEF IInv, ServiceInv, SInv, GoesOn, StartForks
<1>2. /\ lock[s] \in {"api", "coord"} /\ s \notin hand
      /\ st[s] \in {"pending", "down", "failed"} /\ Booked(s) = {}
      /\ phase \notin {"off", "boot"} /\ boot[s] \in {"none", "done"}
  BY <1>1, TypesOf DEF StartForks, SInv, BootTimeInv, OwnersInv, FreshInv, StateInv,
     BooksInv, BootTime, Runs
<1>3. /\ gen'[s] = gen[s] + 1 /\ alive'[s] = alive[s] \cup {gen[s] + 1}
      /\ st'[s] = "up" /\ hand' = hand \cup {s}
      /\ UNCHANGED <<phase, lock, reg, sup, org, chk, boot, res, co, turn, known, lost>>
  BY <1>1, <1>2, TypesOf DEF StartForks, Set, Fork, Starting, Fire, Sources, TableSources,
     Target, Types, StateType, ProcType, SupType, BootType, TurnType
<1>4. Booked(s)' \subseteq {gen[s] + 1}
  BY <1>1, <1>2, <1>3 DEF Booked, SInv, BooksInv
<1>5. SInv(s)'
  <2>1. OwnersInv(s)'
    BY <1>1, <1>2, <1>3 DEF SInv, OwnersInv, AtRest
  <2>2. FreshInv(s)'
    BY <1>1, <1>2, <1>3, <1>4 DEF SInv, OwnersInv, FreshInv
  <2>3. StateInv(s)'
    BY <1>1, <1>2, <1>3, <1>4 DEF SInv, OwnersInv, StateInv, Runs, Running
  <2>4. BooksInv(s)'
    BY <1>1, <1>2, <1>3, <1>4, TypesOf DEF SInv, BooksInv, OwnersInv
  <2> QED
    BY <2>1, <2>2, <2>3, <2>4 DEF SInv
<1>6. \A r \in Services \ {s} : Still(r)
  BY <1>1, <1>2, <1>3 DEF StartForks, Still, Set, Fork, Types, StateType, ProcType, SupType,
     BootType, CoType, TurnType
<1> QED
  BY <1>1, <1>5, <1>6, OneMoves

LEMMA StartForkFailsKeeps ==
    ASSUME IInv, NEW s \in Services, StartForkFails(s)
    PROVE  ServiceInv'
<1> USE DEF files, ctl, procs, supVars, bootVars, coVars, history, bounds
<1>1. SInv(s) /\ Types /\ ServiceInv /\ BootTimeInv /\ GoesOn /\ conf' = conf
  BY DEF IInv, ServiceInv, SInv, GoesOn, StartForkFails
<1>2. /\ lock[s] \in {"api", "coord"} /\ s \notin hand
      /\ st[s] \in {"pending", "down", "failed"} /\ Booked(s) = {}
      /\ phase \notin {"off", "boot"} /\ boot[s] \in {"none", "done"}
  BY <1>1, TypesOf DEF StartForkFails, SInv, BootTimeInv, OwnersInv, FreshInv, StateInv,
     BooksInv, BootTime, Runs
<1>3. /\ st'[s] = "failed" /\ lock'[s] = "free"
      /\ \A r \in Services \ {s} : co'[r] = co[r]
      /\ UNCHANGED <<phase, gen, alive, reg, sup, org, chk, boot, res, hand, turn, known, lost>>
  <2>1. st'[s] = "failed" /\ lock'[s] = "free"
    BY <1>1, <1>2, TypesOf DEF StartForkFails, Set, LetGo, Starting, Fire, Sources,
       TableSources, Target, Running, CoDone, CoType, Types, StateType, ProcType, SupType,
       BootType, TurnType
  <2>2. \A r \in Services \ {s} : co'[r] = co[r]
    BY <1>1, <1>2, TypesOf DEF StartForkFails, Set, LetGo, Starting, Fire, Sources,
       TableSources, Target, Running, CoDone, CoType, Types, StateType, ProcType, SupType,
       BootType, TurnType
  <2>3. UNCHANGED <<phase, gen, alive, reg, sup, org, chk, boot, res, hand, turn, known, lost>>
    BY <1>1, <1>2, TypesOf DEF StartForkFails, Set, LetGo, Starting, Fire, Sources,
       TableSources, Target, Running, CoDone, CoType, Types, StateType, ProcType, SupType,
       BootType, TurnType
  <2> QED
    BY <2>1, <2>2, <2>3
<1>4. Booked(s)' = {}
  BY <1>1, <1>2, <1>3 DEF Booked, SInv, BooksInv
<1>5. SInv(s)'
  <2>1. OwnersInv(s)'
    BY <1>1, <1>2, <1>3 DEF SInv, OwnersInv, AtRest
  <2>2. FreshInv(s)'
    BY <1>1, <1>2, <1>3, <1>4 DEF SInv, OwnersInv, FreshInv
  <2>3. StateInv(s)'
    BY <1>1, <1>2, <1>3, <1>4 DEF SInv, OwnersInv, StateInv, Runs, Running
  <2>4. BooksInv(s)'
    BY <1>1, <1>2, <1>3, <1>4, TypesOf DEF SInv, BooksInv, OwnersInv
  <2> QED
    BY <2>1, <2>2, <2>3, <2>4 DEF SInv
<1>6. \A r \in Services \ {s} : Still(r)
  BY <1>1, <1>2, <1>3 DEF StartForkFails, Still, Set, LetGo, Types, StateType, ProcType,
     SupType, BootType, CoType, TurnType
<1> QED
  BY <1>1, <1>5, <1>6, OneMoves

LEMMA StartPublishesKeeps ==
    ASSUME IInv, NEW s \in Services, StartPublishes(s)
    PROVE  ServiceInv'
<1> USE DEF files, ctl, procs, supVars, bootVars, coVars, history, bounds
<1>1. SInv(s) /\ Types /\ ServiceInv /\ BootTimeInv /\ GoesOn /\ conf' = conf
  BY DEF IInv, ServiceInv, SInv, GoesOn, StartPublishes
<1>2. /\ lock[s] \in {"api", "coord"} /\ s \in hand
      /\ phase \notin {"off", "boot"} /\ boot[s] \in {"none", "done"}
  BY <1>1, TypesOf DEF StartPublishes, SInv, BootTimeInv, OwnersInv, FreshInv, StateInv,
     BooksInv, BootTime, Runs
<1>3. /\ reg'[s] = gen[s] /\ sup'[s] = "wait" /\ lock'[s] = "free" /\ hand' = hand \ {s}
      /\ UNCHANGED <<phase, st, gen, alive, boot, res, turn, known, lost>>
  BY <1>1, <1>2, TypesOf DEF StartPublishes, Set, LetGo, Types, StateType, ProcType, SupType,
     BootType, TurnType
<1>7. \A r \in Services : co'[r] = CoDone(s)[r] \/ r \in known
  <2>1. CoDone(s) \in [Services -> CoPc]
    BY <1>1 DEF CoDone, Set, CoPc, Types, CoType
  <2>2. co' = CoDone(s) \/ OnServiceDependable(s, st, CoDone(s))
    BY DEF StartPublishes
  <2> QED
    BY <1>1, <2>1, <2>2, Marks
<1>8. \A r \in Services \ {s} : CoDone(s)[r] = co[r]
  BY <1>1 DEF CoDone, Set, Types, CoType
<1>4. Booked(s)' = Booked(s)
  BY <1>1, <1>2, <1>3 DEF Booked, SInv, BooksInv
<1>5. SInv(s)'
  <2>1. OwnersInv(s)'
    BY <1>1, <1>2, <1>3, <1>7, <1>8 DEF SInv, OwnersInv, AtRest
  <2>2. FreshInv(s)'
    BY <1>1, <1>2, <1>3, <1>4 DEF SInv, OwnersInv, FreshInv
  <2>3. StateInv(s)'
    BY <1>1, <1>2, <1>3, <1>4 DEF SInv, OwnersInv, StateInv, Runs, Running
  <2>4. BooksInv(s)'
    BY <1>1, <1>2, <1>3, <1>4, TypesOf DEF SInv, BooksInv, OwnersInv
  <2> QED
    BY <2>1, <2>2, <2>3, <2>4 DEF SInv
<1>6. \A r \in Services \ {s} : Still(r)
  BY <1>1, <1>2, <1>3, <1>7, <1>8 DEF StartPublishes, Still, Set, LetGo, Types, StateType,
     ProcType, SupType, BootType, CoType, TurnType
<1> QED
  BY <1>1, <1>5, <1>6, OneMoves

LEMMA ApiStopKeeps ==
    ASSUME IInv, NEW s \in Services, ApiStop(s)
    PROVE  ServiceInv'
<1> USE DEF files, ctl, procs, supVars, bootVars, coVars, history, bounds
<1>1. SInv(s) /\ Types /\ ServiceInv /\ BootTimeInv /\ GoesOn /\ conf' = conf
  BY DEF IInv, ServiceInv, SInv, GoesOn, ApiStop
<1>2. /\ phase \notin {"off", "boot", "stopping", "exiting"} /\ lock[s] = "free" /\ s \notin hand /\ s \in known
      /\ st[s] # "stopping" /\ sup[s] # "forked" /\ boot[s] \in {"none", "done"}
      /\ reg[s] = 0 => Booked(s) = {}
  <2>1. phase \notin {"off", "boot", "stopping", "exiting"} /\ lock[s] = "free" /\ s \notin hand /\ s \in known
    BY <1>1, TypesOf DEF ApiStop, SInv, BootTimeInv, OwnersInv, FreshInv, StateInv, BooksInv,
       Open, BootTime
  <2>2. st[s] # "stopping" /\ sup[s] # "forked" /\ boot[s] \in {"none", "done"}
    BY <1>1, <2>1, TypesOf DEF ApiStop, SInv, BootTimeInv, OwnersInv, FreshInv, StateInv,
       BooksInv, Open, BootTime
  <2>3. reg[s] = 0 => Booked(s) = {}
    BY <1>1, <2>1, <2>2, TypesOf DEF SInv, BooksInv, Booked
  <2> QED
    BY <2>1, <2>2, <2>3
<1>3. /\ \/ reg[s] = 0 /\ lock'[s] = "free" /\ st'[s] # "stopping" /\ (st'[s] # st[s] => st'[s] = "down")
         \/ reg[s] # 0 /\ lock'[s] = "stop"
      /\ UNCHANGED <<phase, gen, alive, reg, sup, org, chk, boot, res, hand, co, turn, known,
                     lost>>
  <2>1. \/ reg[s] = 0 /\ lock'[s] = "free" /\ st'[s] # "stopping" /\ (st'[s] # st[s] => st'[s] = "down")
        \/ reg[s] # 0 /\ lock'[s] = "stop"
    <3>1. CASE reg[s] = 0
      BY <1>1, <1>2, <3>1 DEF ApiStop, Set, Types, StateType
    <3>2. CASE reg[s] # 0
      BY <1>1, <1>2, <3>2 DEF ApiStop, Set, Types, StateType
    <3> QED
      BY <3>1, <3>2
  <2>2. UNCHANGED <<phase, gen, alive, reg, sup, org, chk, boot, res, hand, co, turn, known,
                    lost>>
    BY <1>1, <1>2, TypesOf DEF ApiStop, Set, Fire, Sources, TableSources, Target, Running,
       Types, StateType, ProcType, SupType, BootType, TurnType
  <2> QED
    BY <2>1, <2>2
<1>4. Booked(s)' = Booked(s)
  BY <1>1, <1>2, <1>3 DEF Booked, SInv, BooksInv
<1>5. SInv(s)'
  <2>1. OwnersInv(s)'
    BY <1>1, <1>2, <1>3 DEF SInv, OwnersInv, AtRest
  <2>2. FreshInv(s)'
    BY <1>1, <1>2, <1>3, <1>4 DEF SInv, OwnersInv, FreshInv
  <2>3. StateInv(s)'
    BY <1>1, <1>2, <1>3, <1>4 DEF SInv, OwnersInv, StateInv, Runs, Running
  <2>4. BooksInv(s)'
    BY <1>1, <1>2, <1>3, <1>4, TypesOf DEF SInv, BooksInv, OwnersInv
  <2> QED
    BY <2>1, <2>2, <2>3, <2>4 DEF SInv
<1>6. \A r \in Services \ {s} : Still(r)
  BY <1>1, <1>2, <1>3 DEF ApiStop, Still, Set, Types, StateType, ProcType, SupType, BootType,
     CoType, TurnType
<1> QED
  BY <1>1, <1>5, <1>6, OneMoves

LEMMA ApiStoppedKeeps ==
    ASSUME IInv, NEW s \in Services, ApiStopped(s)
    PROVE  ServiceInv'
<1> USE DEF files, ctl, procs, supVars, bootVars, coVars, history, bounds
<1>1. SInv(s) /\ Types /\ ServiceInv /\ BootTimeInv /\ GoesOn /\ conf' = conf
  BY DEF IInv, ServiceInv, SInv, GoesOn, ApiStopped
<1>2. /\ phase \notin {"off", "boot"} /\ lock[s] = "stop" /\ s \notin hand
      /\ sup[s] # "forked" /\ boot[s] \in {"none", "done"}
  BY <1>1, TypesOf DEF ApiStopped, SInv, BootTimeInv, OwnersInv, FreshInv, StateInv,
     BooksInv, BootTime, Runs
<1>3. /\ alive'[s] = alive[s] \ {reg[s]} /\ reg'[s] = 0 /\ lock'[s] = "free"
      /\ st'[s] # "stopping"
      /\ UNCHANGED <<phase, gen, sup, org, chk, boot, res, hand, co, turn, known, lost>>
  BY <1>1, <1>2, TypesOf DEF ApiStopped, Set, Stopped, LetGo, Fire, Sources, TableSources,
     Target, Types, StateType, ProcType, SupType, BootType, TurnType
<1>4. Booked(s)' = {}
  BY <1>1, <1>2, <1>3 DEF Booked, SInv, BooksInv
<1>5. SInv(s)'
  <2>1. OwnersInv(s)'
    BY <1>1, <1>2, <1>3 DEF SInv, OwnersInv, AtRest
  <2>2. FreshInv(s)'
    BY <1>1, <1>2, <1>3, <1>4 DEF SInv, OwnersInv, FreshInv
  <2>3. StateInv(s)'
    BY <1>1, <1>2, <1>3, <1>4 DEF SInv, OwnersInv, StateInv, Runs, Running
  <2>4. BooksInv(s)'
    BY <1>1, <1>2, <1>3, <1>4, TypesOf DEF SInv, BooksInv, OwnersInv
  <2> QED
    BY <2>1, <2>2, <2>3, <2>4 DEF SInv
<1>6. \A r \in Services \ {s} : Still(r)
  BY <1>1, <1>2, <1>3 DEF ApiStopped, Still, Set, Stopped, LetGo, Types, StateType, ProcType,
     SupType, BootType, CoType, TurnType
<1> QED
  BY <1>1, <1>5, <1>6, OneMoves

LEMMA DiscoverKeeps ==
    ASSUME IInv, NEW s \in Services, Discover(s)
    PROVE  ServiceInv'
<1> USE DEF files, ctl, procs, supVars, bootVars, coVars, history, bounds
<1>1. SInv(s) /\ Types /\ ServiceInv /\ BootTimeInv /\ GoesOn /\ conf' = conf
  BY DEF IInv, ServiceInv, SInv, GoesOn, Discover
<1>2. /\ phase = "serving" /\ s \notin known
      /\ Booked(s) = {}
  BY <1>1, TypesOf DEF Discover, SInv, BootTimeInv, OwnersInv, FreshInv, StateInv, BooksInv,
     Booked
<1>3. /\ s \in known' /\ st'[s] = "pending"
      /\ UNCHANGED <<phase, lock, gen, alive, reg, sup, org, chk, boot, res, hand, co, turn,
                     lost>>
  BY <1>1, <1>2, TypesOf DEF Discover, Set, Types, StateType, ProcType, SupType, BootType,
     TurnType
<1>4. Booked(s)' = {}
  BY <1>1, <1>2, <1>3 DEF Booked, SInv, BooksInv
<1>5. SInv(s)'
  <2>1. OwnersInv(s)'
    BY <1>1, <1>2, <1>3 DEF SInv, OwnersInv, AtRest
  <2>2. FreshInv(s)'
    BY <1>1, <1>2, <1>3, <1>4 DEF SInv, OwnersInv, FreshInv
  <2>3. StateInv(s)'
    BY <1>1, <1>2, <1>3, <1>4 DEF SInv, OwnersInv, StateInv, Runs, Running
  <2>4. BooksInv(s)'
    BY <1>1, <1>2, <1>3, <1>4, TypesOf DEF SInv, BooksInv, OwnersInv
  <2> QED
    BY <2>1, <2>2, <2>3, <2>4 DEF SInv
<1>6. \A r \in Services \ {s} : Still(r)
  BY <1>1, <1>2, <1>3 DEF Discover, Still, Set, Types, StateType, ProcType, SupType,
     BootType, CoType, TurnType
<1> QED
  BY <1>1, <1>5, <1>6, OneMoves

LEMMA EndKeeps ==
    ASSUME IInv, NEW s \in Services, End(s)
    PROVE  ServiceInv'
<1> USE DEF files, ctl, procs, supVars, bootVars, coVars, history, bounds
<1>1. SInv(s) /\ Types /\ ServiceInv /\ BootTimeInv /\ GoesOn /\ conf' = conf
  BY DEF IInv, ServiceInv, SInv, GoesOn, End
<1>3. /\ alive'[s] = alive[s] \ {gen[s]}
      /\ UNCHANGED <<phase, st, lock, gen, reg, sup, org, chk, boot, res, hand, co, turn, known,
                     lost>>
  BY <1>1, TypesOf DEF End, Set, Types, StateType, ProcType, SupType, BootType, TurnType
<1>4. Booked(s)' \subseteq Booked(s)
  BY <1>1, <1>3 DEF Booked, SInv, BooksInv
<1>5. SInv(s)'
  <2>1. OwnersInv(s)'
    BY <1>1, <1>3 DEF SInv, OwnersInv, AtRest
  <2>2. FreshInv(s)'
    BY <1>1, <1>3, <1>4 DEF SInv, OwnersInv, FreshInv
  <2>3. StateInv(s)'
    BY <1>1, <1>3, <1>4 DEF SInv, OwnersInv, StateInv, Runs, Running
  <2>4. BooksInv(s)'
    BY <1>1, <1>3, <1>4, TypesOf DEF SInv, BooksInv, OwnersInv
  <2> QED
    BY <2>1, <2>2, <2>3, <2>4 DEF SInv
<1>6. \A r \in Services \ {s} : Still(r)
  BY <1>1, <1>3 DEF End, Still, Set, Types, StateType, ProcType, SupType, BootType, CoType,
     TurnType
<1> QED
  BY <1>1, <1>5, <1>6, OneMoves

LEMMA SupSeesKeeps ==
    ASSUME IInv, NEW s \in Services, SupSees(s)
    PROVE  ServiceInv'
<1> USE DEF files, ctl, procs, supVars, bootVars, coVars, history, bounds
<1>1. SInv(s) /\ Types /\ ServiceInv /\ BootTimeInv /\ GoesOn /\ conf' = conf
  BY DEF IInv, ServiceInv, SInv, GoesOn, SupSees
<1>2. /\ phase # "off" /\ sup[s] = "wait" /\ Booked(s) = {}
  BY <1>1, TypesOf DEF SupSees, SInv, BootTimeInv, OwnersInv, FreshInv, StateInv, BooksInv,
     Runs, Lives, Booked
<1>3. /\ sup'[s] \in {"backoff", "none"}
      /\ st'[s] = st[s] \/ (st[s] \in Running /\ st'[s] \in {"starting", "failed", "down"})
      /\ UNCHANGED <<phase, lock, gen, alive, reg, org, chk, boot, res, hand, co, turn, known,
                     lost>>
  BY <1>1, <1>2, TypesOf DEF SupSees, Set, Fire, Sources, TableSources, Target, Types,
     StateType, ProcType, SupType, BootType, TurnType
<1>4. Booked(s)' = {}
  BY <1>1, <1>2, <1>3 DEF Booked, SInv, BooksInv
<1>5. SInv(s)'
  <2>1. OwnersInv(s)'
    BY <1>1, <1>2, <1>3 DEF SInv, OwnersInv, AtRest
  <2>2. FreshInv(s)'
    BY <1>1, <1>2, <1>3, <1>4 DEF SInv, OwnersInv, FreshInv
  <2>3. StateInv(s)'
    BY <1>1, <1>2, <1>3, <1>4 DEF SInv, OwnersInv, StateInv, Runs, Running
  <2>4. BooksInv(s)'
    BY <1>1, <1>2, <1>3, <1>4, TypesOf DEF SInv, BooksInv, OwnersInv
  <2> QED
    BY <2>1, <2>2, <2>3, <2>4 DEF SInv
<1>6. \A r \in Services \ {s} : Still(r)
  BY <1>1, <1>2, <1>3 DEF SupSees, Still, Set, Types, StateType, ProcType, SupType, BootType,
     CoType, TurnType
<1> QED
  BY <1>1, <1>5, <1>6, OneMoves

LEMMA SupBackoffOverKeeps ==
    ASSUME IInv, NEW s \in Services, SupBackoffOver(s)
    PROVE  ServiceInv'
<1> USE DEF files, ctl, procs, supVars, bootVars, coVars, history, bounds
<1>1. SInv(s) /\ Types /\ ServiceInv /\ BootTimeInv /\ GoesOn /\ conf' = conf
  BY DEF IInv, ServiceInv, SInv, GoesOn, SupBackoffOver
<1>2. /\ phase # "off" /\ sup[s] = "backoff"
  BY <1>1, TypesOf DEF SupBackoffOver, SInv, BootTimeInv, OwnersInv, FreshInv, StateInv,
     BooksInv, Runs
<1>3. /\ sup'[s] \in {"lock", "none"}
      /\ UNCHANGED <<phase, st, lock, gen, alive, reg, org, chk, boot, res, hand, co, turn,
                     known, lost>>
  BY <1>1, <1>2, TypesOf DEF SupBackoffOver, Set, Types, StateType, ProcType, SupType,
     BootType, TurnType
<1>4. Booked(s)' = Booked(s)
  BY <1>1, <1>2, <1>3 DEF Booked, SInv, BooksInv
<1>5. SInv(s)'
  <2>1. OwnersInv(s)'
    BY <1>1, <1>2, <1>3 DEF SInv, OwnersInv, AtRest
  <2>2. FreshInv(s)'
    BY <1>1, <1>2, <1>3, <1>4 DEF SInv, OwnersInv, FreshInv
  <2>3. StateInv(s)'
    BY <1>1, <1>2, <1>3, <1>4 DEF SInv, OwnersInv, StateInv, Runs, Running
  <2>4. BooksInv(s)'
    BY <1>1, <1>2, <1>3, <1>4, TypesOf DEF SInv, BooksInv, OwnersInv
  <2> QED
    BY <2>1, <2>2, <2>3, <2>4 DEF SInv
<1>6. \A r \in Services \ {s} : Still(r)
  BY <1>1, <1>2, <1>3 DEF SupBackoffOver, Still, Set, Types, StateType, ProcType, SupType,
     BootType, CoType, TurnType
<1> QED
  BY <1>1, <1>5, <1>6, OneMoves

LEMMA SupForksKeeps ==
    ASSUME IInv, NEW s \in Services, SupForks(s)
    PROVE  ServiceInv'
<1> USE DEF files, ctl, procs, supVars, bootVars, coVars, history, bounds
<1>1. SInv(s) /\ Types /\ ServiceInv /\ BootTimeInv /\ GoesOn /\ conf' = conf
  BY DEF IInv, ServiceInv, SInv, GoesOn, SupForks
<1>2. /\ phase # "off" /\ sup[s] = "lock" /\ lock[s] = "free" /\ s \notin hand
      /\ Booked(s) = {} /\ st[s] # "stopping"
  BY <1>1, TypesOf DEF SupForks, SInv, BootTimeInv, OwnersInv, FreshInv, StateInv, BooksInv,
     Runs
<1>3. /\ gen'[s] = gen[s] + 1 /\ alive'[s] = alive[s] \cup {gen[s] + 1}
      /\ lock'[s] = "sup" /\ sup'[s] = "forked" /\ st'[s] # "stopping"
      /\ st[s] = "starting" => st'[s] = "up"
      /\ \A g : <<s, g>> \in lost' <=> <<s, g>> \in lost \/ (st[s] # "starting" /\ g = gen[s] + 1)
      /\ UNCHANGED <<phase, reg, org, boot, res, hand, co, turn, known>>
  BY <1>1, <1>2, TypesOf DEF SupForks, Set, Fork, Fire, Sources, TableSources, Target, Types,
     StateType, ProcType, SupType, BootType, TurnType
<1>4. Booked(s)' \subseteq {gen[s] + 1} /\ (st[s] # "starting" => Booked(s)' = {})
  BY <1>1, <1>2, <1>3 DEF Booked, SInv, BooksInv
<1>5. SInv(s)'
  <2>1. OwnersInv(s)'
    BY <1>1, <1>2, <1>3 DEF SInv, OwnersInv, AtRest
  <2>2. FreshInv(s)'
    BY <1>1, <1>2, <1>3, <1>4 DEF SInv, OwnersInv, FreshInv
  <2>3. StateInv(s)'
    BY <1>1, <1>2, <1>3, <1>4 DEF SInv, OwnersInv, StateInv, Runs, Running
  <2>4. BooksInv(s)'
    BY <1>1, <1>2, <1>3, <1>4, TypesOf DEF SInv, BooksInv, OwnersInv
  <2> QED
    BY <2>1, <2>2, <2>3, <2>4 DEF SInv
<1>6. \A r \in Services \ {s} : Still(r)
  BY <1>1, <1>2, <1>3 DEF SupForks, Still, Set, Fork, Types, StateType, ProcType, SupType,
     BootType, CoType, TurnType
<1> QED
  BY <1>1, <1>5, <1>6, OneMoves

LEMMA SupForkFailsKeeps ==
    ASSUME IInv, NEW s \in Services, SupForkFails(s)
    PROVE  ServiceInv'
<1> USE DEF files, ctl, procs, supVars, bootVars, coVars, history, bounds
<1>1. SInv(s) /\ Types /\ ServiceInv /\ BootTimeInv /\ GoesOn /\ conf' = conf
  BY DEF IInv, ServiceInv, SInv, GoesOn, SupForkFails
<1>2. /\ phase # "off" /\ sup[s] = "lock" /\ lock[s] = "free" /\ s \notin hand
      /\ Booked(s) = {} /\ st[s] # "stopping"
  BY <1>1, TypesOf DEF SupForkFails, SInv, BootTimeInv, OwnersInv, FreshInv, StateInv,
     BooksInv, Runs
<1>3. /\ sup'[s] = "none" /\ st'[s] # "stopping"
      /\ UNCHANGED <<phase, lock, gen, alive, reg, org, chk, boot, res, hand, co, turn, known,
                     lost>>
  BY <1>1, <1>2, TypesOf DEF SupForkFails, Set, Fire, Sources, TableSources, Target, Types,
     StateType, ProcType, SupType, BootType, TurnType
<1>4. Booked(s)' = {}
  BY <1>1, <1>2, <1>3 DEF Booked, SInv, BooksInv
<1>5. SInv(s)'
  <2>1. OwnersInv(s)'
    BY <1>1, <1>2, <1>3 DEF SInv, OwnersInv, AtRest
  <2>2. FreshInv(s)'
    BY <1>1, <1>2, <1>3, <1>4 DEF SInv, OwnersInv, FreshInv
  <2>3. StateInv(s)'
    BY <1>1, <1>2, <1>3, <1>4 DEF SInv, OwnersInv, StateInv, Runs, Running
  <2>4. BooksInv(s)'
    BY <1>1, <1>2, <1>3, <1>4, TypesOf DEF SInv, BooksInv, OwnersInv
  <2> QED
    BY <2>1, <2>2, <2>3, <2>4 DEF SInv
<1>6. \A r \in Services \ {s} : Still(r)
  BY <1>1, <1>2, <1>3 DEF SupForkFails, Still, Set, Types, StateType, ProcType, SupType,
     BootType, CoType, TurnType
<1> QED
  BY <1>1, <1>5, <1>6, OneMoves

LEMMA SupPublishesKeeps ==
    ASSUME IInv, NEW s \in Services, SupPublishes(s)
    PROVE  ServiceInv'
<1> USE DEF files, ctl, procs, supVars, bootVars, coVars, history, bounds
<1>1. SInv(s) /\ Types /\ ServiceInv /\ BootTimeInv /\ GoesOn /\ conf' = conf
  BY DEF IInv, ServiceInv, SInv, GoesOn, SupPublishes
<1>2. /\ phase # "off" /\ sup[s] = "forked" /\ lock[s] = "sup" /\ s \notin hand
  BY <1>1, TypesOf DEF SupPublishes, SInv, BootTimeInv, OwnersInv, FreshInv, StateInv,
     BooksInv, Runs
<1>3. /\ reg'[s] = gen[s] /\ sup'[s] = "wait" /\ lock'[s] = "free"
      /\ UNCHANGED <<phase, st, gen, alive, org, boot, res, hand, turn, known, lost>>
  BY <1>1, <1>2, TypesOf DEF SupPublishes, Set, LetGo, Types, StateType, ProcType, SupType,
     BootType, TurnType
<1>7. \A r \in Services : co'[r] = co[r] \/ r \in known
  <2>1. co \in [Services -> CoPc]
    BY <1>1 DEF Types, CoType
  <2>2. co' = co \/ OnServiceDependable(s, st, co) \/ NobodyTold(s, st)
    BY DEF SupPublishes
  <2> QED
    BY <1>1, <2>1, <2>2, Marks
<1>4. Booked(s)' = Booked(s)
  BY <1>1, <1>2, <1>3 DEF Booked, SInv, BooksInv
<1>5. SInv(s)'
  <2>1. OwnersInv(s)'
    BY <1>1, <1>2, <1>3, <1>7 DEF SInv, OwnersInv, AtRest
  <2>2. FreshInv(s)'
    BY <1>1, <1>2, <1>3, <1>4 DEF SInv, OwnersInv, FreshInv
  <2>3. StateInv(s)'
    BY <1>1, <1>2, <1>3, <1>4 DEF SInv, OwnersInv, StateInv, Runs, Running
  <2>4. BooksInv(s)'
    BY <1>1, <1>2, <1>3, <1>4, TypesOf DEF SInv, BooksInv, OwnersInv
  <2> QED
    BY <2>1, <2>2, <2>3, <2>4 DEF SInv
<1>6. \A r \in Services \ {s} : Still(r)
  BY <1>1, <1>2, <1>3, <1>7 DEF SupPublishes, Still, Set, LetGo, Types, StateType, ProcType,
     SupType, BootType, CoType, TurnType
<1> QED
  BY <1>1, <1>5, <1>6, OneMoves

LEMMA CheckPassesKeeps ==
    ASSUME IInv, NEW s \in Services, CheckPasses(s)
    PROVE  ServiceInv'
<1> USE DEF files, ctl, procs, supVars, bootVars, coVars, history, bounds
<1>1. SInv(s) /\ Types /\ ServiceInv /\ BootTimeInv /\ GoesOn /\ conf' = conf
  BY DEF IInv, ServiceInv, SInv, GoesOn, CheckPasses
<1>2. /\ phase # "off" /\ s \in chk
  BY <1>1, TypesOf DEF CheckPasses, SInv, BootTimeInv, OwnersInv, FreshInv, StateInv,
     BooksInv, Runs
<1>3. /\ st'[s] = st[s] \/ (st[s] = "up" /\ st'[s] = "ready")
      /\ chk' = chk \ {s}
      /\ UNCHANGED <<phase, lock, gen, alive, reg, sup, org, boot, res, hand, turn, known,
                     lost>>
  BY <1>1, <1>2, TypesOf DEF CheckPasses, Set, Fire, Sources, TableSources, Target, Types,
     StateType, ProcType, SupType, BootType, TurnType
<1>7. \A r \in Services : co'[r] = co[r] \/ r \in known
  <2>1. co \in [Services -> CoPc]
    BY <1>1 DEF Types, CoType
  <2>2. co' = co \/ OnServiceDependable(s, st', co) \/ NobodyTold(s, st')
    BY DEF CheckPasses
  <2> QED
    BY <1>1, <2>1, <2>2, Marks
<1>4. Booked(s)' = Booked(s)
  BY <1>1, <1>2, <1>3 DEF Booked, SInv, BooksInv
<1>5. SInv(s)'
  <2>1. OwnersInv(s)'
    BY <1>1, <1>2, <1>3, <1>7 DEF SInv, OwnersInv, AtRest
  <2>2. FreshInv(s)'
    BY <1>1, <1>2, <1>3, <1>4 DEF SInv, OwnersInv, FreshInv
  <2>3. StateInv(s)'
    BY <1>1, <1>2, <1>3, <1>4 DEF SInv, OwnersInv, StateInv, Runs, Running
  <2>4. BooksInv(s)'
    BY <1>1, <1>2, <1>3, <1>4, TypesOf DEF SInv, BooksInv, OwnersInv
  <2> QED
    BY <2>1, <2>2, <2>3, <2>4 DEF SInv
<1>6. \A r \in Services \ {s} : Still(r)
  BY <1>1, <1>2, <1>3, <1>7 DEF CheckPasses, Still, Set, Types, StateType, ProcType, SupType,
     BootType, CoType, TurnType
<1> QED
  BY <1>1, <1>5, <1>6, OneMoves

LEMMA CheckTimesOutKeeps ==
    ASSUME IInv, NEW s \in Services, CheckTimesOut(s)
    PROVE  ServiceInv'
<1> USE DEF files, ctl, procs, supVars, bootVars, coVars, history, bounds
<1>1. SInv(s) /\ Types /\ ServiceInv /\ BootTimeInv /\ GoesOn /\ conf' = conf
  BY DEF IInv, ServiceInv, SInv, GoesOn, CheckTimesOut
<1>2. /\ phase # "off" /\ s \in chk
  BY <1>1, TypesOf DEF CheckTimesOut, SInv, BootTimeInv, OwnersInv, FreshInv, StateInv,
     BooksInv, Runs
<1>3. /\ st'[s] = st[s] \/ (st[s] \in Running /\ st'[s] = "failed")
      /\ chk' = chk \ {s} /\ alive'[s] = alive[s] \ {gen[s]}
      /\ UNCHANGED <<phase, lock, gen, reg, sup, org, boot, res, hand, co, turn, known, lost>>
  BY <1>1, <1>2, TypesOf DEF CheckTimesOut, Set, Fire, Sources, TableSources, Target, Types,
     StateType, ProcType, SupType, BootType, TurnType
<1>4. Booked(s)' = {}
  BY <1>1, <1>2, <1>3 DEF Booked, SInv, BooksInv
<1>5. SInv(s)'
  <2>1. OwnersInv(s)'
    BY <1>1, <1>2, <1>3 DEF SInv, OwnersInv, AtRest
  <2>2. FreshInv(s)'
    BY <1>1, <1>2, <1>3, <1>4 DEF SInv, OwnersInv, FreshInv
  <2>3. StateInv(s)'
    BY <1>1, <1>2, <1>3, <1>4 DEF SInv, OwnersInv, StateInv, Runs, Running
  <2>4. BooksInv(s)'
    BY <1>1, <1>2, <1>3, <1>4, TypesOf DEF SInv, BooksInv, OwnersInv
  <2> QED
    BY <2>1, <2>2, <2>3, <2>4 DEF SInv
<1>6. \A r \in Services \ {s} : Still(r)
  BY <1>1, <1>2, <1>3 DEF CheckTimesOut, Still, Set, Types, StateType, ProcType, SupType,
     BootType, CoType, TurnType
<1> QED
  BY <1>1, <1>5, <1>6, OneMoves

LEMMA CheckStopsKeeps ==
    ASSUME IInv, NEW s \in Services, CheckStops(s)
    PROVE  ServiceInv'
<1> USE DEF files, ctl, procs, supVars, bootVars, coVars, history, bounds
<1>1. SInv(s) /\ Types /\ ServiceInv /\ BootTimeInv /\ GoesOn /\ conf' = conf
  BY DEF IInv, ServiceInv, SInv, GoesOn, CheckStops
<1>2. /\ s \in chk
  BY <1>1, TypesOf DEF CheckStops, SInv, BootTimeInv, OwnersInv, FreshInv, StateInv, BooksInv
<1>3. /\ chk' = chk \ {s}
      /\ UNCHANGED <<phase, st, lock, gen, alive, reg, sup, org, boot, res, hand, co, turn,
                     known, lost>>
  BY <1>1, <1>2, TypesOf DEF CheckStops, Set, Types, StateType, ProcType, SupType, BootType,
     TurnType
<1>4. Booked(s)' = Booked(s)
  BY <1>1, <1>2, <1>3 DEF Booked, SInv, BooksInv
<1>5. SInv(s)'
  <2>1. OwnersInv(s)'
    BY <1>1, <1>2, <1>3 DEF SInv, OwnersInv, AtRest
  <2>2. FreshInv(s)'
    BY <1>1, <1>2, <1>3, <1>4 DEF SInv, OwnersInv, FreshInv
  <2>3. StateInv(s)'
    BY <1>1, <1>2, <1>3, <1>4 DEF SInv, OwnersInv, StateInv, Runs, Running
  <2>4. BooksInv(s)'
    BY <1>1, <1>2, <1>3, <1>4, TypesOf DEF SInv, BooksInv, OwnersInv
  <2> QED
    BY <2>1, <2>2, <2>3, <2>4 DEF SInv
<1>6. \A r \in Services \ {s} : Still(r)
  BY <1>1, <1>2, <1>3 DEF CheckStops, Still, Set, Types, StateType, ProcType, SupType,
     BootType, CoType, TurnType
<1> QED
  BY <1>1, <1>5, <1>6, OneMoves

LEMMA ShutStopsKeeps ==
    ASSUME IInv, NEW s \in Services, ShutStops(s)
    PROVE  ServiceInv'
<1> USE DEF files, ctl, procs, supVars, bootVars, coVars, history, bounds
<1>1. SInv(s) /\ Types /\ ServiceInv /\ BootTimeInv /\ GoesOn /\ conf' = conf
  BY DEF IInv, ServiceInv, SInv, GoesOn, ShutStops
<1>2. /\ phase \notin {"off", "boot"} /\ turn[s] = "lock" /\ lock[s] = "free" /\ s \notin hand
      /\ st[s] # "stopping" /\ sup[s] # "forked" /\ boot[s] \in {"none", "done"}
      /\ reg[s] = 0 => Booked(s) = {}
      /\ reg[s] # 0 => s \in known
  <2>1. phase \notin {"off", "boot"} /\ turn[s] = "lock" /\ lock[s] = "free" /\ s \notin hand
    BY <1>1, TypesOf DEF ShutStops, SInv, BootTimeInv, OwnersInv, FreshInv, StateInv,
       BooksInv, BootTime, Runs
  <2>2. st[s] # "stopping" /\ sup[s] # "forked" /\ boot[s] \in {"none", "done"}
    BY <1>1, <2>1, TypesOf DEF ShutStops, SInv, BootTimeInv, OwnersInv, FreshInv, StateInv,
       BooksInv, BootTime, Runs
  <2>3. reg[s] = 0 => Booked(s) = {}
    BY <1>1, <2>1, <2>2, TypesOf DEF SInv, BooksInv, Booked
  <2>4. reg[s] # 0 => s \in known
    BY <1>1, <2>1, <2>2, <2>3, TypesOf DEF ShutStops, SInv, BootTimeInv, OwnersInv, FreshInv,
       StateInv, BooksInv, BootTime, Runs
  <2> QED
    BY <2>1, <2>2, <2>3, <2>4
<1>3. /\ \/ reg[s] = 0 /\ lock'[s] = "free" /\ turn'[s] = "over" /\ st'[s] # "stopping"
         \/ reg[s] # 0 /\ lock'[s] = "shut" /\ turn'[s] = "stop"
      /\ UNCHANGED <<phase, gen, alive, reg, sup, org, chk, boot, res, hand, co, known, lost>>
  <2>1. \/ reg[s] = 0 /\ lock'[s] = "free" /\ turn'[s] = "over" /\ st'[s] # "stopping"
        \/ reg[s] # 0 /\ lock'[s] = "shut" /\ turn'[s] = "stop"
    <3>1. Fire(Fire(st[s], "stop_requested"), "process_exited") # "stopping"
      BY <1>2 DEF Fire, Sources, TableSources, Target, Running
    <3>2. CASE reg[s] = 0
      BY <1>1, <1>2, <3>1, <3>2 DEF ShutStops, Set, Types, StateType, TurnType
    <3>3. CASE reg[s] # 0
      BY <1>1, <1>2, <3>3 DEF ShutStops, Set, Types, StateType, TurnType
    <3> QED
      BY <3>2, <3>3
  <2>2. UNCHANGED <<phase, gen, alive, reg, sup, org, chk, boot, res, hand, co, known, lost>>
    BY <1>1, <1>2, TypesOf DEF ShutStops, Set, Fire, Sources, TableSources, Target, Running,
       Types, StateType, ProcType, SupType, BootType, TurnType
  <2> QED
    BY <2>1, <2>2
<1>4. Booked(s)' = Booked(s)
  BY <1>1, <1>2, <1>3 DEF Booked, SInv, BooksInv
<1>5. SInv(s)'
  <2>1. OwnersInv(s)'
    BY <1>1, <1>2, <1>3 DEF SInv, OwnersInv, AtRest
  <2>2. FreshInv(s)'
    BY <1>1, <1>2, <1>3, <1>4 DEF SInv, OwnersInv, FreshInv
  <2>3. StateInv(s)'
    BY <1>1, <1>2, <1>3, <1>4 DEF SInv, OwnersInv, StateInv, Runs, Running
  <2>4. BooksInv(s)'
    BY <1>1, <1>2, <1>3, <1>4, TypesOf DEF SInv, BooksInv, OwnersInv
  <2> QED
    BY <2>1, <2>2, <2>3, <2>4 DEF SInv
<1>6. \A r \in Services \ {s} : Still(r)
  BY <1>1, <1>2, <1>3 DEF ShutStops, Still, Set, Types, StateType, ProcType, SupType,
     BootType, CoType, TurnType
<1> QED
  BY <1>1, <1>5, <1>6, OneMoves

LEMMA ShutStoppedKeeps ==
    ASSUME IInv, NEW s \in Services, ShutStopped(s)
    PROVE  ServiceInv'
<1> USE DEF files, ctl, procs, supVars, bootVars, coVars, history, bounds
<1>1. SInv(s) /\ Types /\ ServiceInv /\ BootTimeInv /\ GoesOn /\ conf' = conf
  BY DEF IInv, ServiceInv, SInv, GoesOn, ShutStopped
<1>2. /\ phase \notin {"off", "boot"} /\ lock[s] = "shut" /\ s \notin hand
      /\ turn[s] = "stop" /\ sup[s] # "forked" /\ boot[s] \in {"none", "done"}
  BY <1>1, TypesOf DEF ShutStopped, SInv, BootTimeInv, OwnersInv, FreshInv, StateInv,
     BooksInv, BootTime, Runs
<1>3. /\ alive'[s] = alive[s] \ {reg[s]} /\ reg'[s] = 0 /\ lock'[s] = "free"
      /\ turn'[s] = "over" /\ st'[s] # "stopping"
      /\ UNCHANGED <<phase, gen, sup, org, chk, boot, res, hand, co, known, lost>>
  BY <1>1, <1>2, TypesOf DEF ShutStopped, Set, Stopped, LetGo, Fire, Sources, TableSources,
     Target, Types, StateType, ProcType, SupType, BootType, TurnType
<1>4. Booked(s)' = {}
  BY <1>1, <1>2, <1>3 DEF Booked, SInv, BooksInv
<1>5. SInv(s)'
  <2>1. OwnersInv(s)'
    BY <1>1, <1>2, <1>3 DEF SInv, OwnersInv, AtRest
  <2>2. FreshInv(s)'
    BY <1>1, <1>2, <1>3, <1>4 DEF SInv, OwnersInv, FreshInv
  <2>3. StateInv(s)'
    BY <1>1, <1>2, <1>3, <1>4 DEF SInv, OwnersInv, StateInv, Runs, Running
  <2>4. BooksInv(s)'
    BY <1>1, <1>2, <1>3, <1>4, TypesOf DEF SInv, BooksInv, OwnersInv
  <2> QED
    BY <2>1, <2>2, <2>3, <2>4 DEF SInv
<1>6. \A r \in Services \ {s} : Still(r)
  BY <1>1, <1>2, <1>3 DEF ShutStopped, Still, Set, Stopped, LetGo, Types, StateType,
     ProcType, SupType, BootType, CoType, TurnType
<1> QED
  BY <1>1, <1>5, <1>6, OneMoves

LEMMA CoStartKeeps ==
    ASSUME IInv, NEW s \in Services, CoStart(s)
    PROVE  ServiceInv'
<1> USE DEF files, ctl, procs, supVars, bootVars, coVars, history, bounds
<1>1. SInv(s) /\ Types /\ ServiceInv /\ BootTimeInv /\ GoesOn /\ conf' = conf
  BY DEF IInv, ServiceInv, SInv, GoesOn, CoStart
<1>2. phase # "off" /\ co[s] = "start" /\ lock[s] = "free" /\ s \notin hand
  BY <1>1 DEF CoStart, SInv, OwnersInv, Runs
<1>3. phase # "boot" /\ boot[s] \in {"none", "done"} /\ s \in known
  BY <1>1, <1>2 DEF BootTimeInv, BootTime, SInv, OwnersInv
<1>4. CASE st[s] \in Running
  <2>1. \A r \in Services : Still(r)
    BY <1>1, <1>2, <1>3, <1>4 DEF CoStart, Still, Set, Types, CoType
  <2> QED
    BY <1>1, <2>1, NoneMoves
<1>5. CASE st[s] \notin Running
  <2>1. st[s] \in {"pending", "down", "failed"}
    BY <1>1, <1>2, <1>5, TypesOf DEF SInv, StateInv, ServiceState, Running
  <2>2. Booked(s) = {}
    BY <1>1, <1>2, <1>5 DEF SInv, StateInv, Runs
  <2>3. lock'[s] = "coord"
        /\ UNCHANGED <<phase, st, gen, alive, reg, sup, org, chk, boot, res, hand, co, turn,
                       known, lost>>
    BY <1>1, <1>5 DEF CoStart, Set, Types, StateType
  <2>4. Booked(s)' = {}
    BY <2>2, <2>3 DEF Booked
  <2>5. OwnersInv(s)'
    BY <1>1, <1>2, <1>3, <2>3 DEF SInv, OwnersInv, AtRest
  <2>6. FreshInv(s)'
    BY <1>1, <1>2, <1>3, <2>3, <2>4 DEF SInv, FreshInv
  <2>7. StateInv(s)'
    BY <1>1, <1>2, <2>1, <2>3, <2>4 DEF SInv, StateInv
  <2>8. BooksInv(s)'
    BY <1>1, <2>3, <2>4 DEF SInv, BooksInv
  <2>9. \A r \in Services \ {s} : Still(r)
    BY <1>1, <1>5 DEF CoStart, Still, Set, Types, StateType
  <2> QED
    BY <1>1, <2>5, <2>6, <2>7, <2>8, <2>9, OneMoves DEF SInv
<1> QED
  BY <1>4, <1>5

\* The coordinator's other steps, and those that only take supd to its next phase.
LEMMA QuietKeeps ==
    ASSUME IInv,
           \/ \E s \in Services : CoRecheck(s) \/ CoUnmark(s)
           \/ BootDone \/ Enable \/ Scan \/ ShutBegin \/ ShutDrain \/ ShutEnds \/ Signal
           \/ vars' = vars
    PROVE  ServiceInv'
<1> USE DEF files, ctl, procs, supVars, bootVars, coVars, history, bounds
<1>1. Types /\ ServiceInv /\ FilesType
  BY DEF IInv, Types
<1>2. GoesOn /\ conf' = conf
  BY DEF GoesOn, CoRecheck, CoUnmark, BootDone, Enable, Scan, ShutBegin, ShutDrain, ShutEnds,
     Signal, vars
<1>3. ASSUME NEW r \in Services PROVE Still(r)
  <2>1. UNCHANGED <<st, lock, gen, alive, reg, sup, org, chk, boot, res, hand, turn, known,
                    lost>>
    BY DEF CoRecheck, CoUnmark, BootDone, Enable, Scan, ShutBegin, ShutDrain, ShutEnds,
       Signal, vars
  <2>2. co'[r] = co[r] \/ (phase # "off" /\ r \in known)
    <3>1. ASSUME NEW s \in Services, CoRecheck(s) \/ CoUnmark(s)
          PROVE  co'[r] = co[r] \/ (phase # "off" /\ r \in known)
      <4>1. phase # "off" /\ co[s] # "none"
        BY <3>1 DEF CoRecheck, CoUnmark, Runs
      <4>2. s \in known
        BY <1>1, <4>1 DEF ServiceInv, OwnersInv
      <4>3. r # s => co'[r] = co[r]
        BY <1>1, <3>1 DEF CoRecheck, CoUnmark, Set, Types, CoType
      <4> QED
        BY <4>1, <4>2, <4>3
    <3>2. Scan => co'[r] = co[r] \/ (phase # "off" /\ r \in known)
      BY <1>1, WakeableType DEF Scan
    <3> QED
      BY <3>1, <3>2 DEF BootDone, Enable, ShutBegin, ShutDrain, ShutEnds, Signal, vars
  <2> QED
    BY <2>1, <2>2 DEF Still
<1> QED
  BY <1>1, <1>2, <1>3, NoneMoves

LEMMA ShutLayerKeeps ==
    ASSUME IInv, ShutLayer
    PROVE  ServiceInv'
<1> USE DEF files, ctl, procs, supVars, bootVars, coVars, history, bounds
<1> SUFFICES ASSUME NEW s \in Services PROVE SInv(s)'
  BY DEF ServiceInv, SInv
<1>1. SInv(s) /\ Types /\ phase = "stopping" /\ phase' = phase /\ conf' = conf
  BY DEF IInv, ServiceInv, SInv, ShutLayer
<1>2. UNCHANGED <<st, lock, gen, alive, reg, sup, org, chk, boot, res, hand, co, known, lost>>
  BY DEF ShutLayer
<1>3. lock[s] # "shut" /\ turn'[s] # "stop"
  BY <1>1 DEF SInv, OwnersInv, ShutLayer, TurnsAreOver
<1>4. Booked(s)' = Booked(s)
  BY <1>2 DEF Booked
<1>5. OwnersInv(s)'
  BY <1>1, <1>2, <1>3 DEF SInv, OwnersInv, AtRest
<1>6. FreshInv(s)'
  BY <1>1, <1>2, <1>4 DEF SInv, FreshInv
<1>7. StateInv(s)'
  BY <1>1, <1>2, <1>4 DEF SInv, StateInv, Runs
<1>8. BooksInv(s)'
  BY <1>1, <1>2, <1>4 DEF SInv, BooksInv
<1> QED
  BY <1>5, <1>6, <1>7, <1>8 DEF SInv

\* What is killed when supd exits is what is registered.
LEMMA KillKeeps ==
    ASSUME IInv, BootInterrupted \/ Deadline
    PROVE  ServiceInv'
<1> USE DEF files, ctl, procs, supVars, bootVars, coVars, history, bounds
<1> SUFFICES ASSUME NEW s \in Services PROVE SInv(s)'
  BY DEF ServiceInv, SInv
<1>1. SInv(s) /\ Types /\ phase \notin {"off", "exiting"} /\ phase' = "exiting" /\ conf' = conf
  BY DEF IInv, ServiceInv, SInv, BootInterrupted, Deadline
<1>2. /\ UNCHANGED <<st, lock, gen, sup, org, chk, boot, res, hand, co, turn, known, lost>>
      /\ alive'[s] = alive[s] \ {reg[s]} /\ reg'[s] = 0
  BY DEF BootInterrupted, Deadline, KillRegistered, All
<1>3. Booked(s)' = Booked(s) \ {reg[s]}
  BY <1>2 DEF Booked
<1>4. OwnersInv(s)'
  BY <1>1, <1>2 DEF SInv, OwnersInv, AtRest
<1>5. FreshInv(s)'
  BY <1>1, <1>2, <1>3 DEF SInv, FreshInv
<1>6. StateInv(s)'
  BY <1>1, <1>2, <1>3 DEF SInv, StateInv, Runs
<1>7. BooksInv(s)'
  BY <1>1, <1>2, <1>3, TypesOf DEF SInv, BooksInv
<1> QED
  BY <1>4, <1>5, <1>6, <1>7 DEF SInv

\* The bootstrap begins when everything is at rest; what has a PID file is killed.
LEMMA BootRunKeeps ==
    ASSUME IInv, BootRun
    PROVE  ServiceInv'
<1> USE DEF files, ctl, procs, supVars, bootVars, coVars, history, bounds
<1> SUFFICES ASSUME NEW s \in Services PROVE SInv(s)'
  BY DEF ServiceInv, SInv
<1>1. SInv(s) /\ Types /\ AtRest(s) /\ phase = "off" /\ phase' = "boot" /\ conf' = conf
  BY DEF IInv, ServiceInv, SInv, OwnersInv, BootRun
<1>2. /\ UNCHANGED <<lock, gen, sup, org, chk, boot, res, hand, co, turn, known, lost>>
      /\ alive'[s] = alive[s] \ {reg[s]} /\ reg'[s] = 0
      /\ st'[s] = IF s \in known /\ s \notin conf.auto THEN "down" ELSE "pending"
  BY DEF BootRun, ReapOrphans, All
<1>3. Booked(s)' = {}
  BY <1>1, <1>2 DEF Booked, SInv, BooksInv, AtRest
<1>4. OwnersInv(s)'
  BY <1>1, <1>2 DEF SInv, OwnersInv, AtRest
<1>5. FreshInv(s)'
  BY <1>1, <1>2, <1>3 DEF SInv, FreshInv, AtRest
<1>6. StateInv(s)'
  BY <1>1, <1>2, <1>3 DEF SInv, StateInv, AtRest
<1>7. BooksInv(s)'
  BY <1>1, <1>2, <1>3, TypesOf DEF SInv, BooksInv
<1> QED
  BY <1>4, <1>5, <1>6, <1>7 DEF SInv

LEMMA GoneKeeps ==
    ASSUME IInv, Gone
    PROVE  ServiceInv'
<1> USE DEF files, ctl, procs, supVars, bootVars, coVars, history, bounds
<1> SUFFICES ASSUME NEW s \in Services PROVE SInv(s)'
  BY DEF ServiceInv, SInv
<1>1. SInv(s) /\ Types /\ conf' = conf
  BY DEF IInv, ServiceInv, SInv, Gone
<1>2. /\ phase' = "off" /\ UNCHANGED <<gen, alive, reg, known>>
      /\ st'[s] = "pending" /\ lock'[s] = "free" /\ sup'[s] = "none" /\ org'[s] = "boot"
      /\ boot'[s] = "none" /\ res'[s] = 0 /\ co'[s] = "none" /\ turn'[s] = "none"
      /\ s \notin hand' /\ s \notin chk' /\ lost' = lost \cup InHand
  BY DEF Gone, All
<1>3. Booked(s)' \subseteq Booked(s)
  BY <1>2 DEF Booked
<1>4. \A g \in Booked(s)' : g = gen[s] /\ reg[s] = g
  <2> SUFFICES ASSUME NEW g \in Booked(s)', reg[s] # g PROVE FALSE
    BY <1>1, <1>3 DEF SInv, BooksInv
  <2>1. g = gen[s] /\ g \in alive[s]
    BY <1>1, <1>2, <1>3 DEF SInv, BooksInv, Booked
  <2>2. boot[s] \in {"check", "result"} \/ s \in hand \/ sup[s] = "forked"
    BY <1>1, <1>3 DEF SInv, BooksInv
  <2>3. <<s, g>> \in InHand
    BY <2>1, <2>2 DEF InHand, Lives
  <2> QED
    BY <1>2, <2>3 DEF Booked
<1>5. OwnersInv(s)'
  BY <1>1, <1>2 DEF SInv, OwnersInv, AtRest
<1>6. FreshInv(s)'
  BY <1>2 DEF FreshInv
<1>7. StateInv(s)'
  BY <1>2 DEF StateInv, Runs
<1>8. BooksInv(s)'
  BY <1>1, <1>2, <1>4, TypesOf DEF SInv, BooksInv
<1> QED
  BY <1>5, <1>6, <1>7, <1>8 DEF SInv

\* The layers the bootstrap starts are of services it has not touched.
LEMMA BootNextLayerKeeps ==
    ASSUME IInv, BootNextLayer
    PROVE  ServiceInv'
<1> USE DEF files, ctl, procs, supVars, bootVars, coVars, history, bounds
<1> SUFFICES ASSUME NEW s \in Services PROVE SInv(s)'
  BY DEF ServiceInv, SInv
<1>1. SInv(s) /\ Types /\ phase = "boot" /\ phase' = phase /\ conf' = conf /\ layers # <<>>
  BY DEF IInv, ServiceInv, SInv, BootNextLayer
<1>2. UNCHANGED <<st, lock, gen, alive, reg, sup, org, chk, res, hand, co, turn, known, lost>>
  BY DEF BootNextLayer
<1>3. boot'[s] = IF s \in Head(layers) THEN "lock" ELSE boot[s]
  BY DEF BootNextLayer
<1>4. s \in Head(layers) => boot[s] = "none" /\ s \in known /\ s \in conf.auto
  BY <1>1, NextLayer DEF IInv
<1>5. Booked(s)' = Booked(s)
  BY <1>2 DEF Booked
<1>6. OwnersInv(s)'
  BY <1>1, <1>2, <1>3, <1>4 DEF SInv, OwnersInv, AtRest
<1>7. FreshInv(s)'
  BY <1>1, <1>2, <1>3, <1>4, <1>5 DEF SInv, FreshInv
<1>8. StateInv(s)'
  BY <1>1, <1>2, <1>5 DEF SInv, StateInv, Runs
<1>9. BooksInv(s)'
  BY <1>1, <1>2, <1>3, <1>4, <1>5 DEF SInv, BooksInv
<1> QED
  BY <1>6, <1>7, <1>8, <1>9 DEF SInv

LEMMA ServiceNext == IInv /\ [Next]_vars => ServiceInv'
  BY NextCases, BootStartKeeps, BootForksKeeps, BootForkFailsKeeps, BootCheckEndsKeeps,
     BootRegistersKeeps, CoStartKeeps, ApiStartKeeps, StartForksKeeps, StartForkFailsKeeps,
     StartPublishesKeeps, ApiStopKeeps, ApiStoppedKeeps, DiscoverKeeps, EndKeeps, SupSeesKeeps,
     SupBackoffOverKeeps, SupForksKeeps, SupForkFailsKeeps, SupPublishesKeeps, CheckPassesKeeps,
     CheckTimesOutKeeps, CheckStopsKeeps, ShutStopsKeeps, ShutStoppedKeeps, QuietKeeps,
     ShutLayerKeeps, KillKeeps, BootRunKeeps, GoneKeeps, BootNextLayerKeeps

-----------------------------------------------------------------------------
(* The order of the bootstrap. *)

\* The goroutines go on, none begins and none that is done goes back.
BootsGoOn ==
    \A r \in Services : /\ boot'[r] = "none" <=> boot[r] = "none"
                        /\ boot[r] = "done" => boot'[r] = "done"

LEMMA OrderKept ==
    ASSUME Types, OrderInv, BootsGoOn, graph' = graph, conf' = conf,
           phase' = "boot" => phase = "boot" /\ layers' = layers
    PROVE  OrderInv'
<1>1. PICK cycle \in DetectCycle(graph) :
         /\ phase = "boot" => BootPlan(cycle)
         /\ \A s \in Services : boot[s] # "none" =>
               /\ s \in Startable(cycle)
               /\ \A d \in graph[s] \cap Startable(cycle) : boot[d] = "done"
  BY DEF OrderInv
<1> DEFINE P == BootLayers(graph, cycle)
<1>2. P' = P /\ Startable(cycle)' = Startable(cycle) /\ Startable(cycle) \subseteq Services
  BY DEF BootLayers, Startable, Types, FilesType
<1>3. P \in Seq(SUBSET Services)
  BY BootPlanType
<1>4. \A s \in Services : boot'[s] # "none" =>
         /\ s \in Startable(cycle)'
         /\ \A d \in graph'[s] \cap Startable(cycle)' : boot'[d] = "done"
  BY <1>1, <1>2 DEF BootsGoOn
<1>5. phase' = "boot" => BootPlan(cycle)'
  <2> SUFFICES ASSUME phase' = "boot" PROVE BootPlan(cycle)'
    OBVIOUS
  <2>1. BootPlan(cycle) /\ layers' = layers
    BY <1>1
  <2> HIDE DEF P
  <2>2. Rest(P) /\ Behind(P)' = Behind(P) /\ Rest(P)'
    BY <1>2, <2>1 DEF BootPlan, Rest, Behind, P
  <2>3. \A s \in Services : boot'[s] # "none" <=> \E i \in 1..Behind(P) : s \in P[i]
    BY <2>1 DEF BootPlan, BootsGoOn, P
  <2>4. \A i \in 1..(Behind(P) - 1) : \A s \in P[i] : boot'[s] = "done"
    <3>1. \A i \in 1..(Behind(P) - 1) : P[i] \subseteq Services
      BY <1>3, <2>2, LenProperties, ElementOfSeq DEF Rest
    <3>2. \A i \in 1..(Behind(P) - 1) : \A s \in P[i] : boot[s] = "done"
      BY <2>1 DEF BootPlan, P
    <3> QED
      BY <3>1, <3>2 DEF BootsGoOn
  <2> QED
    BY <1>2, <2>2, <2>3, <2>4 DEF BootPlan, P
<1> QED
  BY <1>1, <1>4, <1>5 DEF OrderInv

LEMMA OrderBegins ==
    ASSUME IInv, Types', BootRun
    PROVE  OrderInv'
<1>1. PICK cycle \in DetectCycle(graph') : layers' = BootLayers(graph', cycle)
  BY DEF BootRun
<1> DEFINE P == BootLayers(graph, cycle)
<1>2. layers' = P'
  <2>1. conf' = conf
    BY DEF BootRun
  <2> QED
    BY <1>1, <2>1 DEF BootLayers
<1>3. \A s \in Services : boot'[s] = "none"
  BY DEF BootRun, IInv, ServiceInv, OwnersInv, AtRest, bootVars
<1>4. layers' \in Seq(SUBSET Services)
  BY DEF Types, CtlType
<1>5. BootPlan(cycle)'
  <2> HIDE DEF P
  <2>1. Behind(P)' = 0 /\ Len(P') \in Nat
    BY <1>2, <1>4 DEF Behind
  <2>2. Rest(P)'
    BY <1>2, <2>1 DEF Rest
  <2>3. (\A s \in Services : boot[s] # "none" <=> \E i \in 1..Behind(P) : s \in P[i])'
    BY <1>3, <2>1
  <2>4. (\A i \in 1..(Behind(P) - 1) : \A s \in P[i] : boot[s] = "done")'
    BY <2>1
  <2> QED
    BY <2>2, <2>3, <2>4 DEF BootPlan, P
<1> QED
  BY <1>1, <1>3, <1>5 DEF OrderInv

LEMMA OrderNextLayer ==
    ASSUME IInv, Types', BootNextLayer
    PROVE  OrderInv'
<1>0. Types /\ OrderInv
  BY DEF IInv
<1>1. /\ phase = "boot" /\ layers # <<>> /\ layers \in Seq(SUBSET Services) /\ layers' = Tail(layers)
      /\ \A s \in Services : boot[s] \in {"none", "done"}
      /\ boot' = [s \in Services |-> IF s \in Head(layers) THEN "lock" ELSE boot[s]]
      /\ graph' = graph /\ conf' = conf
  BY <1>0 DEF BootNextLayer, Types, CtlType, files
<1>2. PICK cycle \in DetectCycle(graph) :
         /\ BootPlan(cycle)
         /\ \A s \in Services : boot[s] # "none" =>
               /\ s \in Startable(cycle)
               /\ \A d \in graph[s] \cap Startable(cycle) : boot[d] = "done"
  BY <1>0, <1>1 DEF OrderInv
<1> DEFINE P == BootLayers(graph, cycle)
           b == Behind(P)
           up == Startable(cycle)
<1>3. P \in Seq(SUBSET Services) /\ InOrder(graph, cycle, P) /\ up = StartableIn(graph, cycle)
  BY <1>0, BootPlanType
<1>4. P' = P /\ up' = up /\ up \subseteq Services
  BY <1>0, <1>1 DEF BootLayers, Startable, Types, FilesType
<1>5. /\ b \in 0..Len(P) /\ \A i \in 1..Len(layers) : layers[i] = P[b + i]
      /\ \A s \in Services : boot[s] # "none" <=> \E i \in 1..b : s \in P[i]
      /\ \A i \in 1..(b - 1) : \A s \in P[i] : boot[s] = "done"
  BY <1>2 DEF BootPlan, Rest
<1> HIDE DEF P, up
<1>6. /\ b + 1 \in 1..Len(P) /\ Head(layers) = P[b + 1]
      /\ Len(P) - Len(Tail(layers)) = b + 1
      /\ \A i \in 1..Len(Tail(layers)) : Tail(layers)[i] = P[b + 1 + i]
  BY <1>1, <1>3, <1>5, RestNext DEF Behind
<1>7. Len(P) \in Nat /\ \A i \in 1..Len(P) : P[i] \subseteq Services
  BY <1>3, ElementOfSeq, LenProperties
<1>8. Behind(P)' = b + 1
  BY <1>1, <1>4, <1>6 DEF Behind
<1>9. Rest(P)'
  BY <1>1, <1>4, <1>6, <1>7, <1>8 DEF Rest
<1> HIDE DEF b
<1>10. \A i \in 1..b : \A s \in P[i] : boot[s] = "done" /\ boot'[s] = "done"
  <2> SUFFICES ASSUME NEW i \in 1..b, NEW s \in P[i] PROVE boot[s] = "done" /\ boot'[s] = "done"
    OBVIOUS
  <2>1. i \in 1..Len(P) /\ i < b + 1
    BY <1>5, <1>6, <1>7
  <2>2. s \in Services /\ boot[s] = "done"
    BY <1>1, <1>5, <1>7, <2>1
  <2>3. P[i] \cap P[b + 1] = {}
    BY <1>3, <1>6, <2>1 DEF InOrder
  <2> QED
    BY <1>1, <1>6, <2>2, <2>3
<1>11. \A s \in Services : boot'[s] # "none" <=> \E i \in 1..(b + 1) : s \in P[i]
  <2>1. \A s \in Services : boot'[s] # "none" <=> s \in P[b + 1] \/ boot[s] # "none"
    BY <1>1, <1>6
  <2>2. b \in Nat
    BY <1>5, <1>7
  <2>3. \A s \in Services : s \in P[b + 1] \/ boot[s] # "none" <=> \E i \in 1..(b + 1) : s \in P[i]
    BY <1>5, <2>2
  <2> QED
    BY <2>1, <2>3
<1>12. BootPlan(cycle)'
  <2>1. (b + 1) - 1 = b
    BY <1>5, <1>7
  <2>2. \A i \in 1..((b + 1) - 1) : \A s \in P[i] : boot'[s] = "done"
    BY <1>10, <2>1
  <2> QED
    BY <1>4, <1>8, <1>9, <1>11, <2>2 DEF BootPlan, P
<1>13. ASSUME NEW s \in Services, boot'[s] # "none"
       PROVE  s \in up /\ \A d \in graph[s] \cap up : boot'[d] = "done"
  <2>1. PICK i \in 1..(b + 1) : s \in P[i]
    BY <1>11, <1>13
  <2>2. i \in 1..Len(P)
    BY <1>5, <1>6, <1>7
  <2>3. s \in up /\ \A d \in graph[s] \cap up : \E j \in 1..(i - 1) : d \in P[j]
    BY <1>3, <2>1, <2>2 DEF InOrder
  <2>4. 1..(i - 1) \subseteq 1..b
    BY <1>5, <1>7
  <2> QED
    BY <1>10, <2>3, <2>4
<1> QED
  BY <1>1, <1>4, <1>12, <1>13 DEF OrderInv, up

LEMMA OrderNext == IInv /\ Types' /\ [Next]_vars => OrderInv'
<1> SUFFICES ASSUME IInv, Types', [Next]_vars PROVE OrderInv'
  OBVIOUS
<1>0. Types /\ OrderInv /\ Writers /\ conf' = conf
  BY WritersAre DEF IInv, Writers
<1>1. CASE BootRun
  BY <1>1, OrderBegins
<1>2. CASE BootNextLayer
  BY <1>2, OrderNextLayer
<1>3. CASE Gone
  <2>1. graph' = <<>> /\ phase' # "boot" /\ \A s \in Services : boot'[s] = "none"
    BY <1>3 DEF Gone, All
  <2> QED
    BY <2>1, EmptyGraph DEF OrderInv
<1>4. CASE ~BootRun /\ ~BootNextLayer /\ ~Gone
  <2>1. graph' = graph
    BY <1>0, <1>4 DEF Writers
  <2>2. phase' = "boot" => phase = "boot"
    BY <1>0, <1>4 DEF Writers, BootDone, Enable, Scan, BootInterrupted, ShutBegin, ShutDrain,
       ShutEnds, Deadline
  <2>3. phase = "boot" => layers' = layers
    BY <1>0, <1>4 DEF Writers, ShutDrain, ShutLayer
  <2>4. BootsGoOn
    <3>1. ASSUME NEW s \in Services,
                 BootStart(s) \/ BootForks(s) \/ BootForkFails(s) \/ BootCheckEnds(s) \/ BootRegisters(s)
          PROVE  /\ boot[s] \notin {"none", "done"}
                 /\ \E v \in {"fork", "check", "result", "done"} : boot' = [boot EXCEPT ![s] = v]
      BY <3>1 DEF BootStart, BootForks, BootForkFails, BootCheckEnds, BootRegisters, Set
    <3>2. boot \in [Services -> BootPc]
      BY <1>0 DEF Types, BootType
    <3>3. ASSUME NEW s \in Services, NEW v \in {"fork", "check", "result", "done"},
                 boot[s] \notin {"none", "done"}, boot' = [boot EXCEPT ![s] = v]
          PROVE  BootsGoOn
      BY <3>2, <3>3 DEF BootsGoOn
    <3>4. boot' = boot => BootsGoOn
      BY DEF BootsGoOn
    <3> QED
      BY <1>0, <1>4, <3>1, <3>3, <3>4 DEF Writers
  <2> QED
    BY <1>0, <2>1, <2>2, <2>3, <2>4, OrderKept
<1> QED
  BY <1>1, <1>2, <1>3, <1>4

-----------------------------------------------------------------------------
(* The order of the shutdown. *)

\* The turns go on, none begins and none that is over goes back.
TurnsGoOn ==
    \A r \in Services : /\ turn'[r] = "none" <=> turn[r] = "none"
                        /\ turn[r] \in {"skipped", "over"} => turn'[r] = turn[r]
                        /\ turn'[r] \in {"lock", "stop", "over"} => turn[r] \in {"lock", "stop", "over"}

LEMMA TurnsSuffice ==
    ASSUME Types, TurnsInReverse, \A s \in Services : StoppedInv(s)
    PROVE  StopsInReverse
<1> SUFFICES ASSUME NEW s \in DOMAIN graph, turn[s] \in {"lock", "stop", "over"}, Acyclic(graph),
                    NEW d \in GetDependents(graph, s)
             PROVE  turn[d] \in {"skipped", "over"} /\ stopped[d] \notin alive[d]
  BY DEF StopsInReverse
<1>1. turn[d] \in {"skipped", "over"}
  BY DEF TurnsInReverse
<1>2. d \in Services
  BY DEF GetDependents, Types, FilesType
<1>3. alive[d] \subseteq 1..MaxGen
  BY <1>2 DEF Types, ProcType
<1> QED
  BY <1>1, <1>2, <1>3 DEF StoppedInv

\* Processes end, and the one that comes has a number of its own.
LEMMA AliveNext ==
    ASSUME IInv, [Next]_vars, NEW r \in Services
    PROVE  gen'[r] >= gen[r] /\ \A g \in alive'[r] : g \in alive[r] \/ g > gen[r]
<1> DEFINE Goal == gen'[r] >= gen[r] /\ \A g \in alive'[r] : g \in alive[r] \/ g > gen[r]
<1> USE DEF procs
<1>0. Types /\ Writers /\ gen \in [Services -> Nat] /\ alive \in [Services -> SUBSET Nat]
  <2>1. Types /\ Writers
    BY WritersAre DEF IInv
  <2> QED
    BY <2>1, BoundsAssumption DEF Types, ProcType
<1>1. ASSUME NEW s \in Services, Fork(s) PROVE Goal
  BY <1>0, <1>1 DEF Fork
<1>2. ASSUME gen' = gen, alive'[r] \subseteq alive[r] PROVE Goal
  BY <1>0, <1>2
<1>3. ASSUME BootRun \/ BootInterrupted \/ Deadline PROVE Goal
  <2>1. gen' = gen /\ alive'[r] \subseteq alive[r]
    BY <1>3 DEF BootRun, BootInterrupted, Deadline, ReapOrphans, KillRegistered
  <2> QED
    BY <1>2, <2>1
<1>4. ASSUME NEW s \in Services,
             BootCheckEnds(s) \/ ApiStopped(s) \/ End(s) \/ CheckTimesOut(s) \/ ShutStopped(s)
      PROVE  Goal
  <2>1. gen' = gen /\ \/ alive' = alive
                      \/ \E g \in Nat : alive' = [alive EXCEPT ![s] = @ \ {g}]
    BY <1>0, <1>4, TypesOf DEF BootCheckEnds, ApiStopped, End, CheckTimesOut, ShutStopped,
       Stopped
  <2>2. alive'[r] \subseteq alive[r]
    BY <1>0, <2>1
  <2> QED
    BY <1>2, <2>1, <2>2
<1>5. \A s \in Services : BootForks(s) \/ StartForks(s) \/ SupForks(s) => Fork(s)
  BY DEF BootForks, StartForks, SupForks
<1> QED
  BY <1>0, <1>1, <1>2, <1>3, <1>4, <1>5 DEF Writers

\* The plan of the shutdown.
LEMMA StopPlanType ==
    ASSUME Types
    PROVE  ReverseLayers(graph) \in Seq(SUBSET Services) /\ InReverse(graph, ReverseLayers(graph))
<1>1. DOMAIN graph \subseteq Services
  BY DEF Types, FilesType
<1> QED
  BY <1>1, PlanTypes, ReverseLayersInReverse

\* The next layer is of services whose turn has not come.
LEMMA TurnsOfLayer ==
    ASSUME Types, phase = "stopping" => StopPlan, ShutLayer
    PROVE  \A s \in Head(layers) : s \in Services /\ turn[s] = "none"
<1> DEFINE P == ReverseLayers(graph)
           b == Behind(P)
<1>1. phase = "stopping" /\ layers # <<>> /\ layers \in Seq(SUBSET Services)
  BY DEF ShutLayer, Types, CtlType
<1>2. P \in Seq(SUBSET Services) /\ InReverse(graph, P)
  BY StopPlanType
<1>3. b \in 0..Len(P) /\ \A i \in 1..Len(layers) : layers[i] = P[b + i]
  BY <1>1 DEF StopPlan, Rest
<1>4. \A s \in Services : turn[s] # "none" => \E i \in 1..b : s \in P[i]
  BY <1>1 DEF StopPlan
<1> HIDE DEF P
<1>5. b + 1 \in 1..Len(P) /\ Head(layers) = P[b + 1]
  BY <1>1, <1>2, <1>3, RestNext DEF Behind
<1>6. Len(P) \in Nat
  BY <1>2
<1> HIDE DEF b
<1> SUFFICES ASSUME NEW s \in Head(layers) PROVE s \in Services /\ turn[s] = "none"
  OBVIOUS
<1>7. ~\E i \in 1..b : s \in P[i]
  <2> SUFFICES ASSUME NEW i \in 1..b, s \in P[i] PROVE FALSE
    OBVIOUS
  <2>1. i \in 1..Len(P) /\ i < b + 1
    BY <1>3, <1>6
  <2>2. P[i] \cap P[b + 1] = {}
    BY <1>2, <1>5, <2>1 DEF InReverse
  <2> QED
    BY <2>2, <1>5
<1>8. s \in Services
  BY <1>2, <1>5, ElementOfSeq
<1> QED
  BY <1>4, <1>7, <1>8

\* While the shutdown is stopping a process nobody else registers or removes one, but
\* what ends it all kills it as well.
LEMMA EntryNext ==
    ASSUME IInv, [Next]_vars, NEW r \in Services, turn[r] = "stop", turn'[r] = "stop"
    PROVE  reg'[r] = reg[r] \/ reg[r] \notin alive'[r]
<1>0. Types /\ Writers /\ ServiceInv /\ reg \in [Services -> Nat] /\ turn \in [Services -> TurnPc]
  <2>1. Types /\ Writers /\ ServiceInv
    BY WritersAre DEF IInv
  <2> QED
    BY <2>1, BoundsAssumption DEF Types, ProcType, TurnType
<1>1. lock[r] = "shut" /\ phase \in {"stopping", "exiting"} /\ sup[r] # "forked" /\ r \notin hand
  BY <1>0 DEF ServiceInv, OwnersInv
<1> DEFINE Goal == reg'[r] = reg[r] \/ reg[r] \notin alive'[r]
<1>2. ~BootRun
  BY <1>1 DEF BootRun
<1>3. BootInterrupted \/ Deadline => Goal
  BY DEF BootInterrupted, Deadline, KillRegistered
<1>4. \A s \in Services : ~BootRegisters(s)
  BY <1>1 DEF BootRegisters
<1>5. \A s \in Services : StartPublishes(s) \/ SupPublishes(s) => s # r /\ reg' = [reg EXCEPT ![s] = gen[s]]
  BY <1>1 DEF StartPublishes, SupPublishes, Set
<1>6. \A s \in Services : ApiStopped(s) => s # r /\ reg' = [reg EXCEPT ![s] = 0]
  BY <1>1 DEF ApiStopped, Stopped, Set
<1>7. \A s \in Services : ShutStopped(s) => s # r /\ reg' = [reg EXCEPT ![s] = 0]
  BY <1>0 DEF ShutStopped, Stopped, Set
<1> QED
  BY <1>0, <1>2, <1>3, <1>4, <1>5, <1>6, <1>7 DEF Writers

LEMMA StoppedNext ==
    ASSUME IInv, Types', [Next]_vars, NEW r \in Services
    PROVE  StoppedInv(r)'
<1>0. Types /\ Writers /\ StoppedInv(r) /\ turn \in [Services -> TurnPc] /\ stopped \in [Services -> Nat]
  <2>1. Types /\ Writers /\ StoppedInv(r)
    BY WritersAre DEF IInv, StopInv
  <2> QED
    BY <2>1, BoundsAssumption DEF Types, TurnType
<1>1. gen'[r] >= gen[r] /\ \A g \in alive'[r] : g \in alive[r] \/ g > gen[r]
  BY AliveNext
<1>2. gen[r] \in Nat /\ gen'[r] \in Nat /\ reg[r] \in Nat /\ alive[r] \subseteq Nat
  BY <1>0, TypesOf, BoundsAssumption DEF Types, ProcType
<1>3. CASE turn'[r] = turn[r] /\ stopped'[r] = stopped[r]
  <2>1. turn[r] = "stop" => reg'[r] = reg[r] \/ reg[r] \notin alive'[r]
    BY <1>3, EntryNext
  <2>2. stopped[r] \notin alive[r] => stopped[r] \notin alive'[r]
    BY <1>0, <1>1, <1>2 DEF StoppedInv
  <2> QED
    BY <1>0, <1>1, <1>2, <1>3, <2>1, <2>2 DEF StoppedInv
<1>4. CASE Gone
  <2>1. turn'[r] = "none" /\ stopped'[r] = 0
    BY <1>4 DEF Gone, All
  <2> QED
    BY <1>2, <2>1 DEF StoppedInv
<1>5. CASE ShutLayer
  <2>1. stopped' = stopped /\ alive' = alive /\ gen' = gen
    BY <1>5 DEF ShutLayer, history, procs
  <2>2. turn'[r] \in {"lock", "skipped"} \/ turn'[r] = turn[r]
    BY <1>5 DEF ShutLayer
  <2>3. turn'[r] # turn[r] => stopped[r] = 0
    <3> SUFFICES ASSUME turn'[r] # turn[r] PROVE stopped[r] = 0
      OBVIOUS
    <3>1. r \in Head(layers)
      BY <1>5 DEF ShutLayer
    <3>2. turn[r] = "none"
      BY <1>5, <3>1, TurnsOfLayer DEF IInv, StopInv
    <3> QED
      BY <1>0, <3>2 DEF StoppedInv
  <2> QED
    BY <1>0, <1>2, <1>3, <2>1, <2>2, <2>3 DEF StoppedInv
<1>6. CASE ShutStops(r)
  <2>1. alive' = alive /\ gen' = gen /\ reg' = reg
    BY <1>6 DEF ShutStops, procs
  <2>2. stopped[r] = 0 /\ 0 \notin alive[r] /\ reg[r] <= gen[r]
    BY <1>0, <1>6 DEF ShutStops, StoppedInv, IInv, ServiceInv, BooksInv
  <2>3. \/ turn'[r] = "over" /\ stopped'[r] = stopped[r]
        \/ turn'[r] = "stop" /\ stopped'[r] = reg[r]
    <3>1. CASE reg[r] = 0
      BY <1>0, <1>6, <3>1 DEF ShutStops, Set
    <3>2. CASE reg[r] # 0
      BY <1>0, <1>6, <3>2 DEF ShutStops, Set
    <3> QED
      BY <3>1, <3>2
  <2> QED
    BY <1>2, <2>1, <2>2, <2>3 DEF StoppedInv
<1>7. CASE ShutStopped(r)
  <2>1. turn[r] = "stop" /\ turn'[r] = "over" /\ stopped'[r] = stopped[r]
    BY <1>0, <1>7 DEF ShutStopped, Set, history
  <2>2. alive'[r] = alive[r] \ {reg[r]} /\ gen'[r] = gen[r]
    BY <1>0, <1>7 DEF ShutStopped, Stopped, Types, ProcType
  <2> QED
    BY <1>0, <1>2, <2>1, <2>2 DEF StoppedInv
<1>8. ASSUME NEW s \in Services, s # r, ShutStops(s) \/ ShutStopped(s)
      PROVE  turn'[r] = turn[r] /\ stopped'[r] = stopped[r]
  <2>1. CASE ShutStopped(s)
    BY <1>0, <1>8, <2>1 DEF ShutStopped, Set, history
  <2>2. CASE ShutStops(s)
    <3>1. CASE reg[s] = 0
      BY <1>0, <1>8, <2>2, <3>1 DEF ShutStops, Set
    <3>2. CASE reg[s] # 0
      BY <1>0, <1>8, <2>2, <3>2 DEF ShutStops, Set
    <3> QED
      BY <3>1, <3>2
  <2> QED
    BY <1>8, <2>1, <2>2
<1> QED
  BY <1>0, <1>3, <1>4, <1>5, <1>6, <1>7, <1>8 DEF Writers

\* A step that begins no turn keeps the order of the turns, and the plan.
LEMMA TurnsKept ==
    ASSUME Types, TurnsInReverse, phase = "stopping" => StopPlan, TurnsGoOn, graph' = graph,
           phase' = "stopping" => phase = "stopping" /\ layers' = layers
    PROVE  TurnsInReverse' /\ (phase' = "stopping" => StopPlan')
<1>1. TurnsInReverse'
  <2>1. DOMAIN graph \subseteq Services
    BY DEF Types, FilesType
  <2>2. GetDependents(graph, {})' \subseteq Services /\ \A s : GetDependents(graph, s)' \subseteq Services
    BY <2>1 DEF GetDependents
  <2> SUFFICES ASSUME Acyclic(graph)', NEW s \in DOMAIN graph', turn'[s] \in {"lock", "stop", "over"},
                      NEW d \in GetDependents(graph', s)
               PROVE  turn'[d] \in {"skipped", "over"}
    BY DEF TurnsInReverse
  <2>3. s \in Services /\ s \in DOMAIN graph /\ d \in GetDependents(graph, s) /\ d \in Services
    BY <2>1 DEF GetDependents
  <2>4. Acyclic(graph)
    OBVIOUS
  <2> QED
    BY <2>3, <2>4 DEF TurnsInReverse, TurnsGoOn
<1>2. phase' = "stopping" => StopPlan'
  <2> SUFFICES ASSUME phase' = "stopping" PROVE StopPlan'
    OBVIOUS
  <2> DEFINE P == ReverseLayers(graph)
  <2>1. StopPlan /\ layers' = layers /\ P' = P
    OBVIOUS
  <2>2. P \in Seq(SUBSET Services)
    BY StopPlanType
  <2>3. /\ Rest(P)
        /\ \A s \in Services : turn[s] # "none" <=> \E i \in 1..Behind(P) : s \in P[i]
        /\ \A i \in 1..(Behind(P) - 1) : \A s \in P[i] : turn[s] \in {"skipped", "over"}
    BY <2>1 DEF StopPlan
  <2> HIDE DEF P
  <2>4. Behind(P)' = Behind(P) /\ Rest(P)'
    BY <2>1, <2>3 DEF Rest, Behind
  <2>5. \A s \in Services : turn'[s] # "none" <=> \E i \in 1..Behind(P) : s \in P[i]
    BY <2>3 DEF TurnsGoOn
  <2>6. \A i \in 1..(Behind(P) - 1) : \A s \in P[i] : turn'[s] \in {"skipped", "over"}
    <3>1. \A i \in 1..(Behind(P) - 1) : P[i] \subseteq Services
      BY <2>2, <2>3, LenProperties, ElementOfSeq DEF Rest
    <3> QED
      BY <2>3, <3>1 DEF TurnsGoOn
  <2> QED
    BY <2>1, <2>4, <2>5, <2>6 DEF StopPlan, P
<1> QED
  BY <1>1, <1>2

LEMMA StopBegins ==
    ASSUME IInv, Types', ShutDrain
    PROVE  TurnsInReverse' /\ StopPlan'
<1> DEFINE P == ReverseLayers(graph)
<1>1. layers' = P /\ P' = P /\ turn' = turn /\ graph' = graph
  BY DEF ShutDrain, files
<1>2. \A s \in Services : turn'[s] = "none"
  BY <1>1 DEF ShutDrain, IInv, ServiceInv, OwnersInv
<1>3. P \in Seq(SUBSET Services)
  BY <1>1 DEF Types, CtlType
<1>4. TurnsInReverse'
  <2>1. DOMAIN graph' \subseteq Services
    BY DEF Types, FilesType
  <2> QED
    BY <1>2, <2>1 DEF TurnsInReverse
<1>5. StopPlan'
  <2> HIDE DEF P
  <2>1. Behind(P)' = 0 /\ Len(P) \in Nat
    BY <1>1, <1>3 DEF Behind
  <2>2. Rest(P)'
    BY <1>1, <2>1 DEF Rest
  <2>3. (\A s \in Services : turn[s] # "none" <=> \E i \in 1..Behind(P) : s \in P[i])'
    BY <1>2, <2>1
  <2>4. (\A i \in 1..(Behind(P) - 1) : \A s \in P[i] : turn[s] \in {"skipped", "over"})'
    BY <2>1
  <2> QED
    BY <2>2, <2>3, <2>4 DEF StopPlan, P
<1> QED
  BY <1>4, <1>5

LEMMA StopNextLayer ==
    ASSUME IInv, Types', ShutLayer
    PROVE  TurnsInReverse' /\ StopPlan'
<1> DEFINE P == ReverseLayers(graph)
           b == Behind(P)
<1>0. Types /\ TurnsInReverse /\ StopPlan /\ phase = "stopping"
  BY DEF IInv, StopInv, ShutLayer
<1>1. /\ layers # <<>> /\ layers \in Seq(SUBSET Services) /\ layers' = Tail(layers)
      /\ \A s \in Services : turn[s] \in {"none", "skipped", "over"}
      /\ graph' = graph /\ P' = P
  BY <1>0 DEF ShutLayer, TurnsAreOver, Types, CtlType, files
<1>2. \A s \in Services : IF s \in Head(layers) THEN turn'[s] \in {"lock", "skipped"} ELSE turn'[s] = turn[s]
  BY DEF ShutLayer
<1>3. P \in Seq(SUBSET Services) /\ InReverse(graph, P)
  BY <1>0, StopPlanType
<1>4. /\ b \in 0..Len(P) /\ \A i \in 1..Len(layers) : layers[i] = P[b + i]
      /\ \A s \in Services : turn[s] # "none" <=> \E i \in 1..b : s \in P[i]
  BY <1>0 DEF StopPlan, Rest
<1> HIDE DEF P
<1>5. /\ b + 1 \in 1..Len(P) /\ Head(layers) = P[b + 1]
      /\ Len(P) - Len(Tail(layers)) = b + 1
      /\ \A i \in 1..Len(Tail(layers)) : Tail(layers)[i] = P[b + 1 + i]
  BY <1>1, <1>3, <1>4, RestNext DEF Behind
<1>6. Len(P) \in Nat /\ \A i \in 1..Len(P) : P[i] \subseteq Services
  BY <1>3, ElementOfSeq, LenProperties
<1>7. Behind(P)' = b + 1
  BY <1>1, <1>5 DEF Behind
<1>8. Rest(P)'
  BY <1>1, <1>5, <1>6, <1>7 DEF Rest
<1>9. \A s \in Head(layers) : s \in Services /\ turn[s] = "none"
  BY <1>0, TurnsOfLayer
<1> HIDE DEF b
<1>10. \A i \in 1..b : \A s \in P[i] : turn'[s] \in {"skipped", "over"}
  <2> SUFFICES ASSUME NEW i \in 1..b, NEW s \in P[i] PROVE turn'[s] \in {"skipped", "over"}
    OBVIOUS
  <2>1. i \in 1..Len(P) /\ s \in Services
    BY <1>4, <1>6
  <2>2. turn[s] \in {"skipped", "over"}
    BY <1>1, <1>4, <2>1
  <2> QED
    BY <1>2, <1>9, <2>1, <2>2
<1>11. \A s \in Services : turn'[s] # "none" <=> \E i \in 1..(b + 1) : s \in P[i]
  <2>1. \A s \in Services : turn'[s] # "none" <=> s \in P[b + 1] \/ turn[s] # "none"
    BY <1>2, <1>5
  <2>2. b \in Nat
    BY <1>4, <1>6
  <2>3. \A s \in Services : s \in P[b + 1] \/ turn[s] # "none" <=> \E i \in 1..(b + 1) : s \in P[i]
    BY <1>4, <2>2
  <2> QED
    BY <2>1, <2>3
<1>12. StopPlan'
  <2>1. (b + 1) - 1 = b
    BY <1>4, <1>6
  <2>2. \A i \in 1..((b + 1) - 1) : \A s \in P[i] : turn'[s] \in {"skipped", "over"}
    BY <1>10, <2>1
  <2> QED
    BY <1>1, <1>7, <1>8, <1>11, <2>2 DEF StopPlan, P
<1>13. TurnsInReverse'
  <2> SUFFICES ASSUME Acyclic(graph)', NEW s \in DOMAIN graph', turn'[s] \in {"lock", "stop", "over"},
                      NEW d \in GetDependents(graph', s)
               PROVE  turn'[d] \in {"skipped", "over"}
    BY DEF TurnsInReverse
  <2>1. s \in Services /\ d \in Services /\ Acyclic(graph) /\ s \in DOMAIN graph
        /\ d \in GetDependents(graph, s)
    BY <1>0, <1>1 DEF GetDependents, Types, FilesType
  <2>2. PICK i \in 1..(b + 1) : s \in P[i]
    BY <1>11, <2>1
  <2>3. i \in 1..Len(P)
    BY <1>4, <1>5, <1>6
  <2>4. PICK j \in 1..(i - 1) : d \in P[j]
    BY <1>3, <2>1, <2>2, <2>3 DEF InReverse
  <2>5. j \in 1..b
    BY <1>4, <1>6
  <2> QED
    BY <1>10, <2>4, <2>5
<1> QED
  BY <1>12, <1>13

LEMMA TurnsNext ==
    ASSUME IInv, Types', [Next]_vars
    PROVE  TurnsInReverse' /\ (phase' = "stopping" => StopPlan')
<1>0. Types /\ Writers /\ TurnsInReverse /\ (phase = "stopping" => StopPlan) /\ turn \in [Services -> TurnPc]
  BY WritersAre DEF IInv, StopInv, Types, TurnType
<1>1. CASE ShutDrain
  BY <1>1, StopBegins
<1>2. CASE ShutLayer
  BY <1>2, StopNextLayer
<1>3. CASE Gone \/ BootRun
  <2>1. phase' # "stopping" /\ \A s \in Services : turn'[s] = "none"
    BY <1>3 DEF Gone, BootRun, All, IInv, ServiceInv, OwnersInv, AtRest
  <2>2. DOMAIN graph' \subseteq Services
    BY DEF Types, FilesType
  <2> QED
    BY <2>1, <2>2 DEF TurnsInReverse
<1>4. CASE ~ShutDrain /\ ~ShutLayer /\ ~Gone /\ ~BootRun
  <2>1. graph' = graph
    BY <1>0, <1>4 DEF Writers
  <2>2. phase' = "stopping" => phase = "stopping"
    BY <1>0, <1>4 DEF Writers, BootDone, Enable, Scan, BootInterrupted, ShutBegin, ShutEnds,
       Deadline
  <2>3. phase = "stopping" => layers' = layers
    BY <1>0, <1>4 DEF Writers, BootNextLayer
  <2>4. TurnsGoOn
    <3>1. turn' = turn => TurnsGoOn
      BY DEF TurnsGoOn
    <3>2. ASSUME NEW s \in Services, ShutStops(s) PROVE TurnsGoOn
      <4>1. turn[s] = "lock" /\ \E v \in {"over", "stop"} : turn' = [turn EXCEPT ![s] = v]
        BY <3>2 DEF ShutStops, Set
      <4> QED
        BY <1>0, <4>1 DEF TurnsGoOn
    <3>3. ASSUME NEW s \in Services, ShutStopped(s) PROVE TurnsGoOn
      <4>1. turn[s] = "stop" /\ turn' = [turn EXCEPT ![s] = "over"]
        BY <3>3 DEF ShutStopped, Set
      <4> QED
        BY <1>0, <4>1 DEF TurnsGoOn
    <3> QED
      BY <1>0, <1>4, <3>1, <3>2, <3>3 DEF Writers
  <2> QED
    BY <1>0, <2>1, <2>2, <2>3, <2>4, TurnsKept
<1> QED
  BY <1>1, <1>2, <1>3, <1>4

LEMMA StopNext == IInv /\ Types' /\ [Next]_vars => StopInv'
  BY StoppedNext, TurnsNext DEF StopInv

-----------------------------------------------------------------------------
(* The theorems. *)

LEMMA InitIInv == Init => IInv
<1> SUFFICES ASSUME Init PROVE IInv
  OBVIOUS
<1> USE DEF Init, All
<1>1. Types
  BY TypesInit
<1>2. BootTimeInv
  BY DEF BootTimeInv, BootTime
<1>3. ServiceInv
  <2> SUFFICES ASSUME NEW s \in Services PROVE SInv(s)
    BY DEF ServiceInv, SInv
  <2>1. Booked(s) = {}
    BY DEF Booked
  <2> QED
    BY <2>1 DEF SInv, OwnersInv, AtRest, FreshInv, StateInv, Runs, BooksInv
<1>4. OrderInv
  BY EmptyGraph DEF OrderInv
<1>5. StopInv
  BY EmptyGraph DEF StopInv, StoppedInv, TurnsInReverse
<1> QED
  BY <1>1, <1>2, <1>3, <1>4, <1>5 DEF IInv

LEMMA NextIInv == IInv /\ [Next]_vars => IInv'
<1>1. IInv /\ [Next]_vars => Types'
  BY TypesNext DEF IInv
<1> QED
  BY <1>1, BootTimeNext, ServiceNext, OrderNext, StopNext DEF IInv

\* The inductive invariant holds of every reachable state; the theorems below rest on it.
THEOREM SpecIInv == Spec => []IInv
  BY InitIInv, NextIInv, PTL DEF Spec

\* The bootstrap starts only services that can be started, each when the attempts to
\* start what it depends on are over, however many services there are and whatever
\* they depend on.
THEOREM BootstrapIsInOrder == Spec => []BootInOrder
<1>1. IInv => BootInOrder
  BY DEF IInv, OrderInv, BootInOrder
<1> QED
  BY <1>1, SpecIInv, PTL

\* No two processes of a service live at once and what lives when supd is gone has its
\* PID file, but for what is lost.
THEOREM ProcessesAreBooked == Spec => []BooksAreKept
<1>1. IInv => BooksAreKept
  <2> SUFFICES ASSUME IInv, NEW s \in Services, NEW g \in alive[s], <<s, g>> \notin lost
               PROVE  /\ \A h \in alive[s] \ {g} : <<s, h>> \in lost
                      /\ phase = "off" => reg[s] = g
    BY DEF BooksAreKept
  <2>1. SInv(s)
    BY DEF IInv, ServiceInv, SInv
  <2>2. \A h \in alive[s] : <<s, h>> \notin lost => h = gen[s]
    BY <2>1 DEF SInv, BooksInv, Booked
  <2>3. g \in Booked(s)
    BY DEF Booked
  <2>4. phase = "off" => reg[s] = g
    BY <2>1, <2>3 DEF SInv, OwnersInv, AtRest, BooksInv
  <2> QED
    BY <2>2, <2>4
<1> QED
  BY <1>1, SpecIInv, PTL

\* The shutdown comes to a service when all that depend on it are through, and the
\* processes it has stopped have ended.
THEOREM ShutdownIsInReverse == Spec => []StopsInReverse
<1>1. IInv => StopsInReverse
  BY TurnsSuffice DEF IInv, StopInv
<1> QED
  BY <1>1, SpecIInv, PTL
=============================================================================
