--------------------------- MODULE DependencyGraph ---------------------------
(***************************************************************************)
(* The dependency graph of core/dependency.go: a function g from the       *)
(* services in the graph to the sets of names they depend on. A name that  *)
(* is not in the graph may be depended on; the sort ignores it.            *)
(***************************************************************************)
EXTENDS Naturals, FiniteSets, Sequences

\* Kahn's algorithm: what has been taken after k layers is what depends, within
\* the graph, only on what has been taken after k - 1.
Taken(g) ==
    LET f[k \in 0..Cardinality(DOMAIN g)] ==
            IF k = 0 THEN {}
            ELSE {s \in DOMAIN g : g[s] \cap DOMAIN g \subseteq f[k - 1]}
    IN  f

Acyclic(g) == Taken(g)[Cardinality(DOMAIN g)] = DOMAIN g

Layer(g, k) == Taken(g)[k] \ Taken(g)[k - 1]

\* The layers of an acyclic graph. With a cycle the code returns no layers and
\* the cycle instead.
TopologicalSort(g) ==
    IF ~Acyclic(g) THEN <<>>
    ELSE LET depth == Cardinality({k \in 1..Cardinality(DOMAIN g) : Layer(g, k) # {}})
         IN  [k \in 1..depth |-> Layer(g, k)]

\* The cycles through distinct services, each as the path that follows it.
CyclePaths(g) ==
    UNION {{p \in [1..n -> DOMAIN g] :
               /\ \A i, j \in 1..n : p[i] = p[j] => i = j
               /\ \A i \in 1..n : p[(i % n) + 1] \in g[p[i]]} :
           n \in 1..Cardinality(DOMAIN g)}

\* What DetectCycle can answer, as sets of services: which cycle it meets depends
\* on the order in which it visits the map. The empty set: none.
DetectCycle(g) ==
    IF Acyclic(g) THEN {{}} ELSE {{p[i] : i \in DOMAIN p} : p \in CyclePaths(g)}

DetectSelfReference(g) == {s \in DOMAIN g : s \in g[s]}

\* A bug variant: what d depends on, in place of what depends on d.
DependenciesOf(g, d) == IF d \in DOMAIN g THEN g[d] \cap DOMAIN g ELSE {}

GetDependents(g, d) == {s \in DOMAIN g : d \in g[s]}

MissingDependencies(g, knownServices) == {s \in DOMAIN g : ~(g[s] \subseteq knownServices)}

\* The stopping order; with a cycle all services are one layer.
ReverseLayers(g) ==
    LET layers == TopologicalSort(g)
        n == Len(layers)
    IN  IF Acyclic(g) THEN [k \in 1..n |-> layers[n + 1 - k]] ELSE <<DOMAIN g>>
=============================================================================
