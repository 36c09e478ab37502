-------------------------- MODULE DependencyGraph --------------------------
(***************************************************************************)
(* The dependency graph that DependencyHandler keeps in memory             *)
(* (core/dependency-graph.ts): adjacency lists in both directions, and two *)
(* caches of transitive queries that every change must invalidate where,   *)
(* and only where, an answer may change.                                   *)
(*                                                                         *)
(* A Map from task to Set of tasks is a function on some of Tasks; a key   *)
(* whose set is empty is not the same as no key.                           *)
(***************************************************************************)
EXTENDS FiniteSets

CONSTANTS
  Tasks,
  Validated   \* do callers ask wouldCreateCycle before addEdge, as
              \* DependencyHandler does?

ASSUME ValidatedAssumption == Validated \in BOOLEAN

VARIABLES
  graph,              \* graph[t]: the tasks t depends on
  reverseGraph,       \* reverseGraph[d]: the tasks that depend on d
  dependenciesCache,  \* results of getAllDependencies
  dependentsCache     \* results of getAllDependents

caches == <<dependenciesCache, dependentsCache>>
vars == <<graph, reverseGraph, caches>>

Map == UNION {[Keys -> SUBSET Tasks] : Keys \in SUBSET Tasks}

TypeOK == /\ graph \in Map
          /\ reverseGraph \in Map
          /\ dependenciesCache \in Map
          /\ dependentsCache \in Map

(* map.get(x), where undefined is treated like the empty set *)
Get(map, x) == IF x \in DOMAIN map THEN map[x] ELSE {}

Without(map, keys) == [x \in DOMAIN map \ keys |-> map[x]]

-----------------------------------------------------------------------------
(* Reachability. *)

Closed(map, S) == \A u \in S : Get(map, u) \subseteq S

(* collectTransitiveNodes: what a path of at least one edge leads to, which *)
(* no closed set that holds the neighbours can leave out.                   *)
CollectTransitiveNodes(map, x) ==
  {y \in Tasks : \A S \in SUBSET (Tasks \ {y}) :
                   Get(map, x) \subseteq S => ~ Closed(map, S)}

OnCycle(map, x) == x \in CollectTransitiveNodes(map, x)

(* Mutant: only cycles of one or two edges are found. *)
WouldCreateShortCycle(t, d) == t = d \/ t \in Get(graph, d)

(* wouldCreateCycle: the search from d finds t, or a cycle that is already  *)
(* there.  (The proposed edge itself leaves t, where the search ends.)      *)
WouldCreateCycle(t, d) ==
  \/ t = d
  \/ t \in CollectTransitiveNodes(graph, d)
  \/ \E x \in {d} \cup CollectTransitiveNodes(graph, d) : OnCycle(graph, x)

(* Mutant: only the two ends of the edge are invalidated. *)
InvalidateEnds(t, d) ==
  /\ dependenciesCache' = Without(dependenciesCache, {t})
  /\ dependentsCache' = Without(dependentsCache, {d})

(* invalidateTransitiveCaches, called before the graph changes *)
InvalidateTransitiveCaches(t, d) ==
  /\ dependenciesCache' =
       Without(dependenciesCache, {t} \cup CollectTransitiveNodes(reverseGraph, t))
  /\ dependentsCache' =
       Without(dependentsCache, {d} \cup CollectTransitiveNodes(graph, d))

-----------------------------------------------------------------------------
(* Operations. *)

Acyclic == \A x \in Tasks : ~ OnCycle(graph, x)

Inverted(edges) == {<<e[2], e[1]>> : e \in edges}

Adjacency(edges) ==
  [x \in UNION {{e[1], e[2]} : e \in edges} |-> {y \in Tasks : <<x, y>> \in edges}]

(* The constructor: the graph of the rows in the database. *)
Init ==
  /\ \E edges \in SUBSET (Tasks \X Tasks) :
       graph = Adjacency(edges) /\ reverseGraph = Adjacency(Inverted(edges))
  /\ Validated => Acyclic
  /\ dependenciesCache = [x \in {} |-> {}]
  /\ dependentsCache = [x \in {} |-> {}]

(* addEdgeInternal for one direction: both ends become keys. *)
Link(map, from, to) ==
  [x \in DOMAIN map \cup {from, to} |->
     IF x = from THEN Get(map, x) \cup {to} ELSE Get(map, x)]

AddEdge(t, d) ==
  /\ Validated => ~ WouldCreateCycle(t, d)
  /\ InvalidateTransitiveCaches(t, d)
  /\ graph' = Link(graph, t, d)
  /\ reverseGraph' = Link(reverseGraph, d, t)

(* removeEdge for one direction: the keys of both ends go if they are empty. *)
Unlink(map, from, to) ==
  LET rest == [x \in DOMAIN map |-> IF x = from THEN map[x] \ {to} ELSE map[x]]
  IN  Without(rest, {x \in {from, to} : Get(rest, x) = {}})

RemoveEdge(t, d) ==
  /\ InvalidateTransitiveCaches(t, d)
  /\ graph' = Unlink(graph, t, d)
  /\ reverseGraph' = Unlink(reverseGraph, d, t)

(* removeTask for one direction: t leaves the sets of its neighbours, and   *)
(* the sets that this empties go.                                           *)
Cut(map, t, neighbours) ==
  LET emptied == {x \in neighbours : map[x] \ {t} = {}}
  IN  [x \in DOMAIN map \ ({t} \cup (emptied \cap DOMAIN map)) |->
         IF x \in neighbours THEN map[x] \ {t} ELSE map[x]]

(* Mutant: the tasks that depend on t keep it. *)
RemoveTaskOutgoing(t) ==
  /\ dependenciesCache' =
       Without(dependenciesCache, {t} \cup CollectTransitiveNodes(reverseGraph, t))
  /\ dependentsCache' =
       Without(dependentsCache, {t} \cup CollectTransitiveNodes(graph, t))
  /\ reverseGraph' = Cut(reverseGraph, t, Get(graph, t))
  /\ graph' = Without(graph, {t})

RemoveTask(t) ==
  /\ dependenciesCache' =
       Without(dependenciesCache, {t} \cup CollectTransitiveNodes(reverseGraph, t))
  /\ dependentsCache' =
       Without(dependentsCache, {t} \cup CollectTransitiveNodes(graph, t))
  /\ reverseGraph' = Cut(reverseGraph, t, Get(graph, t))
  /\ graph' = Cut(graph, t, Get(reverseGraph, t))

(* Queries that are not answered by the cache fill it. *)
Cached(cache, x, nodes) ==
  [y \in DOMAIN cache \cup {x} |-> IF y = x THEN nodes ELSE cache[y]]

GetAllDependencies(t) ==
  /\ t \notin DOMAIN dependenciesCache
  /\ dependenciesCache' = Cached(dependenciesCache, t, CollectTransitiveNodes(graph, t))
  /\ UNCHANGED <<graph, reverseGraph, dependentsCache>>

GetAllDependents(t) ==
  /\ t \notin DOMAIN dependentsCache
  /\ dependentsCache' = Cached(dependentsCache, t, CollectTransitiveNodes(reverseGraph, t))
  /\ UNCHANGED <<graph, reverseGraph, dependenciesCache>>

Next ==
  \/ \E t, d \in Tasks : AddEdge(t, d) \/ RemoveEdge(t, d)
  \/ \E t \in Tasks : RemoveTask(t) \/ GetAllDependencies(t) \/ GetAllDependents(t)

Spec == Init /\ [][Next]_vars
-----------------------------------------------------------------------------
(* The two adjacency lists are each other's inverse, whatever is added and  *)
(* removed; otherwise resolution and cycle detection would see different    *)
(* graphs.                                                                  *)
Mirror == \A t, d \in Tasks : d \in Get(graph, t) <=> t \in Get(reverseGraph, d)

(* A cached answer is the answer that the graph as it is now would give:    *)
(* invalidation, which looks at the graph before the change, reaches every  *)
(* task whose transitive dependencies or dependents the change may touch.   *)
(* ("Called on graph mutations to ensure cache consistency")                *)
CachesFresh ==
  /\ \A x \in DOMAIN dependenciesCache :
       dependenciesCache[x] = CollectTransitiveNodes(graph, x)
  /\ \A x \in DOMAIN dependentsCache :
       dependentsCache[x] = CollectTransitiveNodes(reverseGraph, x)

(* When every edge is validated before it is added, no task ever waits for  *)
(* itself, directly or through others.  ("Ensures task dependencies form    *)
(* valid DAG, prevents deadlocks")                                          *)
ValidatedIsAcyclic == Validated => Acyclic
=============================================================================
