----------------------- MODULE DependencyGraphProofs -----------------------
(***************************************************************************)
(* Proofs about DependencyGraph, for any set of tasks, and about the       *)
(* searches of DependencySearch, for any finite one.  The lemmas on        *)
(* reachability speak of any two Maps, so that each serves the forward and *)
(* the reverse graph, before and after a step.                             *)
(***************************************************************************)
EXTENDS DependencySearch, SetInduction, SequenceTheorems

Nodes(map, x) == CollectTransitiveNodes(map, x)

(* g and r are each other's inverse. *)
Mirrored(g, r) == \A t, d \in Tasks : d \in Get(g, t) <=> t \in Get(r, d)

-----------------------------------------------------------------------------
(* Maps and the operators that change them. *)

(* What a map yields for a key is a set of tasks. *)
LEMMA GetType ==
  ASSUME NEW map \in Map, NEW x
  PROVE  Get(map, x) \in SUBSET Tasks
  BY DEF Map, Get

(* A function from some tasks to sets of tasks is a Map. *)
LEMMA MapIntro ==
  ASSUME NEW Keys \in SUBSET Tasks, NEW f \in [Keys -> SUBSET Tasks]
  PROVE  f \in Map
  BY DEF Map

(* The keys of a Map are tasks. *)
LEMMA MapDomain ==
  ASSUME NEW map \in Map
  PROVE  /\ DOMAIN map \in SUBSET Tasks
         /\ \A x \in DOMAIN map : map[x] \in SUBSET Tasks
  BY DEF Map

(* Without gives a Map that agrees with the old one on the keys it has. *)
LEMMA WithoutLemma ==
  ASSUME NEW map \in Map, NEW keys
  PROVE  /\ Without(map, keys) \in Map
         /\ DOMAIN Without(map, keys) = DOMAIN map \ keys
         /\ \A x \in DOMAIN map \ keys : Without(map, keys)[x] = map[x]
<1> DEFINE Keys == DOMAIN map \ keys
<1>1. Keys \in SUBSET Tasks /\ \A x \in Keys : map[x] \in SUBSET Tasks
  BY MapDomain
<1>2. Without(map, keys) = [x \in Keys |-> map[x]]
  BY DEF Without
<1>3. Without(map, keys) \in [Keys -> SUBSET Tasks]
  BY <1>1, <1>2
<1>4. Without(map, keys) \in Map
  BY <1>1, <1>3, MapIntro
<1> QED
  BY <1>2, <1>4

(* Link adds one edge. *)
LEMMA LinkLemma ==
  ASSUME NEW map \in Map, NEW from \in Tasks, NEW to \in Tasks
  PROVE  /\ Link(map, from, to) \in Map
         /\ \A x \in Tasks : Get(Link(map, from, to), x) =
                               Get(map, x) \cup (IF x = from THEN {to} ELSE {})
<1> DEFINE Keys == DOMAIN map \cup {from, to}
           Val(x) == IF x = from THEN Get(map, x) \cup {to} ELSE Get(map, x)
<1>1. Keys \in SUBSET Tasks
  BY MapDomain
<1>2. \A x \in Keys : Val(x) \in SUBSET Tasks
  BY GetType
<1>3. Link(map, from, to) = [x \in Keys |-> Val(x)]
  BY DEF Link
<1> HIDE DEF Val
<1>4. Link(map, from, to) \in [Keys -> SUBSET Tasks]
  BY <1>2, <1>3
<1>5. Link(map, from, to) \in Map
  BY <1>1, <1>4, MapIntro
<1>6. ASSUME NEW x \in Tasks
      PROVE  Get(Link(map, from, to), x) =
               Get(map, x) \cup (IF x = from THEN {to} ELSE {})
  <2>1. CASE x \in Keys
    BY <1>3, <2>1 DEF Get, Val
  <2>2. CASE x \notin Keys
    BY <1>3, <2>2 DEF Get
  <2> QED
    BY <2>1, <2>2
<1> QED
  BY <1>5, <1>6

(* Unlink removes one edge. *)
LEMMA UnlinkLemma ==
  ASSUME NEW map \in Map, NEW from \in Tasks, NEW to \in Tasks
  PROVE  /\ Unlink(map, from, to) \in Map
         /\ \A x \in Tasks : Get(Unlink(map, from, to), x) =
                               Get(map, x) \ (IF x = from THEN {to} ELSE {})
<1> DEFINE rest == [x \in DOMAIN map |-> IF x = from THEN map[x] \ {to} ELSE map[x]]
           gone == {x \in {from, to} : Get(rest, x) = {}}
<1>1. DOMAIN map \in SUBSET Tasks /\ \A x \in DOMAIN map : map[x] \in SUBSET Tasks
  BY MapDomain
<1>2. rest \in [DOMAIN map -> SUBSET Tasks]
  BY <1>1
<1>3. rest \in Map
  BY <1>1, <1>2, MapIntro
<1>4. Unlink(map, from, to) = Without(rest, gone)
  BY DEF Unlink
<1>5. \A x \in Tasks : Get(rest, x) = Get(map, x) \ (IF x = from THEN {to} ELSE {})
  BY DEF Get
<1>6. \A x \in gone : Get(rest, x) = {}
  OBVIOUS
<1> HIDE DEF rest, gone
<1>7. /\ Without(rest, gone) \in Map
      /\ DOMAIN Without(rest, gone) = DOMAIN rest \ gone
      /\ \A x \in DOMAIN rest \ gone : Without(rest, gone)[x] = rest[x]
  BY <1>3, WithoutLemma
<1>8. \A x \in Tasks : Get(Without(rest, gone), x) = Get(rest, x)
  BY <1>6, <1>7 DEF Get
<1> QED
  BY <1>4, <1>5, <1>7, <1>8

(* Cut takes t out of a map when `neighbours' are the keys that have it. *)
LEMMA CutLemma ==
  ASSUME NEW map \in Map, NEW t \in Tasks, NEW neighbours \in SUBSET Tasks,
         \A x \in Tasks : t \in Get(map, x) => x \in neighbours
  PROVE  /\ Cut(map, t, neighbours) \in Map
         /\ \A x \in Tasks : Get(Cut(map, t, neighbours), x) =
                               IF x = t THEN {} ELSE Get(map, x) \ {t}
<1> DEFINE emptied == {x \in neighbours : map[x] \ {t} = {}}
           Keys == DOMAIN map \ ({t} \cup (emptied \cap DOMAIN map))
           Val(x) == IF x \in neighbours THEN map[x] \ {t} ELSE map[x]
<1>1. DOMAIN map \in SUBSET Tasks /\ \A x \in DOMAIN map : map[x] \in SUBSET Tasks
  BY MapDomain
<1>2. Cut(map, t, neighbours) = [x \in Keys |-> Val(x)]
  BY DEF Cut
<1>3. Cut(map, t, neighbours) \in [Keys -> SUBSET Tasks]
  BY <1>1, <1>2
<1>4. Cut(map, t, neighbours) \in Map
  <2>1. Keys \in SUBSET Tasks
    BY <1>1
  <2> HIDE DEF Keys
  <2> QED
    BY <1>3, <2>1, MapIntro
<1>5. ASSUME NEW x \in Tasks
      PROVE  Get(Cut(map, t, neighbours), x) = IF x = t THEN {} ELSE Get(map, x) \ {t}
  <2>1. CASE x \in Keys
    <3>1. Get(Cut(map, t, neighbours), x) = Val(x)
      BY <1>2, <2>1 DEF Get
    <3>2. x # t /\ Get(map, x) = map[x]
      BY <2>1 DEF Get
    <3> QED
      BY <3>1, <3>2
  <2>2. CASE x \notin Keys
    <3>1. Get(Cut(map, t, neighbours), x) = {}
      BY <1>2, <2>2 DEF Get
    <3>2. x = t \/ x \notin DOMAIN map \/ (x \in DOMAIN map /\ map[x] \ {t} = {})
      BY <2>2
    <3> QED
      BY <3>1, <3>2 DEF Get
  <2> QED
    BY <2>1, <2>2
<1> QED
  BY <1>4, <1>5

(* The adjacency lists of a set of edges. *)
LEMMA AdjacencyLemma ==
  ASSUME NEW edges \in SUBSET (Tasks \X Tasks)
  PROVE  /\ Adjacency(edges) \in Map
         /\ \A x, y \in Tasks : y \in Get(Adjacency(edges), x) <=> <<x, y>> \in edges
<1> DEFINE Keys == UNION {{e[1], e[2]} : e \in edges}
           Val(x) == {y \in Tasks : <<x, y>> \in edges}
<1>1. Keys \in SUBSET Tasks
  OBVIOUS
<1>2. Adjacency(edges) = [x \in Keys |-> Val(x)]
  BY DEF Adjacency
<1>3. \A x, y \in Tasks : <<x, y>> \in edges => x \in Keys
  <2> SUFFICES ASSUME NEW x \in Tasks, NEW y \in Tasks, <<x, y>> \in edges
               PROVE  x \in Keys
    OBVIOUS
  <2>1. x \in {<<x, y>>[1], <<x, y>>[2]}
    OBVIOUS
  <2> QED
    BY <2>1
<1> HIDE DEF Keys
<1>4. Adjacency(edges) \in [Keys -> SUBSET Tasks]
  BY <1>1, <1>2
<1>5. Adjacency(edges) \in Map
  BY <1>1, <1>4, MapIntro
<1>6. \A x, y \in Tasks : y \in Get(Adjacency(edges), x) <=> <<x, y>> \in edges
  BY <1>2, <1>3 DEF Get
<1> QED
  BY <1>5, <1>6

-----------------------------------------------------------------------------
(* Reachability. *)

(* A node is reached when every closed set that holds the neighbours has it. *)
LEMMA NodesDefined ==
  ASSUME NEW map, NEW x
  PROVE  Nodes(map, x) =
           {y \in Tasks : \A S \in SUBSET Tasks :
                            Get(map, x) \subseteq S /\ Closed(map, S) => y \in S}
<1> SUFFICES ASSUME NEW y \in Tasks
             PROVE  (\A S \in SUBSET (Tasks \ {y}) :
                       Get(map, x) \subseteq S => ~ Closed(map, S))
                    <=> \A S \in SUBSET Tasks :
                          Get(map, x) \subseteq S /\ Closed(map, S) => y \in S
  BY DEF Nodes, CollectTransitiveNodes
<1>1. \A S : S \in SUBSET (Tasks \ {y}) <=> S \in SUBSET Tasks /\ y \notin S
  OBVIOUS
<1> QED
  BY <1>1

(* The nodes that x reaches are tasks, hold its neighbours and are closed. *)
LEMMA NodesClosed ==
  ASSUME NEW map \in Map, NEW x
  PROVE  /\ Nodes(map, x) \in SUBSET Tasks
         /\ Get(map, x) \subseteq Nodes(map, x)
         /\ Closed(map, Nodes(map, x))
<1>1. Nodes(map, x) \in SUBSET Tasks
  BY NodesDefined
<1>2. Get(map, x) \subseteq Nodes(map, x)
  BY GetType, NodesDefined
<1>3. ASSUME NEW u \in Nodes(map, x), NEW y \in Get(map, u)
      PROVE  y \in Nodes(map, x)
  <2>1. y \in Tasks
    BY GetType
  <2>2. ASSUME NEW S \in SUBSET Tasks, Get(map, x) \subseteq S, Closed(map, S)
        PROVE  y \in S
    <3>1. u \in S
      BY <2>2, NodesDefined
    <3> QED
      BY <2>2, <3>1 DEF Closed
  <2> QED
    BY <2>1, <2>2, NodesDefined
<1> QED
  BY <1>1, <1>2, <1>3 DEF Closed

(* They are the least such set. *)
LEMMA NodesLeast ==
  ASSUME NEW map, NEW x, NEW S \in SUBSET Tasks,
         Get(map, x) \subseteq S, Closed(map, S)
  PROVE  Nodes(map, x) \subseteq S
  BY NodesDefined

(* What a reached node reaches is reached. *)
LEMMA NodesTransitive ==
  ASSUME NEW map \in Map, NEW x, NEW y \in Nodes(map, x)
  PROVE  Nodes(map, y) \subseteq Nodes(map, x)
<1>1. Get(map, y) \subseteq Nodes(map, x)
  BY NodesClosed DEF Closed
<1> QED
  BY <1>1, NodesClosed, NodesLeast

(* Maps that agree on x and on what x reaches reach the same from x. *)
LEMMA NodesAgree ==
  ASSUME NEW m \in Map, NEW n \in Map, NEW x,
         Get(m, x) = Get(n, x),
         \A u \in Nodes(m, x) : Get(m, u) = Get(n, u)
  PROVE  Nodes(n, x) = Nodes(m, x)
<1>1. Closed(n, Nodes(m, x))
  BY NodesClosed DEF Closed
<1>2. Nodes(n, x) \subseteq Nodes(m, x)
  BY <1>1, NodesClosed, NodesLeast
<1>3. Closed(m, Nodes(n, x))
  BY <1>2, NodesClosed DEF Closed
<1>4. Nodes(m, x) \subseteq Nodes(n, x)
  BY <1>3, NodesClosed, NodesLeast
<1> QED
  BY <1>2, <1>4

(* If x reaches y in g, then y reaches x in the inverse graph r. *)
LEMMA NodesInverse ==
  ASSUME NEW g \in Map, NEW r \in Map, Mirrored(g, r),
         NEW x \in Tasks, NEW y \in Nodes(g, x)
  PROVE  x \in Nodes(r, y)
<1> SUFFICES ASSUME NEW S \in SUBSET Tasks, Get(r, y) \subseteq S, Closed(r, S), x \notin S
             PROVE  FALSE
  BY NodesDefined
<1> DEFINE T == Tasks \ (S \cup {y})
<1>1. y \in Tasks
  BY NodesClosed
<1>2. ASSUME NEW u \in Tasks, u \notin S
      PROVE  Get(g, u) \subseteq T
  <2> SUFFICES ASSUME NEW z \in Get(g, u) PROVE z \in T
    OBVIOUS
  <2>1. z \in Tasks /\ u \in Get(r, z)
    BY GetType DEF Mirrored
  <2>2. z \notin S
    BY <1>2, <2>1 DEF Closed
  <2>3. z # y
    BY <1>2, <2>1
  <2> QED
    BY <2>1, <2>2, <2>3
<1>3. Get(g, x) \subseteq T /\ Closed(g, T)
  BY <1>2 DEF Closed
<1>4. Nodes(g, x) \subseteq T
  BY <1>3, NodesLeast
<1> QED
  BY <1>4

(* A change of the edges at t does not change what x reaches if t does not  *)
(* reach x backwards: the tasks that invalidation leaves alone.             *)
LEMMA Untouched ==
  ASSUME NEW g \in Map, NEW r \in Map, Mirrored(g, r), NEW h \in Map,
         NEW t \in Tasks,
         \A u \in Tasks : u # t /\ t \notin Get(g, u) => Get(h, u) = Get(g, u),
         NEW x \in Tasks, x # t, x \notin Nodes(r, t)
  PROVE  Nodes(h, x) = Nodes(g, x)
<1>1. t \notin Nodes(g, x)
  BY NodesInverse
<1>2. Nodes(g, x) \in SUBSET Tasks
  BY NodesClosed
<1>3. t \notin Get(g, x)
  BY <1>1, NodesClosed
<1>4. \A u \in Nodes(g, x) : t \notin Get(g, u)
  BY <1>1, NodesClosed DEF Closed
<1>5. \A u \in Nodes(g, x) : Get(g, u) = Get(h, u)
  BY <1>1, <1>2, <1>4
<1>6. Get(g, x) = Get(h, x)
  BY <1>3
<1> QED
  BY <1>5, <1>6, NodesAgree

(* A cache that invalidation has gone over fits the changed graph. *)
LEMMA Invalidated ==
  ASSUME NEW g \in Map, NEW r \in Map, Mirrored(g, r), NEW h \in Map,
         NEW t \in Tasks,
         \A u \in Tasks : u # t /\ t \notin Get(g, u) => Get(h, u) = Get(g, u),
         NEW cache \in Map,
         \A x \in DOMAIN cache : cache[x] = Nodes(g, x)
  PROVE  LET kept == Without(cache, {t} \cup Nodes(r, t))
         IN  \A x \in DOMAIN kept : kept[x] = Nodes(h, x)
<1> DEFINE kept == Without(cache, {t} \cup Nodes(r, t))
<1> SUFFICES ASSUME NEW x \in DOMAIN kept PROVE kept[x] = Nodes(h, x)
  OBVIOUS
<1> DEFINE gone == {t} \cup Nodes(r, t)
<1>0. /\ DOMAIN Without(cache, gone) = DOMAIN cache \ gone
      /\ \A y \in DOMAIN cache \ gone : Without(cache, gone)[y] = cache[y]
  BY WithoutLemma
<1>1. x \in DOMAIN cache /\ x # t /\ x \notin Nodes(r, t) /\ kept[x] = cache[x]
  BY <1>0
<1>2. x \in Tasks
  BY <1>1, MapDomain
<1>3. Nodes(h, x) = Nodes(g, x)
  BY <1>1, <1>2, Untouched
<1> QED
  BY <1>1, <1>3

(* A query that fills a cache with its answer leaves it fresh. *)
LEMMA Filled ==
  ASSUME NEW map \in Map, NEW cache \in Map, NEW t \in Tasks,
         \A x \in DOMAIN cache : cache[x] = Nodes(map, x)
  PROVE  LET filled == Cached(cache, t, Nodes(map, t))
         IN  filled \in Map /\ \A x \in DOMAIN filled : filled[x] = Nodes(map, x)
<1> DEFINE Keys == DOMAIN cache \cup {t}
           filled == Cached(cache, t, Nodes(map, t))
<1>1. Keys \in SUBSET Tasks /\ Nodes(map, t) \in SUBSET Tasks
  BY MapDomain, NodesClosed
<1>2. \A x \in DOMAIN cache : cache[x] \in SUBSET Tasks
  BY MapDomain
<1>3. filled = [x \in Keys |-> IF x = t THEN Nodes(map, t) ELSE cache[x]]
  BY DEF Cached
<1>4. filled \in [Keys -> SUBSET Tasks]
  BY <1>1, <1>2, <1>3
<1>5. filled \in Map
  BY <1>1, <1>4, MapIntro
<1>6. \A x \in DOMAIN filled : filled[x] = Nodes(map, x)
  BY <1>3
<1> QED
  BY <1>5, <1>6

-----------------------------------------------------------------------------
(* Cycles. *)

AcyclicMap(map) == \A x \in Tasks : x \notin Nodes(map, x)

(* An edge from t to d closes no cycle if d does not reach t. *)
LEMMA NewEdgeAcyclic ==
  ASSUME NEW g \in Map, NEW h \in Map, NEW t \in Tasks, NEW d \in Tasks,
         \A u \in Tasks : Get(h, u) = Get(g, u) \cup (IF u = t THEN {d} ELSE {}),
         AcyclicMap(g), t # d, t \notin Nodes(g, d)
  PROVE  AcyclicMap(h)
<1> SUFFICES ASSUME NEW x \in Tasks PROVE x \notin Nodes(h, x)
  BY DEF AcyclicMap
<1> DEFINE S == Nodes(g, x) \cup {d} \cup Nodes(g, d)
<1>1. Nodes(g, x) \in SUBSET Tasks /\ Get(g, x) \subseteq Nodes(g, x) /\ Closed(g, Nodes(g, x))
  BY NodesClosed
<1>2. Nodes(g, d) \in SUBSET Tasks /\ Get(g, d) \subseteq Nodes(g, d) /\ Closed(g, Nodes(g, d))
  BY NodesClosed
<1>3. x \notin Nodes(g, x)
  BY DEF AcyclicMap
<1>4. CASE x = t \/ t \in Nodes(g, x)
  <2>1. S \in SUBSET Tasks
    BY <1>1, <1>2
  <2>2. Get(h, x) \subseteq S
    BY <1>1
  <2>3. Closed(h, S)
    BY <1>1, <1>2, <2>1 DEF Closed
  <2>4. Nodes(h, x) \subseteq S
    BY <2>1, <2>2, <2>3, NodesLeast
  <2>5. x # d
    BY <1>4
  <2>6. x \notin Nodes(g, d)
    BY <1>4, NodesTransitive
  <2> QED
    BY <1>3, <2>4, <2>5, <2>6
<1>5. CASE x # t /\ t \notin Nodes(g, x)
  <2>1. Get(g, x) = Get(h, x)
    BY <1>5
  <2>2. \A u \in Nodes(g, x) : Get(g, u) = Get(h, u)
    BY <1>1, <1>5
  <2>3. Nodes(h, x) = Nodes(g, x)
    BY <2>1, <2>2, NodesAgree
  <2> QED
    BY <1>3, <2>3
<1> QED
  BY <1>4, <1>5

(* A graph with fewer edges has no new cycle. *)
LEMMA FewerEdgesAcyclic ==
  ASSUME NEW g \in Map, NEW h \in Map,
         \A u \in Tasks : Get(h, u) \subseteq Get(g, u),
         AcyclicMap(g)
  PROVE  AcyclicMap(h)
<1> SUFFICES ASSUME NEW x \in Tasks PROVE Nodes(h, x) \subseteq Nodes(g, x)
  BY DEF AcyclicMap
<1>1. Closed(h, Nodes(g, x)) /\ Get(h, x) \subseteq Nodes(g, x)
  BY NodesClosed DEF Closed
<1> QED
  BY <1>1, NodesClosed, NodesLeast

-----------------------------------------------------------------------------
(* The invariant.  Mirror is what makes invalidation, which walks one of    *)
(* the graphs, right about the other; it is part of the invariant for that. *)

IInv == TypeOK /\ Mirror /\ CachesFresh /\ ValidatedIsAcyclic

(* The graph that the constructor builds. *)
LEMMA InitInv == Init => IInv
<1> SUFFICES ASSUME Init PROVE IInv
  OBVIOUS
<1>1. PICK edges \in SUBSET (Tasks \X Tasks) :
        graph = Adjacency(edges) /\ reverseGraph = Adjacency(Inverted(edges))
  BY DEF Init
<1>2. /\ Inverted(edges) \in SUBSET (Tasks \X Tasks)
      /\ \A x, y \in Tasks : <<x, y>> \in edges <=> <<y, x>> \in Inverted(edges)
  BY DEF Inverted
<1>3. graph \in Map /\ \A x, y \in Tasks : y \in Get(graph, x) <=> <<x, y>> \in edges
  BY <1>1, AdjacencyLemma
<1>4. /\ reverseGraph \in Map
      /\ \A x, y \in Tasks : y \in Get(reverseGraph, x) <=> <<x, y>> \in Inverted(edges)
  BY <1>1, <1>2, AdjacencyLemma
<1>5. /\ DOMAIN dependenciesCache = {} /\ DOMAIN dependentsCache = {}
      /\ dependenciesCache \in [{} -> SUBSET Tasks]
      /\ dependentsCache \in [{} -> SUBSET Tasks]
  BY DEF Init
<1>6. dependenciesCache \in Map /\ dependentsCache \in Map
  BY <1>5, MapIntro
<1>7. TypeOK
  BY <1>3, <1>4, <1>6 DEF TypeOK
<1>8. Mirror
  BY <1>2, <1>3, <1>4 DEF Mirror
<1>9. CachesFresh
  BY <1>5 DEF CachesFresh
<1>10. ValidatedIsAcyclic
  BY DEF Init, ValidatedIsAcyclic
<1> QED
  BY <1>7, <1>8, <1>9, <1>10 DEF IInv

(* What a change of the graph has to do: it changes only edges at t or to t *)
(* and edges at d or to d, in both lists alike, after it has invalidated    *)
(* the caches of t and d.                                                   *)
LEMMA ChangeKeepsCaches ==
  ASSUME IInv, NEW t \in Tasks, NEW d \in Tasks,
         graph' \in Map, reverseGraph' \in Map,
         \A u \in Tasks : u # t /\ t \notin Get(graph, u) => Get(graph', u) = Get(graph, u),
         \A u \in Tasks : u # d /\ d \notin Get(reverseGraph, u) =>
                           Get(reverseGraph', u) = Get(reverseGraph, u),
         dependenciesCache' =
           Without(dependenciesCache, {t} \cup CollectTransitiveNodes(reverseGraph, t)),
         dependentsCache' =
           Without(dependentsCache, {d} \cup CollectTransitiveNodes(graph, d))
  PROVE  CachesFresh' /\ dependenciesCache' \in Map /\ dependentsCache' \in Map
<1>1. graph \in Map /\ reverseGraph \in Map /\ dependenciesCache \in Map /\ dependentsCache \in Map
  BY DEF IInv, TypeOK
<1>2. Mirrored(graph, reverseGraph) /\ Mirrored(reverseGraph, graph)
  BY DEF IInv, Mirror, Mirrored
<1>3. /\ \A x \in DOMAIN dependenciesCache : dependenciesCache[x] = Nodes(graph, x)
      /\ \A x \in DOMAIN dependentsCache : dependentsCache[x] = Nodes(reverseGraph, x)
  BY DEF IInv, CachesFresh, Nodes
<1>4. /\ dependenciesCache' = Without(dependenciesCache, {t} \cup Nodes(reverseGraph, t))
      /\ dependentsCache' = Without(dependentsCache, {d} \cup Nodes(graph, d))
  BY DEF Nodes
<1>5. \A x \in DOMAIN dependenciesCache' : dependenciesCache'[x] = Nodes(graph', x)
  BY <1>1, <1>2, <1>3, <1>4, Invalidated
<1>6. \A x \in DOMAIN dependentsCache' : dependentsCache'[x] = Nodes(reverseGraph', x)
  BY <1>1, <1>2, <1>3, <1>4, Invalidated
<1>7. CachesFresh'
  BY <1>5, <1>6 DEF CachesFresh, Nodes
<1>8. Without(dependenciesCache, {t} \cup Nodes(reverseGraph, t)) \in Map
  BY <1>1, WithoutLemma
<1>9. Without(dependentsCache, {d} \cup Nodes(graph, d)) \in Map
  BY <1>1, WithoutLemma
<1> QED
  BY <1>4, <1>7, <1>8, <1>9

(* addEdge keeps the invariant. *)
LEMMA AddEdgeInv ==
  ASSUME IInv, NEW t \in Tasks, NEW d \in Tasks, AddEdge(t, d)
  PROVE  IInv'
<1>1. graph \in Map /\ reverseGraph \in Map /\ Mirror
  BY DEF IInv, TypeOK
<1>2. /\ graph' \in Map
      /\ \A x \in Tasks : Get(graph', x) = Get(graph, x) \cup (IF x = t THEN {d} ELSE {})
  BY <1>1, LinkLemma DEF AddEdge
<1>3. /\ reverseGraph' \in Map
      /\ \A x \in Tasks : Get(reverseGraph', x) =
                            Get(reverseGraph, x) \cup (IF x = d THEN {t} ELSE {})
  BY <1>1, LinkLemma DEF AddEdge
<1>4. CachesFresh' /\ dependenciesCache' \in Map /\ dependentsCache' \in Map
  <2>1. /\ dependenciesCache' =
             Without(dependenciesCache, {t} \cup CollectTransitiveNodes(reverseGraph, t))
        /\ dependentsCache' =
             Without(dependentsCache, {d} \cup CollectTransitiveNodes(graph, d))
    BY DEF AddEdge, InvalidateTransitiveCaches
  <2>2. \A u \in Tasks : u # t /\ t \notin Get(graph, u) => Get(graph', u) = Get(graph, u)
    BY <1>2
  <2>3. \A u \in Tasks : u # d /\ d \notin Get(reverseGraph, u) =>
                          Get(reverseGraph', u) = Get(reverseGraph, u)
    BY <1>3
  <2> QED
    BY <1>2, <1>3, <2>1, <2>2, <2>3, ChangeKeepsCaches
<1>5. Mirror'
  BY <1>1, <1>2, <1>3 DEF Mirror
<1>6. ASSUME Validated PROVE Acyclic'
  <2>1. AcyclicMap(graph)
    BY <1>6 DEF IInv, ValidatedIsAcyclic, Acyclic, OnCycle, AcyclicMap, Nodes
  <2>2. t # d /\ t \notin Nodes(graph, d)
    BY <1>6 DEF AddEdge, WouldCreateCycle, Nodes
  <2>3. AcyclicMap(graph')
    BY <1>1, <1>2, <2>1, <2>2, NewEdgeAcyclic
  <2> QED
    BY <2>3 DEF Acyclic, OnCycle, AcyclicMap, Nodes
<1> QED
  BY <1>2, <1>3, <1>4, <1>5, <1>6 DEF IInv, TypeOK, ValidatedIsAcyclic

(* A step that only removes edges keeps the graph acyclic. *)
LEMMA RemovalKeepsAcyclic ==
  ASSUME IInv, graph' \in Map, \A x \in Tasks : Get(graph', x) \subseteq Get(graph, x)
  PROVE  ValidatedIsAcyclic'
<1> SUFFICES ASSUME Validated PROVE Acyclic'
  BY DEF ValidatedIsAcyclic
<1>1. graph \in Map /\ AcyclicMap(graph)
  BY DEF IInv, TypeOK, ValidatedIsAcyclic, Acyclic, OnCycle, AcyclicMap, Nodes
<1>2. AcyclicMap(graph')
  BY <1>1, FewerEdgesAcyclic
<1> QED
  BY <1>2 DEF Acyclic, OnCycle, AcyclicMap, Nodes

(* removeEdge keeps the invariant. *)
LEMMA RemoveEdgeInv ==
  ASSUME IInv, NEW t \in Tasks, NEW d \in Tasks, RemoveEdge(t, d)
  PROVE  IInv'
<1>1. graph \in Map /\ reverseGraph \in Map /\ Mirror
  BY DEF IInv, TypeOK
<1>2. /\ graph' \in Map
      /\ \A x \in Tasks : Get(graph', x) = Get(graph, x) \ (IF x = t THEN {d} ELSE {})
  BY <1>1, UnlinkLemma DEF RemoveEdge
<1>3. /\ reverseGraph' \in Map
      /\ \A x \in Tasks : Get(reverseGraph', x) =
                            Get(reverseGraph, x) \ (IF x = d THEN {t} ELSE {})
  BY <1>1, UnlinkLemma DEF RemoveEdge
<1>4. CachesFresh' /\ dependenciesCache' \in Map /\ dependentsCache' \in Map
  <2>1. /\ dependenciesCache' =
             Without(dependenciesCache, {t} \cup CollectTransitiveNodes(reverseGraph, t))
        /\ dependentsCache' =
             Without(dependentsCache, {d} \cup CollectTransitiveNodes(graph, d))
    BY DEF RemoveEdge, InvalidateTransitiveCaches
  <2>2. \A u \in Tasks : u # t /\ t \notin Get(graph, u) => Get(graph', u) = Get(graph, u)
    BY <1>2
  <2>3. \A u \in Tasks : u # d /\ d \notin Get(reverseGraph, u) =>
                          Get(reverseGraph', u) = Get(reverseGraph, u)
    BY <1>3
  <2> QED
    BY <1>2, <1>3, <2>1, <2>2, <2>3, ChangeKeepsCaches
<1>5. Mirror'
  BY <1>1, <1>2, <1>3 DEF Mirror
<1>6. ValidatedIsAcyclic'
  BY <1>2, RemovalKeepsAcyclic
<1> QED
  BY <1>2, <1>3, <1>4, <1>5, <1>6 DEF IInv, TypeOK

(* removeTask keeps the invariant: with Mirror, the neighbours it visits    *)
(* are all the tasks that have t in a set.                                  *)
LEMMA RemoveTaskInv ==
  ASSUME IInv, NEW t \in Tasks, RemoveTask(t)
  PROVE  IInv'
<1>1. graph \in Map /\ reverseGraph \in Map /\ Mirror
  BY DEF IInv, TypeOK
<1>2. Get(graph, t) \in SUBSET Tasks /\ Get(reverseGraph, t) \in SUBSET Tasks
  BY <1>1, GetType
<1>3. /\ \A x \in Tasks : t \in Get(graph, x) => x \in Get(reverseGraph, t)
      /\ \A x \in Tasks : t \in Get(reverseGraph, x) => x \in Get(graph, t)
  BY <1>1 DEF Mirror
<1>4. /\ graph' \in Map
      /\ \A x \in Tasks : Get(graph', x) = IF x = t THEN {} ELSE Get(graph, x) \ {t}
  BY <1>1, <1>2, <1>3, CutLemma DEF RemoveTask
<1>5. /\ reverseGraph' \in Map
      /\ \A x \in Tasks : Get(reverseGraph', x) =
                            IF x = t THEN {} ELSE Get(reverseGraph, x) \ {t}
  BY <1>1, <1>2, <1>3, CutLemma DEF RemoveTask
<1>6. CachesFresh' /\ dependenciesCache' \in Map /\ dependentsCache' \in Map
  <2>1. /\ dependenciesCache' =
             Without(dependenciesCache, {t} \cup CollectTransitiveNodes(reverseGraph, t))
        /\ dependentsCache' =
             Without(dependentsCache, {t} \cup CollectTransitiveNodes(graph, t))
    BY DEF RemoveTask
  <2>2. \A u \in Tasks : u # t /\ t \notin Get(graph, u) => Get(graph', u) = Get(graph, u)
    BY <1>4
  <2>3. \A u \in Tasks : u # t /\ t \notin Get(reverseGraph, u) =>
                          Get(reverseGraph', u) = Get(reverseGraph, u)
    BY <1>5
  <2> QED
    BY <1>4, <1>5, <2>1, <2>2, <2>3, ChangeKeepsCaches
<1>7. Mirror'
  BY <1>1, <1>4, <1>5 DEF Mirror
<1>8. ValidatedIsAcyclic'
  BY <1>4, RemovalKeepsAcyclic
<1> QED
  BY <1>4, <1>5, <1>6, <1>7, <1>8 DEF IInv, TypeOK

(* getAllDependencies keeps the invariant. *)
LEMMA GetAllDependenciesInv ==
  ASSUME IInv, NEW t \in Tasks, GetAllDependencies(t)
  PROVE  IInv'
<1>1. /\ graph \in Map /\ dependenciesCache \in Map
      /\ \A x \in DOMAIN dependenciesCache : dependenciesCache[x] = Nodes(graph, x)
  BY DEF IInv, TypeOK, CachesFresh, Nodes
<1>2. dependenciesCache' = Cached(dependenciesCache, t, Nodes(graph, t))
  BY DEF GetAllDependencies, Nodes
<1>3. dependenciesCache' \in Map /\ \A x \in DOMAIN dependenciesCache' : dependenciesCache'[x] = Nodes(graph, x)
  BY <1>1, <1>2, Filled
<1>4. UNCHANGED <<graph, reverseGraph, dependentsCache>>
  BY DEF GetAllDependencies
<1>5. CachesFresh'
  BY <1>3, <1>4 DEF IInv, CachesFresh, Nodes
<1>6. TypeOK' /\ Mirror'
  BY <1>3, <1>4 DEF IInv, TypeOK, Mirror
<1>7. ValidatedIsAcyclic'
  BY <1>4 DEF IInv, ValidatedIsAcyclic, Acyclic, OnCycle
<1> QED
  BY <1>5, <1>6, <1>7 DEF IInv

(* getAllDependents keeps the invariant. *)
LEMMA GetAllDependentsInv ==
  ASSUME IInv, NEW t \in Tasks, GetAllDependents(t)
  PROVE  IInv'
<1>1. /\ reverseGraph \in Map /\ dependentsCache \in Map
      /\ \A x \in DOMAIN dependentsCache : dependentsCache[x] = Nodes(reverseGraph, x)
  BY DEF IInv, TypeOK, CachesFresh, Nodes
<1>2. dependentsCache' = Cached(dependentsCache, t, Nodes(reverseGraph, t))
  BY DEF GetAllDependents, Nodes
<1>3. dependentsCache' \in Map /\ \A x \in DOMAIN dependentsCache' : dependentsCache'[x] = Nodes(reverseGraph, x)
  BY <1>1, <1>2, Filled
<1>4. UNCHANGED <<graph, reverseGraph, dependenciesCache>>
  BY DEF GetAllDependents
<1>5. CachesFresh'
  BY <1>3, <1>4 DEF IInv, CachesFresh, Nodes
<1>6. TypeOK' /\ Mirror'
  BY <1>3, <1>4 DEF IInv, TypeOK, Mirror
<1>7. ValidatedIsAcyclic'
  BY <1>4 DEF IInv, ValidatedIsAcyclic, Acyclic, OnCycle
<1> QED
  BY <1>5, <1>6, <1>7 DEF IInv

(* A stuttering step. *)
LEMMA StutterInv == IInv /\ UNCHANGED vars => IInv'
  BY DEF IInv, vars, caches, TypeOK, Mirror, CachesFresh, ValidatedIsAcyclic, Acyclic, OnCycle

(* IInv is an invariant of the dependency graph. *)
THEOREM InvariantHolds == Spec => []IInv
<1>1. Init => IInv
  BY InitInv
<1>2. IInv /\ [Next]_vars => IInv'
  BY AddEdgeInv, RemoveEdgeInv, RemoveTaskInv, GetAllDependenciesInv,
     GetAllDependentsInv, StutterInv DEF Next
<1> QED
  BY <1>1, <1>2, PTL DEF Spec

(* The four maps of the dependency graph are well typed. *)
THEOREM TypeCorrect == Spec => []TypeOK
  BY InvariantHolds, PTL DEF IInv

(* The two adjacency lists are always each other's inverse. *)
THEOREM MirrorHolds == Spec => []Mirror
  BY InvariantHolds, PTL DEF IInv

(* A cached transitive answer is always what the current graph would give. *)
THEOREM CachesAreFresh == Spec => []CachesFresh
  BY InvariantHolds, PTL DEF IInv

(* A graph whose edges are all validated first never has a cycle. *)
THEOREM ValidationPreventsCycles == Spec => []ValidatedIsAcyclic
  BY InvariantHolds, PTL DEF IInv

-----------------------------------------------------------------------------
(* The searches of DependencySearch.  Each is a loop of rounds; it keeps a   *)
(* set of states that says what has been found so far, and each round brings *)
(* it nearer to its end, by the number of nodes to call and return from.     *)
USE TasksAssumption

-----------------------------------------------------------------------------
(* Paths. *)

(* A call appends to the path. *)
LEMMA PathCall ==
  ASSUME NEW p \in Seq(Tasks), NEW x \in Tasks
  PROVE  /\ Append(p, x) \in Seq(Tasks)
         /\ Len(Append(p, x)) = Len(p) + 1
         /\ ToSet(Append(p, x)) = ToSet(p) \cup {x}
         /\ Append(p, x)[Len(p) + 1] = x
         /\ \A i \in 1..Len(p) : Append(p, x)[i] = p[i]
<1> DEFINE q == Append(p, x)
<1>1. /\ q \in Seq(Tasks) /\ Len(q) = Len(p) + 1 /\ Len(p) \in Nat
      /\ \A i \in 1..Len(p) : q[i] = p[i]
      /\ q[Len(p) + 1] = x
  BY AppendProperties
<1>2. DOMAIN q = 1..Len(p) + 1 /\ DOMAIN p = 1..Len(p)
  BY <1>1
<1> HIDE DEF q
<1>3. ToSet(q) = ToSet(p) \cup {x}
  BY <1>1, <1>2 DEF ToSet
<1> QED BY <1>1, <1>3 DEF q

(* A return takes the last node off the path. *)
LEMMA PathReturn ==
  ASSUME NEW p \in Seq(Tasks), p # << >>
  PROVE  /\ Front(p) \in Seq(Tasks)
         /\ Len(p) \in Nat /\ Len(p) >= 1 /\ Len(Front(p)) = Len(p) - 1
         /\ Last(p) \in Tasks
         /\ ToSet(p) = ToSet(Front(p)) \cup {Last(p)}
         /\ \A i \in 1..Len(p) - 1 : Front(p)[i] = p[i]
<1> DEFINE q == Front(p)
<1>1. Len(p) \in Nat /\ Len(p) >= 1 /\ DOMAIN p = 1..Len(p) /\ \A i \in 1..Len(p) : p[i] \in Tasks
  BY EmptySeq, LenProperties, ElementOfSeq
<1>2. /\ q \in Seq(Tasks) /\ Len(q) = Len(p) - 1
      /\ \A i \in 1..Len(p) - 1 : q[i] = p[i]
  <2>1. \A i \in 1..Len(p) - 1 : p[i] \in Tasks
    BY <1>1
  <2>2. q = [i \in 1..Len(p) - 1 |-> p[i]]
    BY <1>1 DEF Front
  <2>3. Len(p) - 1 \in Nat
    BY <1>1
  <2> HIDE DEF q
  <2> QED BY <2>1, <2>2, <2>3, IsASeq
<1>3. DOMAIN q = 1..Len(p) - 1
  BY <1>2
<1> HIDE DEF q
<1>4. ToSet(p) = ToSet(q) \cup {Last(p)}
  BY <1>1, <1>2, <1>3 DEF ToSet, Last
<1> QED BY <1>1, <1>2, <1>4 DEF Last, q

(* Every node of a path leads to the ones after it. *)
Linked(map, p) == \A i, j \in 1..Len(p) : i < j => p[j] \in Nodes(map, p[i])

LEMMA LinkedCall ==
  ASSUME NEW map \in Map, NEW p \in Seq(Tasks), NEW x \in Tasks, Linked(map, p),
         p # << >> => x \in Get(map, Last(p))
  PROVE  Linked(map, Append(p, x))
<1> DEFINE q == Append(p, x)
<1>1. Len(p) \in Nat /\ Len(q) = Len(p) + 1 /\ q[Len(p) + 1] = x /\ \A i \in 1..Len(p) : q[i] = p[i]
  BY PathCall, LenProperties
<1> HIDE DEF q
<1>2. ASSUME NEW i \in 1..Len(p) PROVE x \in Nodes(map, p[i])
  <2>1. p # << >> /\ x \in Get(map, Last(p))
    BY <1>1
  <2>2. CASE i = Len(p)
    BY <2>1, <2>2, NodesClosed DEF Last
  <2>3. CASE i # Len(p)
    <3>1. Last(p) \in Nodes(map, p[i])
      BY <1>1, <2>3 DEF Linked, Last
    <3> QED BY <2>1, <3>1, NodesClosed DEF Closed
  <2> QED BY <2>2, <2>3
<1>3. Linked(map, q)
  BY <1>1, <1>2 DEF Linked
<1> QED BY <1>3 DEF q

LEMMA LinkedReturn ==
  ASSUME NEW map \in Map, NEW p \in Seq(Tasks), p # << >>, Linked(map, p)
  PROVE  Linked(map, Front(p))
<1>1. /\ Len(p) \in Nat /\ Len(Front(p)) = Len(p) - 1
      /\ \A i \in 1..Len(p) - 1 : Front(p)[i] = p[i]
  BY PathReturn
<1> QED BY <1>1 DEF Linked

(* A node before the last leads to it; so if the last leads back, there is  *)
(* a cycle. *)
LEMMA BackEdge ==
  ASSUME NEW map \in Map, NEW p \in Seq(Tasks), p # << >>, Linked(map, p),
         NEW x \in Get(map, Last(p)), x \in ToSet(p)
  PROVE  x \in Nodes(map, x)
<1>1. PICK i \in 1..Len(p) : x = p[i]
  BY DEF ToSet
<1>2. CASE i = Len(p)
  BY <1>1, <1>2, NodesClosed DEF Last
<1>3. CASE i # Len(p)
  <2>1. Len(p) \in Nat
    BY LenProperties
  <2>2. Last(p) \in Nodes(map, x)
    BY <1>1, <1>3, <2>1 DEF Linked, Last
  <2> QED BY <2>2, NodesClosed DEF Closed
<1> QED BY <1>2, <1>3

-----------------------------------------------------------------------------
(* Every call visits a node that was not visited, and every return makes    *)
(* the path shorter: what is left of a search with this path and these      *)
(* nodes visited.                                                           *)
Left(path, visited) == 2 * (Cardinality(Tasks) - Cardinality(visited)) + Len(path)

LEMMA SizeType ==
  /\ Cardinality(Tasks) \in Nat
  /\ \A S \in SUBSET Tasks : /\ IsFiniteSet(S) /\ Cardinality(S) \in Nat
                             /\ Cardinality(S) <= Cardinality(Tasks)
<1>1. Cardinality(Tasks) \in Nat
  BY FS_CardinalityType
<1>2. ASSUME NEW S \in SUBSET Tasks
      PROVE  IsFiniteSet(S) /\ Cardinality(S) \in Nat /\ Cardinality(S) <= Cardinality(Tasks)
  BY FS_Subset, FS_CardinalityType
<1> QED BY <1>1, <1>2

LEMMA LeftType ==
  ASSUME NEW p \in Seq(Tasks), NEW V \in SUBSET Tasks
  PROVE  Left(p, V) \in Nat
BY SizeType, LenProperties DEF Left

LEMMA LeftCall ==
  ASSUME NEW p \in Seq(Tasks), NEW V \in SUBSET Tasks, NEW x \in Tasks \ V
  PROVE  /\ Left(Append(p, x), V \cup {x}) < Left(p, V)
         /\ Left(p, V) > 1
<1>1. Cardinality(V \cup {x}) = Cardinality(V) + 1
  BY SizeType, FS_AddElement
<1>2. V \cup {x} \in SUBSET Tasks
  OBVIOUS
<1>3. /\ Cardinality(V) \in Nat /\ Cardinality(Tasks) \in Nat /\ Len(p) \in Nat
      /\ Cardinality(V) + 1 <= Cardinality(Tasks)
  BY <1>1, <1>2, SizeType, LenProperties
<1>4. Len(Append(p, x)) = Len(p) + 1
  BY PathCall
<1> QED BY <1>1, <1>3, <1>4 DEF Left

LEMMA LeftReturn ==
  ASSUME NEW p \in Seq(Tasks), p # << >>, NEW V \in SUBSET Tasks
  PROVE  Left(Front(p), V) < Left(p, V) /\ Left(p, V) >= 1
<1>1. Len(Front(p)) = Len(p) - 1 /\ Len(p) \in Nat /\ Len(p) >= 1
  BY PathReturn
<1>2. /\ Cardinality(V) \in Nat /\ Cardinality(Tasks) \in Nat
      /\ Cardinality(V) <= Cardinality(Tasks)
  BY SizeType
<1> QED BY <1>1, <1>2 DEF Left

-----------------------------------------------------------------------------
(* collectTransitiveNodes. *)

(* What the walk from a start keeps: it visits only what the start leads    *)
(* to, and it has collected the neighbours of the nodes it has returned     *)
(* from.                                                                    *)
CollectLoop(map, start) ==
  {s \in [path : Seq(Tasks), visited : SUBSET Tasks, result : SUBSET Tasks] :
     /\ start \in s.visited
     /\ ToSet(s.path) \subseteq s.visited
     /\ s.visited \subseteq {start} \cup Nodes(map, start)
     /\ s.result \subseteq Nodes(map, start)
     /\ \A v \in s.visited \ ToSet(s.path) : Get(map, v) \subseteq s.visited \cap s.result}

(* Every round is nearer to the end. *)
LEMMA CollectRoundStep ==
  ASSUME NEW map \in Map, NEW start \in Tasks, NEW s \in CollectLoop(map, start)
  PROVE  LET r == CollectRound(map, s)
         IN /\ r \in CollectLoop(map, start)
            /\ IF s.path = << >> THEN r = s
               ELSE Left(r.path, r.visited) < Left(s.path, s.visited)
<1> DEFINE last == Last(s.path)
           neighbours == Get(map, last)
           calls == neighbours \ s.visited
           next == CHOOSE y \in calls : TRUE
           r == CollectRound(map, s)
<1>1. /\ s = [path |-> s.path, visited |-> s.visited, result |-> s.result]
      /\ s.path \in Seq(Tasks) /\ s.visited \in SUBSET Tasks /\ s.result \in SUBSET Tasks
      /\ start \in s.visited
      /\ ToSet(s.path) \subseteq s.visited
      /\ s.visited \subseteq {start} \cup Nodes(map, start)
      /\ s.result \subseteq Nodes(map, start)
      /\ \A v \in s.visited \ ToSet(s.path) : Get(map, v) \subseteq s.visited \cap s.result
  BY DEF CollectLoop
<1>2. CASE s.path = << >>
  BY <1>2 DEF CollectRound
<1>3. CASE s.path # << >>
  <2>1. /\ last \in Tasks /\ last \in ToSet(s.path)
        /\ neighbours \in SUBSET Tasks /\ neighbours \subseteq Nodes(map, start)
    <3>1. last \in Tasks /\ last \in ToSet(s.path)
      BY <1>1, <1>3, PathReturn
    <3>2. last = start \/ last \in Nodes(map, start)
      BY <1>1, <3>1
    <3> QED BY <3>1, <3>2, GetType, NodesClosed DEF Closed
  <2> HIDE DEF last
  <2>2. CASE calls # {}
    <3>1. next \in calls
      BY <2>2
    <3> HIDE DEF next
    <3>2. next \in Tasks /\ next \notin s.visited /\ next \in Nodes(map, start)
      BY <2>1, <3>1
    <3>3. r = [path |-> Append(s.path, next), visited |-> s.visited \cup {next},
               result |-> s.result]
      BY <1>1, <1>3, <2>2 DEF CollectRound, Call, next, last
    <3>4. /\ Append(s.path, next) \in Seq(Tasks)
          /\ ToSet(Append(s.path, next)) = ToSet(s.path) \cup {next}
      BY <1>1, <3>2, PathCall
    <3>5. r \in CollectLoop(map, start)
      <4> HIDE DEF r
      <4> QED BY <1>1, <3>2, <3>3, <3>4 DEF CollectLoop
    <3>6. Left(Append(s.path, next), s.visited \cup {next}) < Left(s.path, s.visited)
      BY <1>1, <3>2, LeftCall
    <3> QED BY <1>3, <3>3, <3>5, <3>6
  <2>3. CASE calls = {}
    <3>1. r = [path |-> Front(s.path), visited |-> s.visited, result |-> s.result \cup neighbours]
      BY <1>1, <1>3, <2>3 DEF CollectRound, Return, last
    <3>2. /\ Front(s.path) \in Seq(Tasks)
          /\ ToSet(s.path) = ToSet(Front(s.path)) \cup {last}
      BY <1>1, <1>3, PathReturn DEF last
    <3>3. neighbours \subseteq s.visited
      BY <2>3
    <3>4. r \in CollectLoop(map, start)
      <4> HIDE DEF r, calls
      <4>1. ASSUME NEW v \in s.visited \ ToSet(Front(s.path))
            PROVE  Get(map, v) \subseteq s.visited \cap (s.result \cup neighbours)
        <5>1. CASE v = last
          BY <3>3, <5>1
        <5>2. CASE v # last
          BY <1>1, <3>2, <5>2
        <5> QED BY <5>1, <5>2
      <4> HIDE DEF neighbours
      <4> QED BY <1>1, <2>1, <3>1, <3>2, <4>1 DEF CollectLoop
    <3>5. Left(Front(s.path), s.visited) < Left(s.path, s.visited)
      BY <1>1, <1>3, LeftReturn
    <3> QED BY <1>3, <3>1, <3>4, <3>5
  <2> QED BY <2>2, <2>3
<1> QED BY <1>2, <1>3

(* The walk collects what the start leads to, cycles or not. *)
LEMMA CollectResult ==
  ASSUME NEW map \in Map, NEW start \in Tasks
  PROVE  Collect(map, start) = Nodes(map, start)
<1> DEFINE a == [path |-> <<start>>, visited |-> {start}, result |-> {}]
           S == CollectLoop(map, start)
           g == [s \in S |-> CollectRound(map, s)]
           d == [s \in S |-> Left(s.path, s.visited)]
           n == MaxRounds
           after == CHOOSE after : after = [k \in Nat |-> IF k = 0 THEN a
                                                          ELSE CollectRound(map, after[k - 1])]
           l == after[n]
<1>1. n \in Nat
  BY SizeType DEF MaxRounds
<1>2. a \in S
  <2>1. <<start>> \in Seq(Tasks) /\ ToSet(<<start>>) = {start}
    BY DEF ToSet
  <2> QED BY <2>1 DEF CollectLoop
<1>3. g \in [S -> S]
  BY CollectRoundStep
<1>4. after = [k \in Nat |-> IF k = 0 THEN a ELSE CollectRound(map, after[k - 1])]
  <2>1. \E f \in [Nat -> S] : f[0] = a /\ \A k \in Nat : f[k + 1] = g[f[k]]
    <3> HIDE DEF g, S, a
    <3>1. \E f : IsRounds(f, S, a, g)
      BY ONLY <1>2, <1>3, RoundsExist
    <3> QED BY ONLY <3>1 DEF IsRounds
  <2>2. PICK f \in [Nat -> S] : f[0] = a /\ \A k \in Nat : f[k + 1] = g[f[k]]
    BY <2>1
  <2>3. f = [k \in Nat |-> IF k = 0 THEN a ELSE CollectRound(map, f[k - 1])]
    <3> SUFFICES ASSUME NEW k \in Nat, k # 0 PROVE f[k] = CollectRound(map, f[k - 1])
      <4> HIDE DEF a, S
      <4> QED BY <2>2
    <3>1. k - 1 \in Nat /\ f[k - 1] \in S /\ f[(k - 1) + 1] = g[f[k - 1]]
      <4> HIDE DEF g, S
      <4> QED BY <2>2
    <3> HIDE DEF S
    <3> QED BY <3>1
  <2> HIDE DEF a
  <2> QED BY <2>3
<1> HIDE DEF after
<1>5. /\ after[0] = a
      /\ \A k \in Nat : after[k] \in S => after[k + 1] = g[after[k]]
  <2>1. after[0] = a
    <3> HIDE DEF a
    <3> QED BY <1>4
  <2>2. ASSUME NEW k \in Nat, after[k] \in S PROVE after[k + 1] = g[after[k]]
    <3>1. after[k + 1] = CollectRound(map, after[k])
      <4> HIDE DEF a
      <4> QED BY <1>4, k + 1 \in Nat, k + 1 # 0, (k + 1) - 1 = k
    <3> HIDE DEF S
    <3> QED BY <2>2, <3>1
  <2> QED BY <2>1, <2>2
<1>6. l \in S /\ g[l] = l
  <2>1. d \in [S -> Nat] /\ \A s \in S : g[s] = s \/ d[g[s]] < d[s]
    BY CollectRoundStep, LeftType DEF CollectLoop
  <2>2. d[a] <= n
    <3>1. Len(<<start>>) = 1 /\ Cardinality({start}) = 1
      BY FS_Singleton
    <3>2. Left(<<start>>, {start}) <= n
      BY <3>1, SizeType DEF Left, MaxRounds
    <3> HIDE DEF S, n
    <3> QED BY <1>2, <3>2
  <2> HIDE DEF S, g, d, a
  <2>3. after[0] \in S /\ d[after[0]] <= n
    BY <1>2, <1>5, <2>2
  <2> HIDE DEF n
  <2> QED BY ONLY <1>1, <1>3, <1>5, <2>1, <2>3, LoopEnds DEF l
<1> HIDE DEF l
<1>7. l.path = << >>
  <2>1. CollectRound(map, l) = l
    <3> HIDE DEF S
    <3> QED BY <1>6
  <2>2. l \in S /\ Left(l.path, l.visited) \in Nat
    BY <1>6, LeftType DEF CollectLoop
  <2> QED BY <2>1, <2>2, CollectRoundStep
<1>8. Collect(map, start) = l.result
  BY DEF Collect, l, after
<1>9. l.result = Nodes(map, start)
  <2>1. /\ start \in l.visited /\ l.visited \subseteq {start} \cup Nodes(map, start)
        /\ l.result \in SUBSET Tasks /\ l.result \subseteq Nodes(map, start)
        /\ \A v \in l.visited : Get(map, v) \subseteq l.visited \cap l.result
    BY <1>6, <1>7 DEF CollectLoop, ToSet
  <2> DEFINE R == l.visited \cap l.result
  <2>2. R \in SUBSET Tasks /\ Get(map, start) \subseteq R /\ Closed(map, R)
    BY <2>1 DEF Closed
  <2>3. Nodes(map, start) \subseteq R
    BY <2>2, NodesLeast
  <2> QED BY <2>1, <2>3
<1> QED BY <1>8, <1>9

-----------------------------------------------------------------------------
(* detectCycleDFS. *)

(* What a search from some roots reaches. *)
Reached(map, roots) == {y \in Tasks : y \in roots \/ \E r \in roots : y \in Nodes(map, r)}

LEMMA ReachedClosed ==
  ASSUME NEW map \in Map, NEW roots \in SUBSET Tasks, NEW x \in Reached(map, roots)
  PROVE  Get(map, x) \subseteq Reached(map, roots)
<1> SUFFICES ASSUME NEW y \in Get(map, x) PROVE y \in Reached(map, roots)
  OBVIOUS
<1>1. y \in Tasks
  BY GetType
<1>2. CASE x \in roots
  BY <1>1, <1>2, NodesClosed DEF Reached
<1>3. CASE x \notin roots
  <2>1. PICK r \in roots : x \in Nodes(map, r)
    BY <1>3 DEF Reached
  <2>2. y \in Nodes(map, r)
    BY <2>1, NodesClosed DEF Closed
  <2> QED BY <1>1, <2>2 DEF Reached
<1> QED BY <1>2, <1>3

(* What the search keeps: the nodes it has returned from lead only to each  *)
(* other and to no cycle or target, and it has a reason to say otherwise.   *)
DetectLoop(map, roots, targets) ==
  {s \in [path : Seq(Tasks), visited : SUBSET Tasks, found : BOOLEAN] :
     LET done == s.visited \ ToSet(s.path)
     IN /\ ToSet(s.path) \subseteq s.visited
        /\ s.visited \subseteq Reached(map, roots)
        /\ Linked(map, s.path)
        /\ \A v \in done : Get(map, v) \subseteq done /\ v \notin Nodes(map, v)
        /\ targets \cap s.visited = {}
        /\ s.found => \/ HasCycleIn(map)
                      \/ targets \cap Reached(map, roots) # {}}

DetectDone(roots, s) == s.found \/ (s.path = << >> /\ roots \subseteq s.visited)

DetectLeft(s) == IF s.found THEN 0 ELSE Left(s.path, s.visited)

(* Every round is nearer to the end. *)
LEMMA DetectRoundStep ==
  ASSUME NEW map \in Map, NEW roots \in SUBSET Tasks, NEW targets \in SUBSET Tasks,
         NEW s \in DetectLoop(map, roots, targets)
  PROVE  LET r == DetectRound(map, roots, targets, s)
         IN /\ r \in DetectLoop(map, roots, targets)
            /\ IF DetectDone(roots, s) THEN r = s ELSE DetectLeft(r) < DetectLeft(s)
<1> DEFINE stack == ToSet(s.path)
           done == s.visited \ stack
           neighbours == IF s.path = << >> THEN roots ELSE Get(map, Last(s.path))
           calls == neighbours \ (s.visited \ stack)
           next == CHOOSE y \in calls : TRUE
           r == DetectRound(map, roots, targets, s)
<1>1. /\ s = [path |-> s.path, visited |-> s.visited, found |-> s.found]
      /\ s.path \in Seq(Tasks) /\ s.visited \in SUBSET Tasks /\ s.found \in BOOLEAN
      /\ stack \subseteq s.visited
      /\ s.visited \subseteq Reached(map, roots)
      /\ Linked(map, s.path)
      /\ \A v \in done : Get(map, v) \subseteq done /\ v \notin Nodes(map, v)
      /\ targets \cap s.visited = {}
      /\ s.found => \/ HasCycleIn(map)
                    \/ targets \cap Reached(map, roots) # {}
  BY DEF DetectLoop
<1>2. /\ neighbours \in SUBSET Tasks
      /\ neighbours \subseteq Reached(map, roots)
      /\ s.path = << >> => neighbours = roots /\ stack = {}
      /\ s.path # << >> => neighbours = Get(map, Last(s.path)) /\ Last(s.path) \in stack
  <2>1. CASE s.path = << >>
    BY <2>1 DEF Reached, ToSet
  <2>2. CASE s.path # << >>
    <3>1. Last(s.path) \in stack
      BY <1>1, <2>2, PathReturn
    <3> QED BY <1>1, <2>2, <3>1, GetType, ReachedClosed
  <2> QED BY <2>1, <2>2
<1>3. DetectDone(roots, s) <=> s.found \/ (calls = {} /\ s.path = << >>)
  BY <1>2 DEF DetectDone
<1>4. CASE s.found \/ (calls = {} /\ s.path = << >>)
  BY <1>3, <1>4 DEF DetectRound
<1>5. CASE ~ s.found /\ calls = {} /\ s.path # << >>
  <2>1. r = [path |-> Front(s.path), visited |-> s.visited, found |-> FALSE]
    BY <1>1, <1>5 DEF DetectRound, Return
  <2>2. PICK last \in Tasks : last = Last(s.path)
    BY <1>1, <1>5, PathReturn
  <2>3. /\ Front(s.path) \in Seq(Tasks) /\ stack = ToSet(Front(s.path)) \cup {last}
        /\ Linked(map, Front(s.path))
    BY <1>1, <1>5, <2>2, PathReturn, LinkedReturn
  <2>4. Get(map, last) \subseteq done /\ last \notin done
    BY <1>2, <1>5, <2>2
  <2>5. last \notin Nodes(map, last)
    <3>1. Closed(map, done)
      BY <1>1 DEF Closed
    <3>2. done \in SUBSET Tasks
      BY <1>1
    <3> HIDE DEF done
    <3>3. Nodes(map, last) \subseteq done
      BY <2>4, <3>1, <3>2, NodesLeast
    <3> QED BY <2>4, <3>3
  <2> DEFINE rest == s.visited \ ToSet(Front(s.path))
  <2>6. \A v \in rest : Get(map, v) \subseteq rest /\ v \notin Nodes(map, v)
    <3>1. rest \subseteq done \cup {last} /\ done \subseteq rest
      BY <2>3
    <3> HIDE DEF rest, done
    <3> QED BY <1>1, <2>4, <2>5, <3>1
  <2>7. r \in DetectLoop(map, roots, targets)
    <3> HIDE DEF r, done
    <3> QED BY <1>1, <2>1, <2>3, <2>6 DEF DetectLoop
  <2>8. Left(Front(s.path), s.visited) < Left(s.path, s.visited)
    BY <1>1, <1>5, LeftReturn
  <2> QED BY <1>3, <1>5, <2>1, <2>7, <2>8 DEF DetectLeft
<1>6. CASE ~ s.found /\ calls # {}
  <2>1. next \in calls
    BY <1>6
  <2>2. PICK x \in calls : x = next
    BY <2>1
  <2>3. x \in Tasks /\ x \in Reached(map, roots) /\ x \in neighbours /\ x \notin done
    BY <1>2
  <2>4. CASE x \in targets \cup stack
    <3>1. r = [path |-> s.path, visited |-> s.visited, found |-> TRUE]
      <4>1. next \in targets \cup stack
        BY <2>2, <2>4
      <4> QED BY <1>1, <1>6, <4>1 DEF DetectRound
    <3>2. HasCycleIn(map) \/ targets \cap Reached(map, roots) # {}
      <4>1. CASE x \in targets
        BY <2>3, <4>1
      <4>2. CASE x \in stack
        <5>1. s.path # << >> /\ x \in Get(map, Last(s.path))
          BY <1>2, <2>3, <4>2
        <5>2. x \in Nodes(map, x)
          BY <1>1, <4>2, <5>1, BackEdge
        <5> QED BY <2>3, <5>2 DEF HasCycleIn, OnCycle, Nodes
      <4> QED BY <2>4, <4>1, <4>2
    <3>3. r \in DetectLoop(map, roots, targets)
      <4> HIDE DEF r
      <4> QED BY <1>1, <3>1, <3>2 DEF DetectLoop
    <3>4. Left(s.path, s.visited) > 0
      <4>1. CASE s.path # << >>
        <5>1. Left(s.path, s.visited) >= 1
          BY <1>1, <4>1, LeftReturn
        <5>2. Left(s.path, s.visited) \in Nat
          BY <1>1, LeftType
        <5> QED BY <5>1, <5>2
      <4>2. CASE s.path = << >>
        <5>1. x \in Tasks \ s.visited
          BY <1>2, <2>3, <4>2
        <5>2. Left(s.path, s.visited) > 1 /\ Left(s.path, s.visited) \in Nat
          BY <1>1, <5>1, LeftCall, LeftType
        <5> QED BY <5>2
      <4> QED BY <4>1, <4>2
    <3> QED BY <1>3, <1>6, <3>1, <3>3, <3>4 DEF DetectLeft
  <2>5. CASE x \notin targets \cup stack
    <3>1. r = [path |-> Append(s.path, x), visited |-> s.visited \cup {x}, found |-> FALSE]
      <4>1. next \notin targets \cup stack
        BY <2>2, <2>5
      <4> HIDE DEF calls
      <4>2. r = Call(s, next)
        BY <1>6, <4>1 DEF DetectRound, calls
      <4> QED BY <1>1, <1>6, <2>2, <4>2 DEF Call
    <3>2. x \notin s.visited
      BY <2>3, <2>5
    <3>3. /\ Append(s.path, x) \in Seq(Tasks)
          /\ ToSet(Append(s.path, x)) = stack \cup {x}
          /\ Linked(map, Append(s.path, x))
      BY <1>1, <1>2, <2>3, PathCall, LinkedCall
    <3> DEFINE rest == (s.visited \cup {x}) \ ToSet(Append(s.path, x))
    <3>4. \A v \in rest : Get(map, v) \subseteq rest /\ v \notin Nodes(map, v)
      <4>1. rest = done
        BY <3>2, <3>3
      <4> HIDE DEF rest
      <4> QED BY <1>1, <4>1
    <3>5. r \in DetectLoop(map, roots, targets)
      <4>1. /\ s.visited \cup {x} \in SUBSET Tasks
            /\ s.visited \cup {x} \subseteq Reached(map, roots)
            /\ ToSet(Append(s.path, x)) \subseteq s.visited \cup {x}
            /\ targets \cap (s.visited \cup {x}) = {}
        BY <1>1, <2>3, <2>5, <3>3
      <4> HIDE DEF r, calls, done, stack, neighbours
      <4> QED BY <3>1, <3>3, <3>4, <4>1 DEF DetectLoop
    <3>6. Left(Append(s.path, x), s.visited \cup {x}) < Left(s.path, s.visited)
      BY <1>1, <2>3, <3>2, LeftCall
    <3> QED BY <1>3, <1>6, <3>1, <3>5, <3>6 DEF DetectLeft
  <2> QED BY <2>4, <2>5
<1> QED BY <1>1, <1>4, <1>5, <1>6

(* The search finds a cycle or a target when there is one to be reached,    *)
(* and nothing else.                                                        *)
LEMMA DetectResult ==
  ASSUME NEW map \in Map, NEW roots \in SUBSET Tasks, NEW targets \in SUBSET Tasks
  PROVE  /\ DetectCycleDFS(map, roots, targets) \in BOOLEAN
         /\ DetectCycleDFS(map, roots, targets) =>
              HasCycleIn(map) \/ targets \cap Reached(map, roots) # {}
         /\ ~ DetectCycleDFS(map, roots, targets) =>
              /\ targets \cap Reached(map, roots) = {}
              /\ \A v \in Reached(map, roots) : v \notin Nodes(map, v)
<1> DEFINE a == [path |-> << >>, visited |-> {}, found |-> FALSE]
           S == DetectLoop(map, roots, targets)
           g == [s \in S |-> DetectRound(map, roots, targets, s)]
           d == [s \in S |-> DetectLeft(s)]
           n == MaxRounds
           after == CHOOSE after : after = [k \in Nat |->
                      IF k = 0 THEN a ELSE DetectRound(map, roots, targets, after[k - 1])]
           l == after[n]
<1>1. n \in Nat
  BY SizeType DEF MaxRounds
<1>2. a \in S
  <2>1. << >> \in Seq(Tasks) /\ ToSet(<< >>) = {} /\ Len(<< >>) = 0
    BY DEF ToSet
  <2> QED BY <2>1 DEF DetectLoop, Linked
<1>3. g \in [S -> S]
  BY DetectRoundStep
<1>4. after = [k \in Nat |-> IF k = 0 THEN a ELSE DetectRound(map, roots, targets, after[k - 1])]
  <2>1. \E f \in [Nat -> S] : f[0] = a /\ \A k \in Nat : f[k + 1] = g[f[k]]
    <3> HIDE DEF g, S, a
    <3>1. \E f : IsRounds(f, S, a, g)
      BY ONLY <1>2, <1>3, RoundsExist
    <3> QED BY ONLY <3>1 DEF IsRounds
  <2>2. PICK f \in [Nat -> S] : f[0] = a /\ \A k \in Nat : f[k + 1] = g[f[k]]
    BY <2>1
  <2>3. f = [k \in Nat |-> IF k = 0 THEN a ELSE DetectRound(map, roots, targets, f[k - 1])]
    <3> SUFFICES ASSUME NEW k \in Nat, k # 0
                 PROVE  f[k] = DetectRound(map, roots, targets, f[k - 1])
      <4> HIDE DEF a, S
      <4> QED BY <2>2
    <3>1. k - 1 \in Nat /\ f[k - 1] \in S /\ f[(k - 1) + 1] = g[f[k - 1]]
      <4> HIDE DEF g, S
      <4> QED BY <2>2
    <3> HIDE DEF S
    <3> QED BY <3>1
  <2> HIDE DEF a
  <2> QED BY <2>3
<1> HIDE DEF after
<1>5. /\ after[0] = a
      /\ \A k \in Nat : after[k] \in S => after[k + 1] = g[after[k]]
  <2>1. after[0] = a
    <3> HIDE DEF a
    <3> QED BY <1>4
  <2>2. ASSUME NEW k \in Nat, after[k] \in S PROVE after[k + 1] = g[after[k]]
    <3>1. after[k + 1] = DetectRound(map, roots, targets, after[k])
      <4> HIDE DEF a
      <4> QED BY <1>4, k + 1 \in Nat, k + 1 # 0, (k + 1) - 1 = k
    <3> HIDE DEF S
    <3> QED BY <2>2, <3>1
  <2> QED BY <2>1, <2>2
<1>6. l \in S /\ g[l] = l
  <2>1. d \in [S -> Nat] /\ \A s \in S : g[s] = s \/ d[g[s]] < d[s]
    <3>1. \A s \in S : DetectLeft(s) \in Nat
      BY LeftType DEF DetectLoop, DetectLeft
    <3> QED BY <3>1, DetectRoundStep
  <2>2. d[a] <= n
    <3>1. Len(<< >>) = 0 /\ Cardinality({}) = 0
      BY FS_EmptySet
    <3>2. DetectLeft(a) <= n
      BY <3>1, SizeType DEF Left, DetectLeft, MaxRounds
    <3> HIDE DEF S, n
    <3> QED BY <1>2, <3>2
  <2> HIDE DEF S, g, d, a
  <2>3. after[0] \in S /\ d[after[0]] <= n
    BY <1>2, <1>5, <2>2
  <2> HIDE DEF n
  <2> QED BY ONLY <1>1, <1>3, <1>5, <2>1, <2>3, LoopEnds DEF l
<1> HIDE DEF l
<1>7. DetectDone(roots, l)
  <2>1. DetectRound(map, roots, targets, l) = l
    <3> HIDE DEF S
    <3> QED BY <1>6
  <2>2. l \in S /\ DetectLeft(l) \in Nat
    BY <1>6, LeftType DEF DetectLoop, DetectLeft
  <2> QED BY <2>1, <2>2, DetectRoundStep
<1>8. DetectCycleDFS(map, roots, targets) = l.found
  BY DEF DetectCycleDFS, l, after
<1>9. /\ l.found \in BOOLEAN
      /\ l.found => HasCycleIn(map) \/ targets \cap Reached(map, roots) # {}
  BY <1>6 DEF DetectLoop
<1>10. CASE ~ l.found
  <2>1. /\ roots \subseteq l.visited /\ l.visited \in SUBSET Tasks
        /\ \A v \in l.visited : Get(map, v) \subseteq l.visited /\ v \notin Nodes(map, v)
        /\ targets \cap l.visited = {}
    BY <1>6, <1>7, <1>10 DEF DetectLoop, DetectDone, ToSet
  <2>2. Reached(map, roots) \subseteq l.visited
    <3> SUFFICES ASSUME NEW x \in roots PROVE Nodes(map, x) \subseteq l.visited
      BY <2>1 DEF Reached
    <3>1. Get(map, x) \subseteq l.visited /\ Closed(map, l.visited)
      BY <2>1 DEF Closed
    <3> QED BY <2>1, <3>1, NodesLeast
  <2> QED BY <1>8, <1>9, <1>10, <2>1, <2>2
<1> QED BY <1>8, <1>9, <1>10

-----------------------------------------------------------------------------
(* The two callers of detectCycleDFS, and wouldCreateCycle. *)

(* hasCycle starts from all keys, and only keys are on cycles. *)
LEMMA HasCycleResult ==
  ASSUME NEW map \in Map
  PROVE  HasCycle(map) = HasCycleIn(map)
<1>1. DOMAIN map \in SUBSET Tasks
  BY MapDomain
<1>2. ASSUME NEW x \in Tasks, x \in Nodes(map, x) PROVE x \in Reached(map, DOMAIN map)
  <2>1. CASE x \in DOMAIN map
    BY <2>1 DEF Reached
  <2>2. CASE x \notin DOMAIN map
    <3>1. Get(map, x) = {}
      BY <2>2 DEF Get
    <3>2. Nodes(map, x) \subseteq {}
      BY <3>1, NodesLeast DEF Closed
    <3> QED BY <1>2, <3>2
  <2> QED BY <2>1, <2>2
<1>3. HasCycleIn(map) \in BOOLEAN /\ (HasCycleIn(map) <=> \E x \in Tasks : x \in Nodes(map, x))
  BY DEF HasCycleIn, OnCycle, Nodes
<1>4. /\ HasCycle(map) \in BOOLEAN
      /\ HasCycle(map) => HasCycleIn(map)
      /\ ~ HasCycle(map) => \A v \in Reached(map, DOMAIN map) : v \notin Nodes(map, v)
  <2>1. {} \in SUBSET Tasks
    OBVIOUS
  <2> QED BY <1>1, <2>1, DetectResult DEF HasCycle
<1> QED BY <1>2, <1>3, <1>4

(* If a graph without cycles gets an edge from t to d, the search from d    *)
(* tells whether there is a cycle, and so does the reachability of t.       *)
LEMMA SearchForCycleResult ==
  ASSUME graph \in Map, AcyclicMap(graph), NEW t \in Tasks, NEW d \in Tasks
  PROVE  /\ SearchForCycle(t, d) = HasCycleIn(Link(graph, t, d))
         /\ WouldCreateCycle(t, d) = HasCycleIn(Link(graph, t, d))
<1> DEFINE h == Link(graph, t, d)
<1>1. h \in Map /\ \A x \in Tasks : Get(h, x) = Get(graph, x) \cup (IF x = t THEN {d} ELSE {})
  BY LinkLemma
<1> HIDE DEF h
<1>2. HasCycleIn(h) \in BOOLEAN /\ (HasCycleIn(h) <=> ~ AcyclicMap(h))
  BY DEF HasCycleIn, OnCycle, Nodes, AcyclicMap
<1>3. Nodes(graph, d) \subseteq Nodes(h, d)
  <2>1. Nodes(h, d) \in SUBSET Tasks /\ Get(h, d) \subseteq Nodes(h, d) /\ Closed(h, Nodes(h, d))
    BY <1>1, NodesClosed
  <2>2. Get(graph, d) \subseteq Nodes(h, d) /\ Closed(graph, Nodes(h, d))
    BY <1>1, <2>1 DEF Closed
  <2> QED BY <2>1, <2>2, NodesLeast
<1>4. t = d \/ t \in Nodes(h, d) => HasCycleIn(h)
  <2>1. d \in Nodes(h, t)
    BY <1>1, NodesClosed
  <2>2. t \in Nodes(h, d) => t \in Nodes(h, t)
    BY <1>1, <2>1, NodesTransitive
  <2> QED BY <1>2, <2>1, <2>2 DEF AcyclicMap
<1>5. t # d /\ t \notin Nodes(graph, d) => ~ HasCycleIn(h)
  BY <1>1, <1>2, NewEdgeAcyclic
<1>6. WouldCreateCycle(t, d) = HasCycleIn(h)
  <2>1. WouldCreateCycle(t, d) <=> t = d \/ t \in Nodes(graph, d)
    <3>1. \A x \in {d} \cup Nodes(graph, d) : ~ OnCycle(graph, x)
      BY NodesClosed DEF AcyclicMap, OnCycle, Nodes
    <3> QED BY <3>1 DEF WouldCreateCycle, Nodes
  <2>2. WouldCreateCycle(t, d) \in BOOLEAN
    BY DEF WouldCreateCycle
  <2> QED BY <1>2, <1>3, <1>4, <1>5, <2>1, <2>2
<1>7. SearchForCycle(t, d) = HasCycleIn(h)
  <2>1. Reached(h, {d}) = {d} \cup Nodes(h, d)
    BY <1>1, NodesClosed DEF Reached
  <2> DEFINE found == DetectCycleDFS(h, {d}, {t})
  <2>2. /\ found \in BOOLEAN
        /\ found => HasCycleIn(h) \/ t \in {d} \cup Nodes(h, d)
        /\ ~ found => t \notin {d} \cup Nodes(h, d)
    <3>1. {d} \in SUBSET Tasks /\ {t} \in SUBSET Tasks
      OBVIOUS
    <3>2. /\ found \in BOOLEAN
          /\ found => HasCycleIn(h) \/ {t} \cap Reached(h, {d}) # {}
          /\ ~ found => {t} \cap Reached(h, {d}) = {}
      BY ONLY <1>1, <3>1, DetectResult
    <3> HIDE DEF found
    <3> QED BY <2>1, <3>2
  <2>3. SearchForCycle(t, d) = (t = d \/ found)
    BY DEF SearchForCycle, h
  <2> HIDE DEF found
  <2> QED BY <1>2, <1>3, <1>4, <1>5, <2>2, <2>3
<1> QED BY <1>6, <1>7 DEF h

-----------------------------------------------------------------------------
(* Chains. *)

(* A set of numbers with a bound has a greatest element. *)
LEMMA MaxOf ==
  ASSUME NEW k \in Nat, NEW S \in SUBSET (0..k), S # {}
  PROVE  Max(S) \in S /\ \A y \in S : y <= Max(S)
<1> DEFINE T == {k - y : y \in S}
<1>1. T \in SUBSET Nat /\ T # {}
  OBVIOUS
<1>2. PICK m \in T : \A y \in T : m <= y
  <2> HIDE DEF T
  <2> QED BY <1>1, LeastNumber
<1>3. k - m \in S /\ \A y \in S : k - m >= y
  BY <1>2
<1>4. \E x \in S : \A y \in S : x >= y
  BY <1>3
<1>5. Max(S) \in S /\ \A y \in S : Max(S) >= y
  BY <1>4 DEF Max
<1> QED BY <1>5

(* What Starts is by definition. *)
LEMMA StartsRounds ==
  /\ Starts[0] = Tasks
  /\ \A n \in Nat : /\ Starts[n] \in SUBSET Tasks
                    /\ Starts[n + 1] = {x \in Tasks : Get(graph, x) \cap Starts[n] # {}}
<1> DEFINE S == SUBSET Tasks
           Step(U) == {x \in Tasks : Get(graph, x) \cap U # {}}
           g == [U \in S |-> Step(U)]
<1>1. Tasks \in S /\ g \in [S -> S]
  OBVIOUS
<1>2. Starts = [n \in Nat |-> IF n = 0 THEN Tasks ELSE Step(Starts[n - 1])]
  <2>1. \E f \in [Nat -> S] : f[0] = Tasks /\ \A k \in Nat : f[k + 1] = g[f[k]]
    <3> HIDE DEF g, S
    <3>1. \E f : IsRounds(f, S, Tasks, g)
      BY ONLY <1>1, RoundsExist
    <3> QED BY ONLY <3>1 DEF IsRounds
  <2>2. PICK f \in [Nat -> S] : f[0] = Tasks /\ \A k \in Nat : f[k + 1] = g[f[k]]
    BY <2>1
  <2>3. f = [n \in Nat |-> IF n = 0 THEN Tasks ELSE Step(f[n - 1])]
    <3> SUFFICES ASSUME NEW k \in Nat, k # 0 PROVE f[k] = Step(f[k - 1])
      <4> HIDE DEF S, Step
      <4> QED BY <2>2
    <3>1. k - 1 \in Nat /\ f[k - 1] \in S /\ f[(k - 1) + 1] = g[f[k - 1]]
      <4> HIDE DEF g, S
      <4> QED BY <2>2
    <3> HIDE DEF S, Step
    <3> QED BY <3>1
  <2>4. \E h : h = [n \in Nat |-> IF n = 0 THEN Tasks ELSE Step(h[n - 1])]
    <3> HIDE DEF Step
    <3> QED BY <2>3
  <2> QED BY <2>4 DEF Starts
<1>3. Starts[0] = Tasks /\ \A n \in Nat : Starts[n + 1] = Step(Starts[n])
  <2> HIDE DEF Step
  <2>1. Starts[0] = Tasks
    BY <1>2
  <2>2. ASSUME NEW n \in Nat PROVE Starts[n + 1] = Step(Starts[n])
    BY <1>2, n + 1 \in Nat, n + 1 # 0, (n + 1) - 1 = n
  <2> QED BY <2>1, <2>2
<1>4. ASSUME NEW n \in Nat PROVE Starts[n] \in SUBSET Tasks
  <2>1. CASE n = 0
    BY <1>3, <2>1
  <2>2. CASE n # 0
    <3>1. n - 1 \in Nat /\ Starts[(n - 1) + 1] = Step(Starts[n - 1])
      <4> HIDE DEF Step
      <4> QED BY <1>3, <2>2
    <3>2. (n - 1) + 1 = n
      OBVIOUS
    <3> QED BY <3>1, <3>2
  <2> QED BY <2>1, <2>2
<1> QED BY <1>3, <1>4

(* Without cycles a task that leads to another leads to more tasks.         *)
LEMMA NodesGrow ==
  ASSUME NEW map \in Map, AcyclicMap(map), NEW x \in Tasks, NEW y \in Get(map, x)
  PROVE  Cardinality(Nodes(map, y)) + 1 <= Cardinality(Nodes(map, x))
<1>1. y \in Tasks /\ y \in Nodes(map, x) /\ y \notin Nodes(map, y)
  BY GetType, NodesClosed DEF AcyclicMap
<1>2. Nodes(map, y) \cup {y} \subseteq Nodes(map, x)
  BY <1>1, NodesTransitive
<1>3. Nodes(map, y) \in SUBSET Tasks /\ Nodes(map, x) \in SUBSET Tasks
  BY NodesClosed
<1>4. IsFiniteSet(Nodes(map, y)) /\ IsFiniteSet(Nodes(map, x))
  BY <1>3, SizeType
<1>5. Cardinality(Nodes(map, y) \cup {y}) = Cardinality(Nodes(map, y)) + 1
  BY <1>1, <1>4, FS_AddElement
<1>6. Cardinality(Nodes(map, y) \cup {y}) <= Cardinality(Nodes(map, x))
  BY <1>2, <1>4, FS_Subset
<1> QED BY <1>5, <1>6

(* So a chain has fewer edges than there are tasks. *)
LEMMA ChainsAreShort ==
  ASSUME graph \in Map, AcyclicMap(graph)
  PROVE  \A n \in Nat : \A x \in Starts[n] : n <= Cardinality(Nodes(graph, x)) /\ n < Cardinality(Tasks)
<1> DEFINE U == {n \in Nat : \A x \in Starts[n] : n <= Cardinality(Nodes(graph, x))}
<1>0. \A x \in Tasks : Cardinality(Nodes(graph, x)) \in Nat
  BY NodesClosed, SizeType
<1>1. 0 \in U
  BY <1>0, StartsRounds
<1>2. ASSUME NEW n \in Nat, n \in U PROVE n + 1 \in U
  <2> SUFFICES ASSUME NEW x \in Starts[n + 1] PROVE n + 1 <= Cardinality(Nodes(graph, x))
    OBVIOUS
  <2>1. x \in Tasks /\ \E y \in Starts[n] : y \in Get(graph, x)
    BY StartsRounds
  <2>2. PICK y \in Starts[n] : y \in Get(graph, x)
    BY <2>1
  <2>3. y \in Tasks /\ n <= Cardinality(Nodes(graph, y))
    BY <1>2, StartsRounds
  <2>4. Cardinality(Nodes(graph, y)) + 1 <= Cardinality(Nodes(graph, x))
    BY <2>1, <2>2, NodesGrow
  <2> QED BY <1>0, <2>1, <2>3, <2>4
<1>3. \A n \in Nat : n \in U
  <2> HIDE DEF U
  <2> QED BY <1>1, <1>2, Induction
<1>4. ASSUME NEW x \in Tasks PROVE Cardinality(Nodes(graph, x)) < Cardinality(Tasks)
  <2>1. Nodes(graph, x) \in SUBSET Tasks /\ x \notin Nodes(graph, x)
    BY NodesClosed DEF AcyclicMap
  <2>2. Cardinality(Nodes(graph, x) \cup {x}) = Cardinality(Nodes(graph, x)) + 1
    BY <2>1, SizeType, FS_AddElement
  <2>3. Nodes(graph, x) \cup {x} \in SUBSET Tasks
    BY <2>1
  <2> QED BY <1>0, <2>2, <2>3, SizeType
<1> QED BY <1>0, <1>3, <1>4, SizeType, StartsRounds

(* The edges of the longest chain from a task. *)
Longest(x) == Max({n \in 0..Cardinality(Tasks) : x \in Starts[n]})

(* The longest chain goes on with the longest of a dependency. *)
LEMMA LongestRecurs ==
  ASSUME graph \in Map, AcyclicMap(graph), NEW x \in Tasks
  PROVE  /\ Longest(x) \in Nat
         /\ Longest(x) = IF Get(graph, x) = {} THEN 0
                         ELSE 1 + Max({Longest(d) : d \in Get(graph, x)})
<1> DEFINE N == Cardinality(Tasks)
           Lengths(y) == {n \in 0..N : y \in Starts[n]}
<1>1. N \in Nat
  BY SizeType
<1>2. ASSUME NEW y \in Tasks
      PROVE  /\ Longest(y) \in Nat /\ Longest(y) \in 0..N /\ y \in Starts[Longest(y)]
             /\ \A n \in Nat : y \in Starts[n] => n <= Longest(y)
  <2>1. Lengths(y) \in SUBSET (0..N) /\ 0 \in Lengths(y)
    BY <1>1, StartsRounds
  <2>2. Longest(y) = Max(Lengths(y))
    BY DEF Longest
  <2>3. Max(Lengths(y)) \in Lengths(y) /\ \A n \in Lengths(y) : n <= Max(Lengths(y))
    <3> HIDE DEF Lengths, N
    <3>1. Lengths(y) # {}
      BY <2>1
    <3> QED BY <1>1, <2>1, <3>1, MaxOf
  <2>4. \A n \in Nat : y \in Starts[n] => n \in Lengths(y)
    BY <1>1, ChainsAreShort
  <2> QED BY <1>1, <2>2, <2>3, <2>4
<1> HIDE DEF N
<1>3. CASE Get(graph, x) = {}
  <2>1. ASSUME Longest(x) # 0 PROVE FALSE
    <3>1. Longest(x) - 1 \in Nat /\ (Longest(x) - 1) + 1 = Longest(x)
      BY <1>2, <2>1
    <3>2. x \in {y \in Tasks : Get(graph, y) \cap Starts[Longest(x) - 1] # {}}
      BY <1>2, <3>1, StartsRounds
    <3> QED BY <1>3, <3>2
  <2> QED BY <1>2, <1>3, <2>1
<1>4. CASE Get(graph, x) # {}
  <2> DEFINE M == {Longest(d) : d \in Get(graph, x)}
             m == Max(M)
  <2>1. Get(graph, x) \in SUBSET Tasks
    BY GetType
  <2>2. M \in SUBSET (0..N) /\ M # {}
    BY <1>2, <1>4, <2>1
  <2>3. m \in M /\ \A y \in M : y <= m
    <3> HIDE DEF M
    <3> QED BY <1>1, <2>2, MaxOf
  <2>4. PICK d \in Get(graph, x) : m = Longest(d)
    <3> HIDE DEF m
    <3> QED BY <2>3
  <2>5. m \in Nat /\ \A e \in Get(graph, x) : Longest(e) <= m
    <3>1. m \in Nat
      <4> HIDE DEF m
      <4> QED BY <1>2, <2>1, <2>4
    <3> HIDE DEF m
    <3> QED BY <2>3, <3>1
  <2> HIDE DEF m
  <2>6. m + 1 <= Longest(x)
    <3>1. d \in Starts[m] /\ d \in Tasks
      BY <1>2, <2>1, <2>4
    <3>2. x \in Starts[m + 1]
      BY <2>4, <2>5, <3>1, StartsRounds
    <3> QED BY <1>2, <2>5, <3>2
  <2>7. Longest(x) <= m + 1
    <3>1. CASE Longest(x) = 0
      BY <2>5, <3>1
    <3>2. CASE Longest(x) # 0
      <4>1. Longest(x) - 1 \in Nat /\ (Longest(x) - 1) + 1 = Longest(x)
        BY <1>2, <3>2
      <4>2. x \in {y \in Tasks : Get(graph, y) \cap Starts[Longest(x) - 1] # {}}
        BY <1>2, <4>1, StartsRounds
      <4>3. PICK e \in Get(graph, x) : e \in Starts[Longest(x) - 1]
        BY <4>2
      <4>4. Longest(x) - 1 <= Longest(e) /\ Longest(e) <= m /\ Longest(e) \in Nat
        BY <1>2, <2>1, <2>5, <4>1, <4>3
      <4> QED BY <2>5, <4>1, <4>4
    <3> QED BY <3>1, <3>2
  <2>8. Longest(x) = 1 + m
    BY <1>2, <2>5, <2>6, <2>7
  <2> QED BY <1>2, <1>4, <2>8 DEF m
<1> QED BY <1>3, <1>4

-----------------------------------------------------------------------------
(* getMaxDepth. *)

(* The equation that the lengths of longest chains satisfy. *)
Recurs(map, L) ==
  \A x \in Tasks : L[x] = IF Get(map, x) = {} THEN 0
                          ELSE 1 + Max({L[d] : d \in Get(map, x)})

(* What the search keeps: the memo is right for the nodes it has. *)
DepthLoop(map, start, L) ==
  {s \in [path : Seq(Tasks), memo : {[y \in K |-> L[y]] : K \in SUBSET Tasks}] :
     /\ start \in DOMAIN s.memo \cup ToSet(s.path)
     /\ Linked(map, s.path)}

DepthLeft(s) == Left(s.path, DOMAIN s.memo \cup ToSet(s.path))

(* Every round is nearer to the end. *)
LEMMA DepthRoundStep ==
  ASSUME NEW map \in Map, AcyclicMap(map), NEW start \in Tasks, NEW L, Recurs(map, L),
         NEW s \in DepthLoop(map, start, L)
  PROVE  LET r == DepthRound(map, s)
         IN /\ r \in DepthLoop(map, start, L)
            /\ IF s.path = << >> THEN r = s ELSE DepthLeft(r) < DepthLeft(s)
<1> DEFINE node == Last(s.path)
           deps == Get(map, node)
           calls == deps \ DOMAIN s.memo
           next == CHOOSE d \in calls : TRUE
           depth == IF deps = {} THEN 0 ELSE 1 + Max({s.memo[d] : d \in deps})
           r == DepthRound(map, s)
<1>1. PICK K \in SUBSET Tasks : s.memo = [y \in K |-> L[y]]
  BY DEF DepthLoop
<1>2. /\ s = [path |-> s.path, memo |-> s.memo]
      /\ s.path \in Seq(Tasks) /\ DOMAIN s.memo = K
      /\ \A y \in K : s.memo[y] = L[y]
      /\ start \in K \cup ToSet(s.path)
      /\ Linked(map, s.path)
  BY <1>1 DEF DepthLoop
<1>3. CASE s.path = << >>
  BY <1>3 DEF DepthRound
<1>4. CASE s.path # << >>
  <2>1. node \in Tasks /\ node \in ToSet(s.path) /\ deps \in SUBSET Tasks
    BY <1>2, <1>4, PathReturn, GetType
  <2>2. ToSet(s.path) \in SUBSET Tasks
    BY <1>2 DEF ToSet
  <2>3. CASE calls # {}
    <3>1. PICK x \in calls : x = next
      BY <2>3
    <3>2. x \in Tasks /\ x \in deps /\ x \notin K
      BY <1>2, <2>1
    <3>3. x \notin ToSet(s.path)
      BY <1>2, <1>4, <3>2, BackEdge DEF AcyclicMap
    <3>4. r = [path |-> Append(s.path, x), memo |-> s.memo]
      BY <1>2, <1>4, <2>3, <3>1 DEF DepthRound
    <3>5. /\ Append(s.path, x) \in Seq(Tasks)
          /\ ToSet(Append(s.path, x)) = ToSet(s.path) \cup {x}
          /\ Linked(map, Append(s.path, x))
      BY <1>2, <3>2, PathCall, LinkedCall
    <3>6. r \in DepthLoop(map, start, L)
      <4> HIDE DEF r, calls, deps, node
      <4> QED BY <1>1, <1>2, <3>4, <3>5 DEF DepthLoop
    <3>7. DepthLeft(r) < DepthLeft(s)
      <4>1. K \cup ToSet(s.path) \in SUBSET Tasks /\ x \in Tasks \ (K \cup ToSet(s.path))
        BY <2>2, <3>2, <3>3
      <4> DEFINE V == K \cup ToSet(s.path)
      <4>2. Left(Append(s.path, x), V \cup {x}) < Left(s.path, V)
        <5> HIDE DEF V
        <5> QED BY <1>2, <4>1, LeftCall DEF V
      <4>3. V \cup {x} = K \cup ToSet(Append(s.path, x))
        BY <3>5
      <4>4. r.path = Append(s.path, x) /\ DOMAIN r.memo = K
        BY <1>2, <3>4
      <4> HIDE DEF r
      <4> QED BY <1>2, <4>2, <4>3, <4>4 DEF DepthLeft
    <3> QED BY <1>4, <3>6, <3>7
  <2>4. CASE calls = {}
    <3>1. \A d \in deps : s.memo[d] = L[d]
      BY <1>2, <2>4
    <3>2. depth = L[node]
      <4>1. {s.memo[d] : d \in deps} = {L[d] : d \in deps}
        BY <3>1
      <4> QED BY <2>1, <4>1 DEF Recurs
    <3>3. Cached(s.memo, node, depth) = [y \in K \cup {node} |-> L[y]]
      <4> HIDE DEF depth, node
      <4> QED BY <1>1, <1>2, <3>2 DEF Cached
    <3>4. r = [path |-> Front(s.path), memo |-> [y \in K \cup {node} |-> L[y]]]
      <4>1. r = [path |-> Front(s.path), memo |-> Cached(s.memo, node, depth)]
        BY <1>4, <2>4 DEF DepthRound
      <4> QED BY <3>3, <4>1
    <3>5. /\ Front(s.path) \in Seq(Tasks)
          /\ ToSet(s.path) = ToSet(Front(s.path)) \cup {node}
          /\ Linked(map, Front(s.path))
      BY <1>2, <1>4, PathReturn, LinkedReturn
    <3>6. r \in DepthLoop(map, start, L)
      <4>1. K \cup {node} \in SUBSET Tasks
        BY <2>1
      <4>2. start \in (K \cup {node}) \cup ToSet(Front(s.path))
        BY <1>2, <3>5
      <4>3. r.path = Front(s.path) /\ r.memo = [y \in K \cup {node} |-> L[y]] /\ DOMAIN r.memo = K \cup {node}
        BY <3>4
      <4>4. r \in [path : Seq(Tasks), memo : {[y \in J |-> L[y]] : J \in SUBSET Tasks}]
        <5> HIDE DEF r, node
        <5> QED BY <3>4, <3>5, <4>1
      <4> HIDE DEF r, node
      <4> QED BY <3>5, <4>2, <4>3, <4>4 DEF DepthLoop
    <3>7. DepthLeft(r) < DepthLeft(s)
      <4> DEFINE V == K \cup ToSet(s.path)
      <4>1. V \in SUBSET Tasks
        BY <2>2
      <4>2. Left(Front(s.path), V) < Left(s.path, V)
        <5> HIDE DEF V
        <5> QED BY <1>2, <1>4, <4>1, LeftReturn
      <4>3. r.path = Front(s.path) /\ DOMAIN r.memo = K \cup {node}
        BY <3>4
      <4>4. (K \cup {node}) \cup ToSet(Front(s.path)) = V
        BY <3>5
      <4> HIDE DEF r
      <4> QED BY <1>2, <4>2, <4>3, <4>4 DEF DepthLeft
    <3> QED BY <1>4, <3>6, <3>7
  <2> QED BY <2>3, <2>4
<1> QED BY <1>3, <1>4

(* getMaxDepth solves it, if there is no cycle. *)
LEMMA GetMaxDepthResult ==
  ASSUME NEW map \in Map, AcyclicMap(map), NEW start \in Tasks, NEW L, Recurs(map, L)
  PROVE  GetMaxDepth(map, start) = L[start]
<1> DEFINE a == [path |-> <<start>>, memo |-> [x \in {} |-> 0]]
           S == DepthLoop(map, start, L)
           g == [s \in S |-> DepthRound(map, s)]
           d == [s \in S |-> DepthLeft(s)]
           n == MaxRounds
           after == CHOOSE after : after = [k \in Nat |-> IF k = 0 THEN a
                                                          ELSE DepthRound(map, after[k - 1])]
           l == after[n]
<1>1. n \in Nat
  BY SizeType DEF MaxRounds
<1>2. a \in S
  <2>1. <<start>> \in Seq(Tasks) /\ ToSet(<<start>>) = {start} /\ Linked(map, <<start>>)
    BY DEF ToSet, Linked
  <2>2. [x \in {} |-> 0] = [y \in {} |-> L[y]]
    OBVIOUS
  <2> QED BY <2>1, <2>2 DEF DepthLoop
<1>3. g \in [S -> S]
  BY DepthRoundStep
<1>4. after = [k \in Nat |-> IF k = 0 THEN a ELSE DepthRound(map, after[k - 1])]
  <2>1. \E f \in [Nat -> S] : f[0] = a /\ \A k \in Nat : f[k + 1] = g[f[k]]
    <3> HIDE DEF g, S, a
    <3>1. \E f : IsRounds(f, S, a, g)
      BY ONLY <1>2, <1>3, RoundsExist
    <3> QED BY ONLY <3>1 DEF IsRounds
  <2>2. PICK f \in [Nat -> S] : f[0] = a /\ \A k \in Nat : f[k + 1] = g[f[k]]
    BY <2>1
  <2>3. f = [k \in Nat |-> IF k = 0 THEN a ELSE DepthRound(map, f[k - 1])]
    <3> SUFFICES ASSUME NEW k \in Nat, k # 0 PROVE f[k] = DepthRound(map, f[k - 1])
      <4> HIDE DEF a, S
      <4> QED BY <2>2
    <3>1. k - 1 \in Nat /\ f[k - 1] \in S /\ f[(k - 1) + 1] = g[f[k - 1]]
      <4> HIDE DEF g, S
      <4> QED BY <2>2
    <3> HIDE DEF S
    <3> QED BY <3>1
  <2> HIDE DEF a
  <2> QED BY <2>3
<1> HIDE DEF after
<1>5. /\ after[0] = a
      /\ \A k \in Nat : after[k] \in S => after[k + 1] = g[after[k]]
  <2>1. after[0] = a
    <3> HIDE DEF a
    <3> QED BY <1>4
  <2>2. ASSUME NEW k \in Nat, after[k] \in S PROVE after[k + 1] = g[after[k]]
    <3>1. after[k + 1] = DepthRound(map, after[k])
      <4> HIDE DEF a
      <4> QED BY <1>4, k + 1 \in Nat, k + 1 # 0, (k + 1) - 1 = k
    <3> HIDE DEF S
    <3> QED BY <2>2, <3>1
  <2> QED BY <2>1, <2>2
<1>6. l \in S /\ g[l] = l
  <2>0. \A s \in S : DepthLeft(s) \in Nat
    BY LeftType DEF DepthLoop, DepthLeft, ToSet
  <2>1. d \in [S -> Nat] /\ \A s \in S : g[s] = s \/ d[g[s]] < d[s]
    BY <2>0, DepthRoundStep
  <2>2. d[a] <= n
    <3>1. Len(<<start>>) = 1 /\ Cardinality({start}) = 1 /\ ToSet(<<start>>) = {start}
      BY FS_Singleton DEF ToSet
    <3>2. DepthLeft(a) <= n
      <4>1. DepthLeft(a) = Left(<<start>>, {start})
        <5>1. a.path = <<start>> /\ DOMAIN a.memo \cup ToSet(<<start>>) = {start}
          BY <3>1
        <5> HIDE DEF a
        <5> QED BY <5>1 DEF DepthLeft
      <4>2. Left(<<start>>, {start}) <= n
        BY <3>1, SizeType DEF Left, MaxRounds
      <4> QED BY <4>1, <4>2
    <3> HIDE DEF S, n
    <3> QED BY <1>2, <3>2
  <2> HIDE DEF S, g, d, a
  <2>3. after[0] \in S /\ d[after[0]] <= n
    BY <1>2, <1>5, <2>2
  <2> HIDE DEF n
  <2> QED BY ONLY <1>1, <1>3, <1>5, <2>1, <2>3, LoopEnds DEF l
<1> HIDE DEF l
<1>7. l.path = << >>
  <2>1. DepthRound(map, l) = l
    <3> HIDE DEF S
    <3> QED BY <1>6
  <2>2. l \in S /\ DepthLeft(l) \in Nat
    BY <1>6, LeftType DEF DepthLoop, DepthLeft, ToSet
  <2> QED BY <2>1, <2>2, DepthRoundStep
<1>8. GetMaxDepth(map, start) = l.memo[start]
  BY DEF GetMaxDepth, l, after
<1>9. l.memo[start] = L[start]
  <2>1. start \in DOMAIN l.memo
    BY <1>6, <1>7 DEF DepthLoop, ToSet
  <2>2. PICK K \in SUBSET Tasks : l.memo = [y \in K |-> L[y]]
    BY <1>6 DEF DepthLoop
  <2> QED BY <2>1, <2>2
<1> QED BY <1>8, <1>9

-----------------------------------------------------------------------------
(* topologicalSort. *)

(* A set in some order. *)
LEMMA SetToSeqResult ==
  ASSUME NEW S \in SUBSET Tasks
  PROVE  /\ SetToSeq(S) \in Seq(Tasks)
         /\ IsInjective(SetToSeq(S))
         /\ ToSet(SetToSeq(S)) = S
<1> DEFINE n == Cardinality(S)
           q == SetToSeq(S)
<1>1. IsFiniteSet(S) /\ n \in Nat
  BY SizeType
<1>2. \E f \in [1..n -> S] : IsInjective(f)
  <2>1. ExistsBijection(1..n, S)
    BY <1>1, FS_CardinalityType
  <2> QED BY <2>1 DEF ExistsBijection, Bijection, Injection
<1>3. q \in [1..n -> S] /\ IsInjective(q)
  BY <1>2 DEF SetToSeq
<1> HIDE DEF q
<1>4. q \in Surjection(1..n, S)
  <2>1. q \in Injection(1..n, S)
    BY <1>3 DEF Injection
  <2>2. IsFiniteSet(1..n) /\ Cardinality(1..n) = n
    <3>1. 1 \in Int /\ n \in Int
      BY <1>1
    <3>2. Cardinality(1..n) = IF 1 > n THEN 0 ELSE n - 1 + 1
      BY ONLY <3>1, FS_Interval
    <3> HIDE DEF n
    <3> QED BY <1>1, <3>1, <3>2, FS_Interval
  <2> QED BY <1>1, <2>1, <2>2, FS_Injection
<1>5. ToSet(q) = S
  <2> HIDE DEF n
  <2> QED BY <1>3, <1>4 DEF ToSet, Surjection
<1>6. q \in Seq(Tasks)
  <2> HIDE DEF n
  <2> QED BY <1>1, <1>3, SeqDef
<1> QED BY <1>3, <1>5, <1>6 DEF q

(* Taking the first of a queue without repetitions. *)
LEMMA QueueRest ==
  ASSUME NEW q \in Seq(Tasks), q # << >>, IsInjective(q)
  PROVE  /\ Head(q) \in Tasks
         /\ Tail(q) \in Seq(Tasks) /\ IsInjective(Tail(q))
         /\ Head(q) \notin ToSet(Tail(q))
         /\ ToSet(q) = {Head(q)} \cup ToSet(Tail(q))
<1> DEFINE r == Tail(q)
<1>1. /\ Len(q) \in Nat /\ Len(q) >= 1 /\ DOMAIN q = 1..Len(q)
      /\ \A i \in 1..Len(q) : q[i] \in Tasks
  BY EmptySeq, LenProperties, ElementOfSeq
<1>2. /\ Head(q) = q[1] /\ r \in Seq(Tasks) /\ Len(r) = Len(q) - 1
      /\ \A i \in 1..Len(r) : r[i] = q[i + 1]
  BY HeadTailProperties
<1>3. DOMAIN r = 1..Len(q) - 1
  BY <1>2
<1> HIDE DEF r
<1>4. IsInjective(r)
  <2> SUFFICES ASSUME NEW i \in 1..Len(q) - 1, NEW j \in 1..Len(q) - 1, r[i] = r[j] PROVE i = j
    BY <1>3 DEF IsInjective
  <2>1. r[i] = q[i + 1] /\ r[j] = q[j + 1]
    BY <1>2
  <2>2. i + 1 \in 1..Len(q) /\ j + 1 \in 1..Len(q)
    BY <1>1
  <2>3. i + 1 = j + 1
    BY <1>1, <2>1, <2>2 DEF IsInjective
  <2> QED BY <2>3
<1>5. Head(q) \notin ToSet(r)
  <2> SUFFICES ASSUME NEW i \in 1..Len(q) - 1, r[i] = q[1] PROVE FALSE
    BY <1>2, <1>3 DEF ToSet
  <2>1. r[i] = q[i + 1] /\ i + 1 \in 1..Len(q) /\ 1 \in 1..Len(q) /\ i + 1 # 1
    BY <1>1, <1>2
  <2> QED BY <1>1, <2>1 DEF IsInjective
<1>6. ToSet(q) = {Head(q)} \cup ToSet(r)
  <2>1. ASSUME NEW i \in 1..Len(q) PROVE q[i] \in {Head(q)} \cup ToSet(r)
    <3>1. CASE i = 1
      BY <1>2, <3>1
    <3>2. CASE i # 1
      <4>1. i - 1 \in 1..Len(q) - 1 /\ (i - 1) + 1 = i
        BY <1>1, <3>2
      <4>2. q[i] = r[i - 1]
        BY <1>1, <1>2, <4>1
      <4> QED BY <1>3, <4>1, <4>2 DEF ToSet
    <3> QED BY <3>1, <3>2
  <2>2. ASSUME NEW i \in 1..Len(q) - 1 PROVE r[i] \in ToSet(q)
    BY <1>1, <1>2 DEF ToSet
  <2>3. Head(q) \in ToSet(q)
    BY <1>1, <1>2 DEF ToSet
  <2> QED BY <1>1, <1>3, <2>1, <2>2, <2>3 DEF ToSet
<1> QED BY <1>1, <1>2, <1>4, <1>5, <1>6 DEF r

(* Queues without repetitions that have nothing in common. *)
LEMMA QueueJoin ==
  ASSUME NEW p \in Seq(Tasks), NEW q \in Seq(Tasks), IsInjective(p), IsInjective(q),
         ToSet(p) \cap ToSet(q) = {}
  PROVE  /\ p \o q \in Seq(Tasks) /\ IsInjective(p \o q)
         /\ ToSet(p \o q) = ToSet(p) \cup ToSet(q)
<1> DEFINE r == p \o q
           m == Len(p)
           n == Len(q)
<1>1. /\ m \in Nat /\ n \in Nat /\ DOMAIN p = 1..m /\ DOMAIN q = 1..n
      /\ r \in Seq(Tasks) /\ Len(r) = m + n
      /\ \A i \in 1..m + n : r[i] = IF i <= m THEN p[i] ELSE q[i - m]
  <2>1. m \in Nat /\ n \in Nat /\ DOMAIN p = 1..m /\ DOMAIN q = 1..n
    BY LenProperties
  <2>2. /\ r \in Seq(Tasks) /\ Len(r) = m + n
        /\ \A i \in 1..m + n : r[i] = IF i <= m THEN p[i] ELSE q[i - m]
    OBVIOUS
  <2> QED BY <2>1, <2>2
<1>2. DOMAIN r = 1..m + n
  BY <1>1
<1> HIDE DEF r, m, n
<1>3. ASSUME NEW i \in 1..m + n
      PROVE  \/ i \in 1..m /\ r[i] = p[i] /\ r[i] \in ToSet(p)
             \/ i - m \in 1..n /\ r[i] = q[i - m] /\ r[i] \in ToSet(q)
  <2>1. CASE i <= m
    <3>1. i \in 1..m /\ i \in DOMAIN p /\ r[i] = p[i]
      BY <1>1, <2>1
    <3> QED BY <3>1 DEF ToSet
  <2>2. CASE ~ (i <= m)
    <3>1. i - m \in 1..n /\ i - m \in DOMAIN q /\ r[i] = q[i - m]
      BY <1>1, <2>2
    <3> QED BY <3>1 DEF ToSet
  <2> QED BY <2>1, <2>2
<1>4. IsInjective(r)
  <2> SUFFICES ASSUME NEW i \in 1..m + n, NEW j \in 1..m + n, r[i] = r[j] PROVE i = j
    BY <1>2 DEF IsInjective
  <2>1. ASSUME r[i] \in ToSet(p) PROVE i \in 1..m /\ r[i] = p[i] /\ r[i] \notin ToSet(q)
    BY <1>3, <2>1
  <2>2. ASSUME r[i] \notin ToSet(p) PROVE i - m \in 1..n /\ r[i] = q[i - m]
    BY <1>3, <2>2
  <2>3. ASSUME r[j] \in ToSet(p) PROVE j \in 1..m /\ r[j] = p[j]
    BY <1>3, <2>3
  <2>4. ASSUME r[j] \notin ToSet(p) PROVE j - m \in 1..n /\ r[j] = q[j - m]
    BY <1>3, <2>4
  <2>5. CASE r[i] \in ToSet(p)
    BY <1>1, <2>1, <2>3, <2>5 DEF IsInjective
  <2>6. CASE r[i] \notin ToSet(p)
    <3>1. i - m = j - m
      BY <1>1, <2>2, <2>4, <2>6 DEF IsInjective
    <3> QED BY <1>1, <3>1
  <2> QED BY <2>5, <2>6
<1>5. ToSet(r) = ToSet(p) \cup ToSet(q)
  <2>1. ToSet(r) \subseteq ToSet(p) \cup ToSet(q)
    BY <1>2, <1>3 DEF ToSet
  <2>2. ASSUME NEW i \in 1..m PROVE p[i] \in ToSet(r)
    <3>1. i \in DOMAIN r /\ r[i] = p[i]
      BY <1>1, <1>2
    <3> QED BY <3>1 DEF ToSet
  <2>3. ASSUME NEW i \in 1..n PROVE q[i] \in ToSet(r)
    <3>1. i + m \in 1..m + n /\ (i + m) - m = i /\ ~ (i + m <= m)
      BY <1>1
    <3>2. i + m \in DOMAIN r /\ r[i + m] = q[i]
      BY <1>1, <1>2, <3>1
    <3> QED BY <3>2 DEF ToSet
  <2>4. ToSet(p) \subseteq ToSet(r)
    BY <1>1, <2>2 DEF ToSet
  <2>5. ToSet(q) \subseteq ToSet(r)
    BY <1>1, <2>3 DEF ToSet
  <2> QED BY <2>1, <2>4, <2>5
<1> QED BY <1>1, <1>4, <1>5 DEF r

(* What the loop keeps: in-degrees count the dependencies not listed, and   *)
(* the keys that have none are listed or in the queue, once.                *)
SortLoop(map) ==
  {s \in [queue : Seq(Tasks), inDegree : [Tasks -> Nat], result : Seq(Tasks)] :
     LET listed == ToSet(s.result)
     IN /\ IsInjective(s.queue) /\ ToSet(s.queue) \cap listed = {}
        /\ Cardinality(listed) = Len(s.result)
        /\ \A x \in Tasks : s.inDegree[x] = Cardinality(Get(map, x) \ listed)
        /\ \A x \in Tasks : x \in listed \cup ToSet(s.queue) <=>
                              x \in DOMAIN map /\ Get(map, x) \subseteq listed
        /\ \A i \in 1..Len(s.result) : \A d \in Get(map, s.result[i]) :
             \E j \in 1..(i - 1) : s.result[j] = d}

(* What it takes to be a state of the loop. *)
LEMMA SortLoopIntro ==
  ASSUME NEW map, NEW q \in Seq(Tasks), NEW D \in [Tasks -> Nat], NEW r \in Seq(Tasks),
         IsInjective(q), ToSet(q) \cap ToSet(r) = {}, Cardinality(ToSet(r)) = Len(r),
         \A x \in Tasks : D[x] = Cardinality(Get(map, x) \ ToSet(r)),
         \A x \in Tasks : x \in ToSet(r) \cup ToSet(q) <=>
                            x \in DOMAIN map /\ Get(map, x) \subseteq ToSet(r),
         \A i \in 1..Len(r) : \A d \in Get(map, r[i]) : \E j \in 1..(i - 1) : r[j] = d
  PROVE  [queue |-> q, inDegree |-> D, result |-> r] \in SortLoop(map)
BY Zenon DEF SortLoop

(* Every round lists one task more. *)
LEMMA SortRoundStep ==
  ASSUME NEW map \in Map, reverseGraph \in Map, Mirrored(map, reverseGraph),
         NEW s \in SortLoop(map)
  PROVE  LET r == SortRound(s)
         IN /\ r \in SortLoop(map)
            /\ IF s.queue = << >> THEN r = s ELSE Len(r.result) = Len(s.result) + 1
<1> DEFINE node == Head(s.queue)
           dependents == Get(reverseGraph, node)
           degree == [x \in Tasks |-> IF x \in dependents THEN s.inDegree[x] - 1
                                      ELSE s.inDegree[x]]
           ready == {x \in dependents : degree[x] = 0}
           listed == ToSet(s.result)
           r == SortRound(s)
<1>1. /\ s.queue \in Seq(Tasks) /\ s.inDegree \in [Tasks -> Nat] /\ s.result \in Seq(Tasks)
      /\ IsInjective(s.queue) /\ ToSet(s.queue) \cap listed = {}
      /\ Cardinality(listed) = Len(s.result)
      /\ \A x \in Tasks : s.inDegree[x] = Cardinality(Get(map, x) \ listed)
      /\ \A x \in Tasks : x \in listed \cup ToSet(s.queue) <=>
                            x \in DOMAIN map /\ Get(map, x) \subseteq listed
      /\ \A i \in 1..Len(s.result) : \A d \in Get(map, s.result[i]) :
           \E j \in 1..(i - 1) : s.result[j] = d
  BY DEF SortLoop
<1>2. listed \in SUBSET Tasks
  BY <1>1 DEF ToSet
<1>3. CASE s.queue = << >>
  BY <1>3 DEF SortRound
<1>4. CASE s.queue # << >>
  <2>1. r = [queue |-> Tail(s.queue) \o SetToSeq(ready), inDegree |-> degree,
             result |-> Append(s.result, node)]
    BY <1>4 DEF SortRound
  <2>2. PICK x0 \in Tasks : x0 = node
    BY <1>1, <1>4, QueueRest
  <2>3. /\ Tail(s.queue) \in Seq(Tasks) /\ IsInjective(Tail(s.queue))
        /\ x0 \notin ToSet(Tail(s.queue))
        /\ ToSet(s.queue) = {x0} \cup ToSet(Tail(s.queue))
    BY <1>1, <1>4, <2>2, QueueRest
  <2>4. x0 \notin listed /\ Get(map, x0) \subseteq listed
    BY <1>1, <2>3
  <2>5. dependents = {x \in Tasks : x0 \in Get(map, x)}
    BY <2>2, GetType DEF Mirrored
  <2> HIDE DEF dependents
  <2>6. ASSUME NEW x \in Tasks
        PROVE  /\ degree[x] \in Nat
               /\ degree[x] = Cardinality(Get(map, x) \ (listed \cup {x0}))
    <3> DEFINE rest == Get(map, x) \ listed
    <3>1. Get(map, x) \in SUBSET Tasks
      BY GetType
    <3>2. rest \in SUBSET Tasks /\ IsFiniteSet(rest) /\ Cardinality(rest) \in Nat
      <4>1. rest \in SUBSET Tasks
        BY <3>1
      <4> HIDE DEF rest
      <4> QED BY <4>1, SizeType
    <3>3. s.inDegree[x] = Cardinality(rest) /\ Get(map, x) \ (listed \cup {x0}) = rest \ {x0}
      BY <1>1
    <3>4. x \in dependents <=> x0 \in rest
      BY <2>4, <2>5
    <3> HIDE DEF rest
    <3>5. Cardinality(rest \ {x0}) = IF x0 \in rest THEN Cardinality(rest) - 1 ELSE Cardinality(rest)
      BY <3>2, FS_RemoveElement
    <3>6. rest \ {x0} \in SUBSET Tasks
      BY <3>2
    <3>7. Cardinality(rest \ {x0}) \in Nat
      BY <3>6, SizeType
    <3> QED BY <3>3, <3>4, <3>5, <3>7
  <2>7. degree \in [Tasks -> Nat]
    <3>1. degree = [x \in Tasks |-> degree[x]]
      OBVIOUS
    <3> HIDE DEF degree
    <3> QED BY <2>6, <3>1
  <2> HIDE DEF degree
  <2>8. ready = {x \in Tasks : x0 \in Get(map, x) /\ Get(map, x) \subseteq listed \cup {x0}}
    <3>1. ASSUME NEW x \in Tasks
          PROVE  degree[x] = 0 <=> Get(map, x) \subseteq listed \cup {x0}
      <4>1. Get(map, x) \ (listed \cup {x0}) \in SUBSET Tasks
        BY GetType
      <4>2. IsFiniteSet(Get(map, x) \ (listed \cup {x0}))
        BY <4>1, SizeType
      <4>3. degree[x] = 0 <=> Get(map, x) \ (listed \cup {x0}) = {}
        BY <2>6, <4>2, FS_EmptySet
      <4> QED BY <4>3
    <3> QED BY <2>5, <3>1
  <2> HIDE DEF ready
  <2>9. ready \in SUBSET Tasks /\ ready \cap (listed \cup ToSet(s.queue)) = {}
    BY <1>1, <2>4, <2>8
  <2> DEFINE newQueue == Tail(s.queue) \o SetToSeq(ready)
             newResult == Append(s.result, node)
  <2>10. /\ newQueue \in Seq(Tasks) /\ IsInjective(newQueue)
         /\ ToSet(newQueue) = ToSet(Tail(s.queue)) \cup ready
    <3>1. /\ SetToSeq(ready) \in Seq(Tasks) /\ IsInjective(SetToSeq(ready))
          /\ ToSet(SetToSeq(ready)) = ready
      BY <2>9, SetToSeqResult
    <3>2. ToSet(Tail(s.queue)) \cap ToSet(SetToSeq(ready)) = {}
      BY <2>3, <2>9, <3>1
    <3>3. PICK p, q : p = Tail(s.queue) /\ q = SetToSeq(ready)
      OBVIOUS
    <3>4. /\ p \in Seq(Tasks) /\ q \in Seq(Tasks) /\ IsInjective(p) /\ IsInjective(q)
          /\ ToSet(p) \cap ToSet(q) = {}
      BY <2>3, <3>1, <3>2, <3>3
    <3>5. p \o q \in Seq(Tasks) /\ IsInjective(p \o q) /\ ToSet(p \o q) = ToSet(p) \cup ToSet(q)
      BY <3>4, QueueJoin
    <3> QED BY <3>1, <3>3, <3>5
  <2>11. /\ newResult \in Seq(Tasks) /\ Len(newResult) = Len(s.result) + 1
         /\ ToSet(newResult) = listed \cup {x0}
         /\ newResult[Len(s.result) + 1] = x0
         /\ \A i \in 1..Len(s.result) : newResult[i] = s.result[i]
    BY <1>1, <2>2, PathCall
  <2> HIDE DEF newQueue, newResult
  <2>12. ToSet(newQueue) \cap ToSet(newResult) = {}
    BY <1>1, <2>3, <2>9, <2>10, <2>11
  <2>13. Cardinality(ToSet(newResult)) = Len(newResult)
    <3>1. IsFiniteSet(listed)
      BY <1>2, SizeType
    <3>2. Cardinality(listed \cup {x0}) = Cardinality(listed) + 1
      BY <2>4, <3>1, FS_AddElement
    <3> QED BY <1>1, <2>11, <3>2
  <2>14. \A x \in Tasks : degree[x] = Cardinality(Get(map, x) \ ToSet(newResult))
    BY <2>6, <2>11
  <2>15. \A x \in Tasks : x \in ToSet(newResult) \cup ToSet(newQueue) <=>
                            x \in DOMAIN map /\ Get(map, x) \subseteq ToSet(newResult)
    <3> SUFFICES ASSUME NEW x \in Tasks
                 PROVE  x \in listed \cup ToSet(s.queue) \cup ready <=>
                          x \in DOMAIN map /\ Get(map, x) \subseteq listed \cup {x0}
      BY <2>3, <2>10, <2>11
    <3>1. x \in ready => x \in DOMAIN map
      BY <2>8 DEF Get
    <3>2. CASE x0 \in Get(map, x)
      BY <1>1, <2>4, <2>8, <3>1, <3>2
    <3>3. CASE x0 \notin Get(map, x)
      BY <1>1, <2>8, <3>3
    <3> QED BY <3>2, <3>3
  <2>16. ASSUME NEW i \in 1..Len(newResult), NEW d \in Get(map, newResult[i])
         PROVE  \E j \in 1..(i - 1) : newResult[j] = d
    <3>1. Len(s.result) \in Nat
      BY <1>1
    <3>2. CASE i = Len(s.result) + 1
      <4>1. d \in listed
        BY <2>4, <2>11, <3>2
      <4>2. PICK j \in 1..Len(s.result) : s.result[j] = d
        BY <1>1, <4>1 DEF ToSet
      <4>3. j \in 1..(i - 1) /\ newResult[j] = d
        BY <2>11, <3>1, <3>2, <4>2
      <4> QED BY <4>3
    <3>3. CASE i # Len(s.result) + 1
      <4>1. i \in 1..Len(s.result)
        BY <2>11, <3>1, <3>3
      <4>2. PICK j \in 1..(i - 1) : s.result[j] = d
        BY <1>1, <2>11, <4>1
      <4>3. j \in 1..Len(s.result)
        BY <3>1, <4>1, <4>2
      <4> QED BY <2>11, <4>2, <4>3
    <3> QED BY <3>2, <3>3
  <2>17. r = [queue |-> newQueue, inDegree |-> degree, result |-> newResult]
    BY <2>1 DEF newQueue, newResult
  <2>18. r \in SortLoop(map)
    <3>1. \A i \in 1..Len(newResult) : \A e \in Get(map, newResult[i]) :
            \E j \in 1..(i - 1) : newResult[j] = e
      BY <2>16
    <3>2. [queue |-> newQueue, inDegree |-> degree, result |-> newResult] \in SortLoop(map)
      BY <2>7, <2>10, <2>11, <2>12, <2>13, <2>14, <2>15, <3>1, SortLoopIntro
    <3> HIDE DEF r
    <3> QED BY <2>17, <3>2
  <2> QED BY <1>4, <2>11, <2>17, <2>18
<1> QED BY <1>3, <1>4

(* The sort ends with an empty queue. *)
LEMMA SortResult ==
  ASSUME graph \in Map, reverseGraph \in Map, Mirror
  PROVE  \E s \in SortLoop(graph) : s.queue = << >> /\ TopologicalSort = s.result
<1>0. PICK map \in Map : map = graph /\ Mirrored(map, reverseGraph)
  BY DEF Mirrored, Mirror
<1> DEFINE first == {x \in DOMAIN map : map[x] = {}}
           a == [queue |-> SetToSeq(first),
                 inDegree |-> [x \in Tasks |-> Cardinality(Get(map, x))],
                 result |-> << >>]
           S == SortLoop(map)
           g == [s \in S |-> SortRound(s)]
           n == Cardinality(Tasks)
           d == [s \in S |-> n - Len(s.result)]
           after == CHOOSE after : after = [k \in Nat |-> IF k = 0 THEN a
                                                          ELSE SortRound(after[k - 1])]
           l == after[n]
<1>1. n \in Nat
  BY SizeType
<1>2. a \in S
  <2>1. first \in SUBSET Tasks
    BY MapDomain
  <2>2. \A x \in Tasks : x \in first <=> x \in DOMAIN map /\ Get(map, x) \subseteq {}
    BY DEF Get
  <2> HIDE DEF first
  <2>3. /\ SetToSeq(first) \in Seq(Tasks) /\ IsInjective(SetToSeq(first))
        /\ ToSet(SetToSeq(first)) = first
    BY <2>1, SetToSeqResult
  <2>4. << >> \in Seq(Tasks) /\ ToSet(<< >>) = {} /\ Len(<< >>) = 0 /\ Cardinality({}) = 0
    BY FS_EmptySet DEF ToSet
  <2>5. \A x \in Tasks : Cardinality(Get(map, x)) \in Nat /\ Get(map, x) \ {} = Get(map, x)
    BY GetType, SizeType
  <2>6. [x \in Tasks |-> Cardinality(Get(map, x))] \in [Tasks -> Nat]
    BY <2>5
  <2> DEFINE D == [x \in Tasks |-> Cardinality(Get(map, x))]
             q == SetToSeq(first)
             r == << >>
  <2>7. /\ q \in Seq(Tasks) /\ D \in [Tasks -> Nat] /\ r \in Seq(Tasks)
        /\ IsInjective(q) /\ ToSet(q) \cap ToSet(r) = {} /\ Cardinality(ToSet(r)) = Len(r)
    BY <2>3, <2>4, <2>6
  <2>8. \A x \in Tasks : D[x] = Cardinality(Get(map, x) \ ToSet(r))
    BY <2>4, <2>5
  <2>9. \A x \in Tasks : x \in ToSet(r) \cup ToSet(q) <=>
                            x \in DOMAIN map /\ Get(map, x) \subseteq ToSet(r)
    BY <2>2, <2>3, <2>4
  <2>10. \A i \in 1..Len(r) : \A e \in Get(map, r[i]) : \E j \in 1..(i - 1) : r[j] = e
    BY <2>4
  <2> HIDE DEF D, q, r, S
  <2>11. [queue |-> q, inDegree |-> D, result |-> r] \in SortLoop(map)
    BY <2>7, <2>8, <2>9, <2>10, SortLoopIntro
  <2> QED BY <2>11 DEF D, q, r, S
<1>3. g \in [S -> S]
  BY <1>0, SortRoundStep
<1>4. after = [k \in Nat |-> IF k = 0 THEN a ELSE SortRound(after[k - 1])]
  <2>1. \E f \in [Nat -> S] : f[0] = a /\ \A k \in Nat : f[k + 1] = g[f[k]]
    <3>1. PICK h : h = g
      OBVIOUS
    <3>2. PICK U : U = S
      OBVIOUS
    <3>3. PICK b : b = a
      OBVIOUS
    <3> HIDE DEF g, S, a
    <3>4. b \in U /\ h \in [U -> U]
      BY ONLY <1>2, <1>3, <3>1, <3>2, <3>3
    <3>5. \E f : IsRounds(f, U, b, h)
      BY <3>4, RoundsExist
    <3> QED BY ONLY <3>1, <3>2, <3>3, <3>5 DEF IsRounds
  <2>2. PICK f \in [Nat -> S] : f[0] = a /\ \A k \in Nat : f[k + 1] = g[f[k]]
    BY <2>1
  <2>3. f = [k \in Nat |-> IF k = 0 THEN a ELSE SortRound(f[k - 1])]
    <3> SUFFICES ASSUME NEW k \in Nat, k # 0 PROVE f[k] = SortRound(f[k - 1])
      <4> HIDE DEF a, S
      <4> QED BY <2>2
    <3>1. k - 1 \in Nat /\ (k - 1) + 1 = k
      OBVIOUS
    <3>2. f[k - 1] \in S /\ f[k] = g[f[k - 1]]
      <4> HIDE DEF g, S, a
      <4> QED BY <2>2, <3>1
    <3> HIDE DEF S
    <3> QED BY <3>2
  <2> HIDE DEF a
  <2> QED BY <2>3
<1> HIDE DEF after
<1>5. /\ after[0] = a
      /\ \A k \in Nat : after[k] \in S => after[k + 1] = g[after[k]]
  <2>1. after[0] = a
    <3> HIDE DEF a
    <3> QED BY <1>4
  <2>2. ASSUME NEW k \in Nat, after[k] \in S PROVE after[k + 1] = g[after[k]]
    <3>1. after[k + 1] = SortRound(after[k])
      <4> HIDE DEF a
      <4> QED BY <1>4, k + 1 \in Nat, k + 1 # 0, (k + 1) - 1 = k
    <3> HIDE DEF S
    <3> QED BY <2>2, <3>1
  <2> QED BY <2>1, <2>2
<1>6. \A s \in S : Len(s.result) \in Nat /\ Len(s.result) <= n
  BY SizeType, LenProperties DEF SortLoop, ToSet
<1>7. l \in S /\ g[l] = l
  <2>1. d \in [S -> Nat] /\ \A s \in S : g[s] = s \/ d[g[s]] < d[s]
    <3>1. \A s \in S : SortRound(s) \in S /\ (SortRound(s) = s \/ Len(SortRound(s).result) = Len(s.result) + 1)
      BY <1>0, SortRoundStep
    <3> HIDE DEF S, n
    <3> QED BY <1>1, <1>6, <3>1
  <2>2. d[a] <= n
    <3>1. Len(<< >>) = 0
      OBVIOUS
    <3> HIDE DEF S, n
    <3> QED BY <1>1, <1>2, <3>1
  <2> HIDE DEF S, g, d, a
  <2>3. after[0] \in S /\ d[after[0]] <= n
    BY <1>2, <1>5, <2>2
  <2> HIDE DEF n
  <2> QED BY ONLY <1>1, <1>3, <1>5, <2>1, <2>3, LoopEnds DEF l
<1> HIDE DEF l
<1>8. l.queue = << >>
  <2>1. SortRound(l) = l
    <3> HIDE DEF S
    <3> QED BY <1>7
  <2>2. Len(l.result) \in Nat
    BY <1>6, <1>7
  <2> QED BY <1>0, <1>7, <2>1, <2>2, SortRoundStep
<1>9. TopologicalSort = l.result
  BY <1>0 DEF TopologicalSort, l, after
<1> QED BY <1>0, <1>7, <1>8, <1>9

(* A graph without cycles all of whose ends are keys is listed as a whole:  *)
(* a task left out would start chains of any length.                        *)
LEMMA SortIsCorrect ==
  ASSUME graph \in Map, reverseGraph \in Map, Mirror, AcyclicMap(graph)
  PROVE  SortCorrect
<1>1. PICK s \in SortLoop(graph) : s.queue = << >> /\ TopologicalSort = s.result
  BY SortResult
<1> DEFINE listed == ToSet(s.result)
<1>2. /\ s.result \in Seq(Tasks) /\ ToSet(s.queue) = {}
      /\ Cardinality(listed) = Len(s.result)
      /\ \A x \in Tasks : x \in listed \cup ToSet(s.queue) <=>
                            x \in DOMAIN graph /\ Get(graph, x) \subseteq listed
      /\ \A i \in 1..Len(s.result) : \A d \in Get(graph, s.result[i]) :
           \E j \in 1..(i - 1) : s.result[j] = d
  <2>1. PICK map : map = graph
    OBVIOUS
  <2>2. s \in SortLoop(map)
    BY <2>1
  <2> HIDE DEF listed
  <2>3. /\ s.result \in Seq(Tasks)
        /\ Cardinality(ToSet(s.result)) = Len(s.result)
        /\ \A x \in Tasks : x \in ToSet(s.result) \cup ToSet(s.queue) <=>
                              x \in DOMAIN map /\ Get(map, x) \subseteq ToSet(s.result)
        /\ \A i \in 1..Len(s.result) : \A d \in Get(map, s.result[i]) :
             \E j \in 1..(i - 1) : s.result[j] = d
    BY <2>2 DEF SortLoop
  <2>4. ToSet(s.queue) = {}
    BY <1>1 DEF ToSet
  <2> QED BY <2>1, <2>3, <2>4 DEF listed
<1>3. DOMAIN s.result = 1..Len(s.result) /\ listed \in SUBSET Tasks
  BY <1>2 DEF ToSet
<1>4. ASSUME \A x \in DOMAIN graph : graph[x] \cup Get(reverseGraph, x) \subseteq DOMAIN graph
      PROVE  listed = DOMAIN graph
  <2> DEFINE U == DOMAIN graph \ listed
  <2>1. DOMAIN graph \in SUBSET Tasks /\ listed \subseteq DOMAIN graph
    BY <1>2, <1>3, MapDomain
  <2>2. ASSUME NEW x \in U PROVE Get(graph, x) \cap U # {}
    <3>1. Get(graph, x) \subseteq DOMAIN graph
      BY <1>4 DEF Get
    <3>2. ~ (Get(graph, x) \subseteq listed)
      BY <1>2, <2>1
    <3> QED BY <3>1, <3>2
  <2> DEFINE T == {n \in Nat : U \subseteq Starts[n]}
  <2>3. U \in SUBSET Tasks
    BY <2>1
  <2> HIDE DEF U
  <2>4. 0 \in T
    BY <2>3, StartsRounds
  <2>5. ASSUME NEW n \in Nat, n \in T PROVE n + 1 \in T
    BY <2>2, <2>3, <2>5, StartsRounds
  <2>6. \A n \in Nat : n \in T
    <3> HIDE DEF T
    <3> QED BY <2>4, <2>5, Induction
  <2>7. U = {}
    <3>1. U \subseteq Starts[Cardinality(Tasks)]
      BY <2>6, SizeType
    <3> QED BY <3>1, SizeType, ChainsAreShort
  <2> QED BY <2>1, <2>7 DEF U
<1> HIDE DEF listed
<1> QED BY <1>1, <1>2, <1>3, <1>4 DEF SortCorrect, listed

-----------------------------------------------------------------------------
(* The walks over both graphs are exact on any graph that any additions and *)
(* removals produce, with cycles or without.                                *)
THEOREM WalksAreExact == Spec => []CollectExact
<1>1. IInv => CollectExact
  BY CollectResult DEF IInv, TypeOK, CollectExact, Nodes
<1> QED BY <1>1, InvariantHolds, PTL

(* When every edge is validated before it is added, the searches for        *)
(* cycles, the depth and the sort compute what their definitions say.       *)
THEOREM SearchesAreExact ==
  ASSUME Validated
  PROVE  Spec => []SearchesExact
<1>1. ASSUME IInv PROVE SearchesExact
  <2>1. /\ graph \in Map /\ reverseGraph \in Map /\ Mirror /\ AcyclicMap(graph)
    BY <1>1 DEF IInv, TypeOK, ValidatedIsAcyclic, Acyclic, OnCycle, AcyclicMap, Nodes
  <2>2. CollectExact
    BY <2>1, CollectResult DEF CollectExact, Nodes
  <2>3. CycleSearchExact
    BY <2>1, LinkLemma, HasCycleResult, SearchForCycleResult DEF CycleSearchExact
  <2>4. DepthExact
    <3> DEFINE L == [x \in Tasks |-> Longest(x)]
    <3>1. Recurs(graph, L)
      <4> SUFFICES ASSUME NEW x \in Tasks
                   PROVE  Longest(x) = IF Get(graph, x) = {} THEN 0
                                       ELSE 1 + Max({L[d] : d \in Get(graph, x)})
        BY DEF Recurs
      <4>1. {L[d] : d \in Get(graph, x)} = {Longest(d) : d \in Get(graph, x)}
        BY <2>1, GetType
      <4> QED BY <2>1, <4>1, LongestRecurs
    <3>2. \A x \in Tasks : L[x] = Longest(x)
      OBVIOUS
    <3> HIDE DEF L
    <3>3. \A x \in Tasks : GetMaxDepth(graph, x) = L[x]
      BY <2>1, <3>1, GetMaxDepthResult
    <3> QED BY <3>2, <3>3 DEF DepthExact, Longest
  <2>5. SortCorrect
    BY <2>1, SortIsCorrect
  <2> QED BY <2>2, <2>3, <2>4, <2>5 DEF SearchesExact
<1> QED BY <1>1, InvariantHolds, PTL
=============================================================================
