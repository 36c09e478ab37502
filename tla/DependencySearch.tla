-------------------------- MODULE DependencySearch --------------------------
(***************************************************************************)
(* The searches of core/dependency-graph.ts as the code performs them,     *)
(* compared with their definitions on every graph that DependencyGraph     *)
(* reaches: the walk that collects transitive nodes, the depth-first       *)
(* search for cycles, the depth of a chain, and Kahn's topological sort.   *)
(*                                                                         *)
(* A search is a sequence of rounds.  Of a recursive function, `path' has  *)
(* the nodes whose calls are under way, and a round makes the next call of *)
(* the last one or returns from it; calls that return at once take none.   *)
(* Maps and sets keep their order of insertion; here the order is open.    *)
(***************************************************************************)
EXTENDS DependencyGraph, Integers, SequencesExt

ASSUME TasksAssumption == IsFiniteSet(Tasks)

(* A node is called once and returned from once. *)
MaxRounds == 2 * Cardinality(Tasks)

Call(s, x) == [s EXCEPT !.path = Append(@, x), !.visited = @ \cup {x}]

Return(s) == [s EXCEPT !.path = Front(@)]

-----------------------------------------------------------------------------
(* collectTransitiveNodes *)

CollectRound(map, s) ==
  LET neighbours == Get(map, Last(s.path))
      calls == neighbours \ s.visited
  IN CASE s.path = << >> -> s
       [] s.path # << >> /\ calls # {} -> Call(s, CHOOSE y \in calls : TRUE)
       [] OTHER -> [Return(s) EXCEPT !.result = @ \cup neighbours]

Collect(map, start) ==
  LET after[n \in Nat] ==
        IF n = 0 THEN [path |-> <<start>>, visited |-> {start}, result |-> {}]
        ELSE CollectRound(map, after[n - 1])
  IN after[MaxRounds].result

-----------------------------------------------------------------------------
(* detectCycleDFS, called for those of `roots' that have not been visited;  *)
(* `targets' has the target, if there is one.                               *)
DetectRound(map, roots, targets, s) ==
  LET recursionStack == ToSet(s.path)
      neighbours == IF s.path = << >> THEN roots ELSE Get(map, Last(s.path))
      calls == neighbours \ (s.visited \ recursionStack)
      next == CHOOSE y \in calls : TRUE
  IN CASE s.found \/ (calls = {} /\ s.path = << >>) -> s
       [] ~ s.found /\ calls = {} /\ s.path # << >> -> Return(s)
       [] ~ s.found /\ calls # {} /\ next \in targets \cup recursionStack ->
            [s EXCEPT !.found = TRUE]
       [] OTHER -> Call(s, next)

DetectCycleDFS(map, roots, targets) ==
  LET after[n \in Nat] ==
        IF n = 0 THEN [path |-> << >>, visited |-> {}, found |-> FALSE]
        ELSE DetectRound(map, roots, targets, after[n - 1])
  IN after[MaxRounds].found

(* wouldCreateCycle searches a copy of the graph with the proposed edge. *)
SearchForCycle(t, d) == t = d \/ DetectCycleDFS(Link(graph, t, d), {d}, {t})

HasCycle(map) == DetectCycleDFS(map, DOMAIN map, {})

-----------------------------------------------------------------------------
(* getMaxDepth, which does not end on a cycle. *)

DepthRound(map, s) ==
  LET node == Last(s.path)
      deps == Get(map, node)
      calls == deps \ DOMAIN s.memo
      depth == IF deps = {} THEN 0 ELSE 1 + Max({s.memo[d] : d \in deps})
  IN CASE s.path = << >> -> s
       [] s.path # << >> /\ calls # {} ->
            [s EXCEPT !.path = Append(@, CHOOSE d \in calls : TRUE)]
       [] OTHER -> [path |-> Front(s.path), memo |-> Cached(s.memo, node, depth)]

GetMaxDepth(map, start) ==
  LET after[n \in Nat] == IF n = 0 THEN [path |-> <<start>>, memo |-> [x \in {} |-> 0]]
                          ELSE DepthRound(map, after[n - 1])
  IN after[MaxRounds].memo[start]

-----------------------------------------------------------------------------
(* Mutant: a dependent is ready when one dependency has been listed. *)
SortRoundEager(s) ==
  LET node == Head(s.queue)
      ready == {x \in Get(reverseGraph, node) : s.inDegree[x] > 0}
  IN IF s.queue = << >> THEN s
     ELSE [queue |-> Tail(s.queue) \o SetToSeq(ready),
           inDegree |-> [x \in Tasks |-> IF x \in ready THEN 0 ELSE s.inDegree[x]],
           result |-> Append(s.result, node)]

(* The loop of Kahn's algorithm: a dependent is appended when its last      *)
(* dependency has been listed.                                              *)
SortRound(s) ==
  LET node == Head(s.queue)
      dependents == Get(reverseGraph, node)
      degree == [x \in Tasks |-> IF x \in dependents THEN s.inDegree[x] - 1
                                 ELSE s.inDegree[x]]
      ready == {x \in dependents : degree[x] = 0}
  IN IF s.queue = << >> THEN s
     ELSE [queue |-> Tail(s.queue) \o SetToSeq(ready),
           inDegree |-> degree,
           result |-> Append(s.result, node)]

(* topologicalSort of a graph without cycles; only keys can become ready. *)
TopologicalSort ==
  LET after[n \in Nat] ==
        IF n = 0 THEN [queue |-> SetToSeq({x \in DOMAIN graph : graph[x] = {}}),
                       inDegree |-> [x \in Tasks |-> Cardinality(Get(graph, x))],
                       result |-> << >>]
        ELSE SortRound(after[n - 1])
  IN after[Cardinality(Tasks)].result
-----------------------------------------------------------------------------
(* The walk from a task, in either direction, collects what it leads to.    *)
CollectExact ==
  \A x \in Tasks : /\ Collect(graph, x) = CollectTransitiveNodes(graph, x)
                   /\ Collect(reverseGraph, x) = CollectTransitiveNodes(reverseGraph, x)

HasCycleIn(map) == \E x \in Tasks : OnCycle(map, x)

(* The search that wouldCreateCycle makes from the new dependency answers   *)
(* exactly the question whether the graph with the edge would have a cycle, *)
(* and so does hasCycle for that graph.                                     *)
CycleSearchExact ==
  \A t, d \in Tasks :
    LET proposed == Link(graph, t, d)
    IN  {SearchForCycle(t, d), WouldCreateCycle(t, d), HasCycle(proposed)} =
          {HasCycleIn(proposed)}

(* Starts[n]: the tasks at which a chain of n edges starts. *)
Starts[n \in Nat] ==
  LET shorter == Starts[n - 1]
  IN IF n = 0 THEN Tasks ELSE {x \in Tasks : Get(graph, x) \cap shorter # {}}

(* getMaxDepth is the length of the longest chain below a task. *)
DepthExact ==
  \A x \in Tasks :
    GetMaxDepth(graph, x) = Max({n \in 0..Cardinality(Tasks) : x \in Starts[n]})

(* The sort lists each task once and after all it depends on ("dependencies *)
(* first"), and lists the whole graph as long as every task that an edge    *)
(* leads to or from is still a key of it.                                   *)
SortCorrect ==
  LET order == TopologicalSort
      listed == ToSet(order)
  IN  /\ Cardinality(listed) = Len(order)
      /\ \A i \in DOMAIN order : \A d \in Get(graph, order[i]) :
           \E j \in 1..(i - 1) : order[j] = d
      /\ (\A x \in DOMAIN graph : graph[x] \cup Get(reverseGraph, x) \subseteq DOMAIN graph)
           => listed = DOMAIN graph

(* What the searches compute is what their definitions say, on every graph  *)
(* that additions and removals can produce.                                 *)
SearchesExact == CollectExact /\ CycleSearchExact /\ DepthExact /\ SortCorrect
=============================================================================
