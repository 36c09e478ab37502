--------------------------- MODULE TaskQueueProofs ---------------------------
(***************************************************************************)
(* Theorems about TaskQueue for a heap of any size: it stays a heap, its   *)
(* index stays right, and it implements PriorityFifo.  First the loops,    *)
(* then what each operation leaves, and the order in which the nodes       *)
(* leave.                                                                  *)
(***************************************************************************)
EXTENDS TaskQueue, SetInduction, SequenceTheorems

USE QueueAssumption

-----------------------------------------------------------------------------
(* The order of nodes, and the places of a binary heap. *)

(* Nodes are ordered by priority and order of insertion. *)
LEMMA NodesAreOrdered ==
  ASSUME NEW a \in Node, NEW b \in Node
  PROVE  /\ ShouldSwap(a, b) => ~ ShouldSwap(b, a)
         /\ a.order # b.order => ShouldSwap(a, b) \/ ShouldSwap(b, a)
         /\ \A c \in Node : ~ ShouldSwap(a, b) /\ ~ ShouldSwap(b, c) => ~ ShouldSwap(a, c)
<1>1. \A c \in Node : c.priority \in Priorities /\ c.order \in 0..MaxInsertions
  BY DEF Node
<1>2. ASSUME NEW c \in Node PROVE c.priority \in Nat
  BY <1>1
<1>3. ASSUME NEW c \in Node PROVE c.order \in Nat
  BY <1>1
<1> QED BY <1>2, <1>3 DEF ShouldSwap

(* The parent of a place is a place before it, and a place is a child of    *)
(* its parent.                                                              *)
LEMMA Parents ==
  ASSUME NEW k \in Nat, k >= 2
  PROVE  /\ k \div 2 \in Nat /\ k \div 2 >= 1 /\ k \div 2 < k
         /\ k = 2 * (k \div 2) \/ k = 2 * (k \div 2) + 1
OBVIOUS

Queue == [heap : Seq(Node), index : [Tasks -> Nat]]

InOrder(h, k) == ~ ShouldSwap(h[k \div 2], h[k])

IsHeap(h) == \A k \in 2..Len(h) : InOrder(h, k)

(* The parent of i does not come after its grandchildren below i. *)
AboveOrder(h, i) ==
  i > 1 => \A k \in 2..Len(h) : k \div 2 = i => ~ ShouldSwap(h[i \div 2], h[k])

(* A heap but for the node at i, which may have to move up, and at first    *)
(* (at its start s) also down.                                              *)
Rising(h, i, s) ==
  /\ \A k \in 2..Len(h) : k # i /\ (k \div 2 = s => i # s) => InOrder(h, k)
  /\ AboveOrder(h, i)

(* A heap but for the node at i, which may have to move down. *)
Sinking(h, i) ==
  /\ \A k \in 2..Len(h) : k \div 2 # i => InOrder(h, k)
  /\ AboveOrder(h, i)

(* The index of a queue names places of its heap that hold the task. *)
Indexed(q) ==
  \A t \in Tasks : q.index[t] # Absent =>
    q.index[t] \in DOMAIN q.heap /\ q.heap[q.index[t]].task = t

(* No two nodes are equal. *)
Distinct(h) == \A i, j \in DOMAIN h : h[i].order = h[j].order => i = j

(* What the loops do to a queue: they rearrange its nodes, the index        *)
(* follows, and no task leaves the index.                                   *)
Rearranged(q, r) ==
  /\ r \in Queue
  /\ Len(r.heap) = Len(q.heap)
  /\ Range(r.heap) = Range(q.heap)
  /\ Distinct(q.heap) => Distinct(r.heap)
  /\ Indexed(q) => Indexed(r)
  /\ \A t \in Tasks : q.index[t] # Absent => r.index[t] # Absent

LEMMA RearrangedTwice ==
  ASSUME NEW p, NEW q, NEW r, Rearranged(p, q), Rearranged(q, r)
  PROVE  Rearranged(p, r)
BY DEF Rearranged

(* A swap rearranges, and its heap is as expected. *)
LEMMA SwapRearranges ==
  ASSUME NEW q \in Queue, NEW i \in DOMAIN q.heap, NEW j \in DOMAIN q.heap, i # j
  PROVE  /\ Rearranged(q, Swap(q, i, j))
         /\ Swap(q, i, j).heap[i] = q.heap[j]
         /\ Swap(q, i, j).heap[j] = q.heap[i]
         /\ \A k \in DOMAIN q.heap \ {i, j} : Swap(q, i, j).heap[k] = q.heap[k]
<1> DEFINE h == [q.heap EXCEPT ![i] = q.heap[j], ![j] = q.heap[i]]
           x == [q.index EXCEPT ![h[i].task] = i, ![h[j].task] = j]
           r == Swap(q, i, j)
<1>1. r = [heap |-> h, index |-> x]
  BY DEF Swap
<1>2. /\ q.heap \in Seq(Node) /\ q.index \in [Tasks -> Nat]
      /\ DOMAIN q.heap = 1..Len(q.heap) /\ Len(q.heap) \in Nat
  BY DEF Queue
<1>3. /\ h \in Seq(Node) /\ Len(h) = Len(q.heap) /\ DOMAIN h = DOMAIN q.heap
      /\ h[i] = q.heap[j] /\ h[j] = q.heap[i]
      /\ \A k \in DOMAIN q.heap \ {i, j} : h[k] = q.heap[k]
  <2>1. q.heap \in [1..Len(q.heap) -> Node] /\ i \in 1..Len(q.heap) /\ j \in 1..Len(q.heap)
    BY <1>2
  <2>2. h \in [1..Len(q.heap) -> Node]
    BY <2>1
  <2>3. h \in Seq(Node) /\ Len(h) = Len(q.heap) /\ DOMAIN h = DOMAIN q.heap
    <3> HIDE DEF h
    <3> QED BY <1>2, <2>2
  <2>4. \A k \in 1..Len(q.heap) :
          h[k] = IF k = j THEN q.heap[i] ELSE IF k = i THEN q.heap[j] ELSE q.heap[k]
    BY <2>1
  <2> QED BY <1>2, <2>1, <2>3, <2>4
<1>4. \A k \in DOMAIN q.heap : q.heap[k] \in Node /\ h[k] \in Node /\ h[k].task \in Tasks
  <2>1. \A e \in Node : e.task \in Tasks
    BY DEF Node
  <2> HIDE DEF h
  <2> QED BY <1>2, <1>3, <2>1
<1>5. /\ x \in [Tasks -> Nat]
      /\ \A t \in Tasks : x[t] = IF t = h[j].task THEN j
                                 ELSE IF t = h[i].task THEN i ELSE q.index[t]
  <2>1. h[i].task \in Tasks /\ h[j].task \in Tasks /\ i \in Nat /\ j \in Nat
    BY <1>2, <1>4
  <2> HIDE DEF h
  <2> QED BY <1>2, <2>1
<1>6. r \in Queue /\ r.heap = h /\ r.index = x
  <2> HIDE DEF h, x
  <2> QED BY <1>1, <1>3, <1>5 DEF Queue
<1> HIDE DEF h, x, r
<1>7. Range(h) = Range(q.heap)
  <2>1. Range(h) \subseteq Range(q.heap)
    BY <1>3 DEF Range
  <2>2. ASSUME NEW k \in DOMAIN q.heap PROVE \E m \in DOMAIN h : h[m] = q.heap[k]
    BY <1>3
  <2> QED BY <2>1, <2>2 DEF Range
<1>8. Distinct(q.heap) => Distinct(h)
  <2>1. \A k \in DOMAIN h :
          \E m \in DOMAIN q.heap : /\ h[k] = q.heap[m]
                                 /\ m = IF k = i THEN j ELSE IF k = j THEN i ELSE k
    BY <1>2, <1>3
  <2> HIDE DEF h
  <2> SUFFICES ASSUME Distinct(q.heap), NEW a \in DOMAIN h, NEW b \in DOMAIN h,
                      h[a].order = h[b].order
               PROVE  a = b
    BY DEF Distinct
  <2>2. PICK m \in DOMAIN q.heap :
          h[a] = q.heap[m] /\ m = IF a = i THEN j ELSE IF a = j THEN i ELSE a
    BY <2>1
  <2>3. PICK n \in DOMAIN q.heap :
          h[b] = q.heap[n] /\ n = IF b = i THEN j ELSE IF b = j THEN i ELSE b
    BY <2>1
  <2>4. m = n
    BY <2>2, <2>3 DEF Distinct
  <2> QED BY ONLY <2>2, <2>3, <2>4
<1>9. Indexed(q) => Indexed(r)
  <2> SUFFICES ASSUME Indexed(q), NEW t \in Tasks, r.index[t] # Absent
               PROVE  r.index[t] \in DOMAIN h /\ h[r.index[t]].task = t
    BY <1>6 DEF Indexed
  <2>1. CASE t = h[j].task \/ t = h[i].task
    BY <1>3, <1>5, <1>6, <2>1
  <2>2. CASE t # h[j].task /\ t # h[i].task
    BY <1>3, <1>5, <1>6, <2>2 DEF Indexed
  <2> QED BY <2>1, <2>2
<1>10. \A t \in Tasks : q.index[t] # Absent => r.index[t] # Absent
  BY <1>2, <1>5, <1>6 DEF Absent
<1> QED BY <1>3, <1>6, <1>7, <1>8, <1>9, <1>10 DEF Rearranged, r

-----------------------------------------------------------------------------
(* bubbleUp. *)

LoopStates == [q : Queue, at : Nat]

(* What the loop keeps, when it started with the queue p at the place s. *)
UpLoop(p, s) ==
  {l \in LoopStates : /\ Rearranged(p, l.q)
                      /\ l.at \in 1..s /\ l.at \in DOMAIN l.q.heap
                      /\ Rising(l.q.heap, l.at, s)}

UpDone(l) == l.at = 1 \/ InOrder(l.q.heap, l.at)

LEMMA UpRoundStep ==
  ASSUME NEW p, NEW s \in Nat, NEW l \in UpLoop(p, s)
  PROVE  /\ UpRound(l) \in UpLoop(p, s)
         /\ IF UpDone(l) THEN UpRound(l) = l ELSE UpRound(l).at < l.at
<1> DEFINE h == l.q.heap
           i == l.at
           j == l.at \div 2
           m == UpRound(l)
           g == m.q.heap
<1>1. /\ l.q \in Queue /\ i \in Nat /\ i \in 1..s /\ i \in DOMAIN h
      /\ Rearranged(p, l.q) /\ Rising(h, i, s)
  BY DEF UpLoop, LoopStates
<1>2. h \in Seq(Node) /\ DOMAIN h = 1..Len(h) /\ Len(h) \in Nat
  BY <1>1 DEF Queue
<1>3. CASE UpDone(l)
  <2>1. m = l
    BY <1>3 DEF UpRound, UpDone, InOrder
  <2> QED BY <1>3, <2>1
<1>4. CASE ~ UpDone(l)
  <2>1. /\ i > 1 /\ ShouldSwap(h[j], h[i])
        /\ m = [q |-> Swap(l.q, j, i), at |-> j]
    BY <1>1, <1>4 DEF UpRound, UpDone, InOrder
  <2>2. j \in Nat /\ j >= 1 /\ j < i /\ j \in DOMAIN h
    BY <1>1, <1>2, <2>1, Parents
  <2>3. /\ Rearranged(l.q, m.q) /\ m.q \in Queue
        /\ g[j] = h[i] /\ g[i] = h[j]
        /\ \A k \in DOMAIN h \ {i, j} : g[k] = h[k]
    BY <1>1, <2>1, <2>2, SwapRearranges DEF Rearranged
  <2>4. Len(g) = Len(h) /\ DOMAIN g = DOMAIN h
    BY <1>2, <2>3 DEF Rearranged, Queue
  <2>5. \A k \in DOMAIN h : h[k] \in Node
    BY <1>2
  <2>6. \A k \in 2..Len(h) : k # i /\ (k \div 2 = s => i # s) => ~ ShouldSwap(h[k \div 2], h[k])
    BY <1>1 DEF Rising, InOrder
  <2>7. \A k \in 2..Len(h) : k \div 2 = i => ~ ShouldSwap(h[j], h[k])
    BY <1>1, <2>1 DEF Rising, AboveOrder
  <2> HIDE DEF m, g, h, i
  <2>8. \A k \in 2..Len(h) : k # j => ~ ShouldSwap(g[k \div 2], g[k])
    <3> SUFFICES ASSUME NEW k \in 2..Len(h), k # j
                 PROVE  ~ ShouldSwap(g[k \div 2], g[k])
      OBVIOUS
    <3>1. /\ k \div 2 \in Nat /\ k \div 2 >= 1 /\ k \div 2 < k
          /\ k \in DOMAIN h /\ k \div 2 \in DOMAIN h
      BY <1>2, Parents
    <3>2. CASE k = i
      BY <2>1, <2>2, <2>3, <2>5, <3>1, <3>2, NodesAreOrdered DEF i
    <3>3. CASE k # i /\ k \div 2 = i
      BY <2>2, <2>3, <2>7, <3>1, <3>3
    <3>4. CASE k # i /\ k \div 2 = j
      <4>1. ~ ShouldSwap(h[j], h[k])
        BY <1>1, <2>2, <2>6, <3>4
      <4>2. ~ ShouldSwap(h[i], h[j])
        BY <1>1, <2>1, <2>2, <2>5, NodesAreOrdered
      <4>3. ~ ShouldSwap(h[i], h[k])
        BY <1>1, <2>2, <2>5, <3>1, <4>1, <4>2, NodesAreOrdered
      <4> QED BY <2>3, <3>1, <3>4, <4>3
    <3>5. CASE k # i /\ k \div 2 # i /\ k \div 2 # j
      BY <1>1, <2>3, <2>6, <3>1, <3>5
    <3> QED BY <3>2, <3>3, <3>4, <3>5
  <2>9. ASSUME j > 1, NEW k \in 2..Len(h), k \div 2 = j
        PROVE  ~ ShouldSwap(g[j \div 2], g[k])
    <3>1. /\ j \div 2 \in Nat /\ j \div 2 >= 1 /\ j \div 2 < j
          /\ j \div 2 \in DOMAIN h /\ k \in DOMAIN h /\ k # j
      BY <1>2, <2>2, <2>9, Parents
    <3>2. ~ ShouldSwap(h[j \div 2], h[j]) /\ g[j \div 2] = h[j \div 2]
      BY <1>1, <1>2, <2>2, <2>3, <2>6, <2>9, <3>1
    <3>3. CASE k = i
      BY <2>3, <3>2, <3>3
    <3>4. CASE k # i
      <4>1. ~ ShouldSwap(h[j], h[k])
        BY <1>1, <2>2, <2>6, <2>9, <3>4
      <4>2. ~ ShouldSwap(h[j \div 2], h[k])
        BY <2>2, <2>5, <3>1, <3>2, <4>1, NodesAreOrdered
      <4> QED BY <2>3, <3>1, <3>2, <3>4, <4>2
    <3> QED BY <3>3, <3>4
  <2>10. Rising(g, j, s)
    BY <2>4, <2>8, <2>9 DEF Rising, AboveOrder, InOrder
  <2>11. m.at = j /\ m \in LoopStates
    BY <2>1, <2>2, <2>3 DEF LoopStates
  <2>12. Rearranged(p, m.q)
    BY <1>1, <2>3, RearrangedTwice
  <2> QED BY <1>1, <1>4, <2>2, <2>4, <2>10, <2>11, <2>12 DEF UpLoop, m, g, i, h
<1> QED BY <1>3, <1>4

(* A node that may have to move in both directions, like the one that       *)
(* remove() puts into the middle, may only have to move down afterwards.    *)
LEMMA BubbleUpResult ==
  ASSUME NEW q \in Queue, NEW s \in DOMAIN q.heap, Rising(q.heap, s, s)
  PROVE  Rearranged(q, BubbleUp(q, s)) /\ Sinking(BubbleUp(q, s).heap, s)
<1> DEFINE a == [q |-> q, at |-> s]
           S == UpLoop(q, s)
           g == [l \in S |-> UpRound(l)]
           d == [l \in S |-> l.at]
           n == Len(q.heap)
           after == CHOOSE after : after = [k \in Nat |-> IF k = 0 THEN a ELSE UpRound(after[k - 1])]
           l == after[n]
<1>1. s \in Nat /\ s >= 1 /\ s <= n /\ n \in Nat
  BY DEF Queue
<1>2. a \in S
  <2>1. Rearranged(q, q)
    BY DEF Rearranged
  <2> QED BY <1>1, <2>1 DEF UpLoop, LoopStates
<1>3. g \in [S -> S]
  BY <1>1, UpRoundStep
<1>4. after = [k \in Nat |-> IF k = 0 THEN a ELSE UpRound(after[k - 1])]
  <2>1. \E f \in [Nat -> S] : f[0] = a /\ \A k \in Nat : f[k + 1] = g[f[k]]
    <3> HIDE DEF g, S, a
    <3> QED BY ONLY <1>2, <1>3, Rounds
  <2>2. PICK f \in [Nat -> S] : f[0] = a /\ \A k \in Nat : f[k + 1] = g[f[k]]
    BY <2>1
  <2>3. f = [k \in Nat |-> IF k = 0 THEN a ELSE UpRound(f[k - 1])]
    <3> SUFFICES ASSUME NEW k \in Nat, k # 0 PROVE f[k] = UpRound(f[k - 1])
      <4> HIDE DEF a, S
      <4> QED BY <2>2
    <3>1. k - 1 \in Nat /\ f[k - 1] \in S /\ f[(k - 1) + 1] = g[f[k - 1]]
      <4> HIDE DEF g, S
      <4> QED BY <2>2
    <3> HIDE DEF S
    <3> QED BY <3>1
  <2> HIDE DEF a
  <2> QED BY <2>3
<1> HIDE DEF after
<1>5. /\ after[0] = a
      /\ \A k \in Nat : after[k] \in S => after[k + 1] = g[after[k]]
  <2>1. after[0] = a
    <3> HIDE DEF a
    <3> QED BY <1>4
  <2>2. ASSUME NEW k \in Nat, after[k] \in S PROVE after[k + 1] = g[after[k]]
    <3>1. after[k + 1] = UpRound(after[k])
      <4> HIDE DEF a
      <4> QED BY <1>4, k + 1 \in Nat, k + 1 # 0, (k + 1) - 1 = k
    <3> HIDE DEF S
    <3> QED BY <2>2, <3>1
  <2> QED BY <2>1, <2>2
<1>6. l \in S /\ g[l] = l
  <2>1. d \in [S -> Nat] /\ d[a] <= n
    BY <1>1, <1>2 DEF UpLoop
  <2>2. \A m \in S : g[m] = m \/ d[g[m]] < d[m]
    BY <1>1, UpRoundStep
  <2> HIDE DEF S, g, d, a
  <2>3. after[0] \in S /\ d[after[0]] <= n
    BY <1>2, <1>5, <2>1
  <2> HIDE DEF n
  <2> QED BY ONLY <1>1, <1>3, <1>5, <2>1, <2>2, <2>3, LoopEnds DEF l
<1> HIDE DEF l
<1>7. UpRound(l) = l /\ UpDone(l)
  <2>1. UpRound(l) = l
    <3> HIDE DEF S
    <3> QED BY <1>6
  <2>2. IF UpDone(l) THEN UpRound(l) = l ELSE UpRound(l).at < l.at
    BY <1>1, <1>6, UpRoundStep
  <2>3. l.at \in Nat
    BY <1>6 DEF UpLoop, LoopStates
  <2> QED BY <2>1, <2>2, <2>3
<1>8. BubbleUp(q, s) = l.q
  BY DEF BubbleUp, l, after
<1> DEFINE h == l.q.heap
<1>9. /\ Rearranged(q, l.q) /\ h \in Seq(Node) /\ l.at \in DOMAIN h /\ l.at <= s /\ l.at \in Nat
      /\ Rising(h, l.at, s)
  BY <1>1, <1>6 DEF UpLoop, Rearranged, Queue
<1>10. \A k \in 2..Len(h) : (k \div 2 = s => l.at # s) => InOrder(h, k)
  BY <1>7, <1>9 DEF Rising, UpDone
<1>11. AboveOrder(h, s)
  <2> HIDE DEF h
  <2>1. CASE l.at = s
    BY <1>9, <2>1 DEF Rising
  <2>2. ASSUME l.at # s, s > 1, NEW k \in 2..Len(h), k \div 2 = s
        PROVE  ~ ShouldSwap(h[s \div 2], h[k])
    <3>1. /\ s \in 2..Len(h) /\ s \div 2 \in 1..Len(h) /\ k \in 1..Len(h)
          /\ h[s] \in Node /\ h[s \div 2] \in Node /\ h[k] \in Node
      BY <1>1, <1>9, <2>2, Parents
    <3>2. InOrder(h, s) /\ InOrder(h, k)
      BY <1>10, <2>2, <3>1
    <3> QED BY <2>2, <3>1, <3>2, NodesAreOrdered DEF InOrder
  <2> QED BY <2>1, <2>2 DEF AboveOrder
<1> QED BY <1>8, <1>9, <1>10, <1>11 DEF Sinking

-----------------------------------------------------------------------------
(* bubbleDown. *)

LEMMA Children ==
  ASSUME NEW i \in Nat
  PROVE  /\ (2 * i) \div 2 = i /\ (2 * i + 1) \div 2 = i
         /\ \A k \in Nat : k \div 2 = i => k = 2 * i \/ k = 2 * i + 1
OBVIOUS

LEMMA SmallestOfThree ==
  ASSUME NEW q \in Queue, NEW i \in DOMAIN q.heap
  PROVE  /\ Smallest(q, i) \in DOMAIN q.heap
         /\ Smallest(q, i) # i => Smallest(q, i) \in 2..Len(q.heap) /\ Smallest(q, i) \div 2 = i
         /\ ~ ShouldSwap(q.heap[Smallest(q, i)], q.heap[i])
         /\ \A k \in 2..Len(q.heap) : k \div 2 = i => ~ ShouldSwap(q.heap[Smallest(q, i)], q.heap[k])
<1> DEFINE h == q.heap
           b == IF 2 * i <= Len(h) /\ ShouldSwap(h[i], h[2 * i]) THEN 2 * i ELSE i
           s == IF 2 * i + 1 <= Len(h) /\ ShouldSwap(h[b], h[2 * i + 1])
                THEN 2 * i + 1 ELSE b
<1>1. /\ h \in Seq(Node) /\ DOMAIN h = 1..Len(h) /\ Len(h) \in Nat /\ i \in 1..Len(h)
      /\ \A k \in 1..Len(h) : h[k] \in Node
  BY DEF Queue
<1>2. Smallest(q, i) = s
  BY DEF Smallest
<1>3. /\ i \in Nat /\ i >= 1
      /\ (2 * i) \div 2 = i /\ (2 * i + 1) \div 2 = i
      /\ \A k \in Nat : k \div 2 = i => k = 2 * i \/ k = 2 * i + 1
  <2>1. i \in Nat /\ i >= 1
    BY <1>1
  <2> HIDE DEF h
  <2> QED BY ONLY <2>1, Children
<1> HIDE DEF h
<1>4. /\ b \in 1..Len(h)
      /\ b # i => b = 2 * i
      /\ ~ ShouldSwap(h[b], h[i])
      /\ 2 * i <= Len(h) => ~ ShouldSwap(h[b], h[2 * i])
  BY <1>1, NodesAreOrdered
<1> HIDE DEF b
<1>5. /\ s \in 1..Len(h)
      /\ s # i => s = 2 * i \/ s = 2 * i + 1
      /\ ~ ShouldSwap(h[s], h[b])
      /\ 2 * i + 1 <= Len(h) => ~ ShouldSwap(h[s], h[2 * i + 1])
  BY <1>1, <1>4, NodesAreOrdered
<1> HIDE DEF s
<1>6. ~ ShouldSwap(h[s], h[i])
  BY <1>1, <1>4, <1>5, NodesAreOrdered
<1>7. 2 * i <= Len(h) => ~ ShouldSwap(h[s], h[2 * i])
  BY <1>1, <1>4, <1>5, NodesAreOrdered
<1>8. \A k \in 2..Len(h) : k \div 2 = i => ~ ShouldSwap(h[s], h[k])
  <2> SUFFICES ASSUME NEW k \in 2..Len(h), k \div 2 = i PROVE ~ ShouldSwap(h[s], h[k])
    OBVIOUS
  <2>1. k = 2 * i \/ k = 2 * i + 1
    BY <1>3, k \in Nat
  <2> QED BY <1>1, <1>5, <1>7, <2>1
<1>9. s # i => s \in 2..Len(h) /\ s \div 2 = i
  <2> SUFFICES ASSUME s # i PROVE s \in 2..Len(h) /\ s \div 2 = i
    OBVIOUS
  <2>1. s = 2 * i \/ s = 2 * i + 1
    BY <1>5
  <2>2. s \in 2..Len(h)
    <3>1. i \in Nat /\ i >= 1 /\ s \in 1..Len(h) /\ Len(h) \in Nat
      BY <1>1, <1>3, <1>5
    <3> QED BY ONLY <2>1, <3>1
  <2> QED BY <1>3, <2>1, <2>2
<1> QED BY <1>1, <1>2, <1>5, <1>6, <1>8, <1>9 DEF h

(* What the loop keeps, when it started with the queue p. *)
DownLoop(p) ==
  {l \in LoopStates : /\ Rearranged(p, l.q)
                      /\ l.at \in DOMAIN l.q.heap
                      /\ Sinking(l.q.heap, l.at)}

DownDone(l) == Smallest(l.q, l.at) = l.at

LEMMA DownRoundStep ==
  ASSUME NEW p, NEW l \in DownLoop(p)
  PROVE  /\ DownRound(l) \in DownLoop(p)
         /\ IF DownDone(l) THEN DownRound(l) = l ELSE DownRound(l).at > l.at
<1> DEFINE h == l.q.heap
           i == l.at
           s == Smallest(l.q, i)
           m == DownRound(l)
           g == m.q.heap
<1>1. /\ l.q \in Queue /\ i \in Nat /\ i \in DOMAIN h
      /\ Rearranged(p, l.q) /\ Sinking(h, i)
  BY DEF DownLoop, LoopStates
<1>2. /\ h \in Seq(Node) /\ DOMAIN h = 1..Len(h) /\ Len(h) \in Nat
      /\ \A k \in 1..Len(h) : h[k] \in Node
  BY <1>1 DEF Queue
<1>3. CASE DownDone(l)
  <2>1. m = l
    BY <1>3 DEF DownRound, DownDone
  <2> QED BY <1>3, <2>1
<1>4. CASE ~ DownDone(l)
  <2>1. s # i /\ m = [q |-> Swap(l.q, i, s), at |-> s]
    BY <1>4 DEF DownRound, DownDone
  <2>2. /\ s \in DOMAIN h /\ s \in 2..Len(h) /\ s \div 2 = i
        /\ ~ ShouldSwap(h[s], h[i])
        /\ \A k \in 2..Len(h) : k \div 2 = i => ~ ShouldSwap(h[s], h[k])
    BY <1>1, <2>1, SmallestOfThree
  <2>3. /\ Rearranged(l.q, m.q) /\ m.q \in Queue
        /\ g[i] = h[s] /\ g[s] = h[i]
        /\ \A k \in DOMAIN h \ {i, s} : g[k] = h[k]
    <3> HIDE DEF s
    <3> QED BY <1>1, <2>1, <2>2, SwapRearranges DEF Rearranged
  <2>4. Len(g) = Len(h) /\ DOMAIN g = DOMAIN h
    BY <1>2, <2>3 DEF Rearranged, Queue
  <2>5. \A k \in 2..Len(h) : k \div 2 # i => ~ ShouldSwap(h[k \div 2], h[k])
    BY <1>1 DEF Sinking, InOrder
  <2>6. i > 1 => \A k \in 2..Len(h) : k \div 2 = i => ~ ShouldSwap(h[i \div 2], h[k])
    BY <1>1 DEF Sinking, AboveOrder
  <2>7. s \in Nat /\ s > i
    BY <1>2, <2>2, Parents
  <2> HIDE DEF m, g, h, i, s
  <2>8. ASSUME NEW k \in 2..Len(h), k \div 2 # s
        PROVE  ~ ShouldSwap(g[k \div 2], g[k])
    <3>1. /\ k \div 2 \in Nat /\ k \div 2 >= 1 /\ k \div 2 < k
          /\ k \in DOMAIN h /\ k \div 2 \in DOMAIN h
      BY <1>2, Parents
    <3>2. CASE k = s
      BY <2>2, <2>3, <3>2
    <3>3. CASE k # s /\ k \div 2 = i
      <4>1. g[k] = h[k] /\ g[k \div 2] = h[s]
        BY <2>3, <3>1, <3>3
      <4> QED BY <2>2, <3>3, <4>1
    <3>4. CASE k = i
      <4>1. g[k] = h[s] /\ g[k \div 2] = h[k \div 2]
        BY <2>3, <2>8, <3>1, <3>4
      <4>2. i > 1
        BY <3>4
      <4> QED BY <2>2, <2>6, <3>4, <4>1, <4>2
    <3>5. CASE k # s /\ k # i /\ k \div 2 # i
      <4>1. g[k] = h[k] /\ g[k \div 2] = h[k \div 2]
        BY <2>3, <2>8, <3>1, <3>5
      <4> QED BY <2>5, <3>5, <4>1
    <3> QED BY <3>2, <3>3, <3>4, <3>5
  <2>9. ASSUME NEW k \in 2..Len(h), k \div 2 = s
        PROVE  ~ ShouldSwap(g[s \div 2], g[k])
    <3>1. k \in DOMAIN h /\ k > s
      BY <1>2, <2>9, Parents
    <3>2. g[k] = h[k] /\ g[s \div 2] = h[s]
      BY <2>2, <2>3, <2>7, <3>1, <1>1
    <3> QED BY <2>5, <2>7, <2>9, <3>2
  <2>10. Sinking(g, s)
    BY <2>4, <2>8, <2>9 DEF Sinking, AboveOrder, InOrder
  <2>11. m.at = s /\ m \in LoopStates
    BY <2>1, <2>3, <2>7 DEF LoopStates
  <2>12. Rearranged(p, m.q)
    BY <1>1, <2>3, RearrangedTwice
  <2> QED BY <1>4, <2>2, <2>4, <2>7, <2>10, <2>11, <2>12 DEF DownLoop, m, g, i, h
<1> QED BY <1>3, <1>4

(* After bubbleDown the heap is a heap. *)
LEMMA BubbleDownResult ==
  ASSUME NEW q \in Queue, NEW s \in DOMAIN q.heap, Sinking(q.heap, s)
  PROVE  Rearranged(q, BubbleDown(q, s)) /\ IsHeap(BubbleDown(q, s).heap)
<1> DEFINE a == [q |-> q, at |-> s]
           S == DownLoop(q)
           g == [l \in S |-> DownRound(l)]
           n == Len(q.heap)
           d == [l \in S |-> n - l.at]
           after == CHOOSE after : after = [k \in Nat |-> IF k = 0 THEN a ELSE DownRound(after[k - 1])]
           l == after[n]
<1>1. s \in Nat /\ s >= 1 /\ s <= n /\ n \in Nat
  BY DEF Queue
<1>2. a \in S
  <2>1. Rearranged(q, q)
    BY DEF Rearranged
  <2> QED BY <1>1, <2>1 DEF DownLoop, LoopStates
<1>3. g \in [S -> S]
  BY DownRoundStep
<1>4. after = [k \in Nat |-> IF k = 0 THEN a ELSE DownRound(after[k - 1])]
  <2>1. \E f \in [Nat -> S] : f[0] = a /\ \A k \in Nat : f[k + 1] = g[f[k]]
    <3> HIDE DEF g, S, a
    <3> QED BY ONLY <1>2, <1>3, Rounds
  <2>2. PICK f \in [Nat -> S] : f[0] = a /\ \A k \in Nat : f[k + 1] = g[f[k]]
    BY <2>1
  <2>3. f = [k \in Nat |-> IF k = 0 THEN a ELSE DownRound(f[k - 1])]
    <3> SUFFICES ASSUME NEW k \in Nat, k # 0 PROVE f[k] = DownRound(f[k - 1])
      <4> HIDE DEF a, S
      <4> QED BY <2>2
    <3>1. k - 1 \in Nat /\ f[k - 1] \in S /\ f[(k - 1) + 1] = g[f[k - 1]]
      <4> HIDE DEF g, S
      <4> QED BY <2>2
    <3> HIDE DEF S
    <3> QED BY <3>1
  <2> HIDE DEF a
  <2> QED BY <2>3
<1> HIDE DEF after
<1>5. /\ after[0] = a
      /\ \A k \in Nat : after[k] \in S => after[k + 1] = g[after[k]]
  <2>1. after[0] = a
    <3> HIDE DEF a
    <3> QED BY <1>4
  <2>2. ASSUME NEW k \in Nat, after[k] \in S PROVE after[k + 1] = g[after[k]]
    <3>1. after[k + 1] = DownRound(after[k])
      <4> HIDE DEF a
      <4> QED BY <1>4, k + 1 \in Nat, k + 1 # 0, (k + 1) - 1 = k
    <3> HIDE DEF S
    <3> QED BY <2>2, <3>1
  <2> QED BY <2>1, <2>2
<1>6. \A m \in S : m.at \in Nat /\ m.at <= n
  BY <1>1 DEF DownLoop, LoopStates, Rearranged, Queue
<1>7. l \in S /\ g[l] = l
  <2>1. d \in [S -> Nat] /\ d[a] <= n
    <3> HIDE DEF S
    <3> QED BY <1>1, <1>2, <1>6
  <2>2. \A m \in S : g[m] = m \/ d[g[m]] < d[m]
    <3> SUFFICES ASSUME NEW m \in S, g[m] # m PROVE d[g[m]] < d[m]
      OBVIOUS
    <3>1. g[m] \in S /\ g[m].at > m.at
      BY <1>3, DownRoundStep
    <3> HIDE DEF S, g
    <3> QED BY <1>1, <1>6, <3>1
  <2> HIDE DEF S, g, d, a
  <2>3. after[0] \in S /\ d[after[0]] <= n
    BY <1>2, <1>5, <2>1
  <2> HIDE DEF n
  <2> QED BY ONLY <1>1, <1>3, <1>5, <2>1, <2>2, <2>3, LoopEnds DEF l
<1> HIDE DEF l
<1>8. DownDone(l)
  <2>1. DownRound(l) = l
    <3> HIDE DEF S
    <3> QED BY <1>7
  <2>2. IF DownDone(l) THEN DownRound(l) = l ELSE DownRound(l).at > l.at
    BY <1>7, DownRoundStep
  <2> QED BY <1>6, <1>7, <2>1, <2>2
<1>9. BubbleDown(q, s) = l.q
  BY DEF BubbleDown, l, after
<1>10. /\ Rearranged(q, l.q) /\ l.q \in Queue /\ l.at \in DOMAIN l.q.heap
       /\ Sinking(l.q.heap, l.at)
  BY <1>7 DEF DownLoop, LoopStates
<1>11. IsHeap(l.q.heap)
  <2>1. \A k \in 2..Len(l.q.heap) : k \div 2 = l.at => ~ ShouldSwap(l.q.heap[l.at], l.q.heap[k])
    BY <1>8, <1>10, SmallestOfThree DEF DownDone
  <2> QED BY <1>10, <2>1 DEF Sinking, IsHeap, InOrder
<1> QED BY <1>9, <1>10, <1>11

-----------------------------------------------------------------------------
(* The operations. *)

Current == [heap |-> heap, index |-> taskIndex]

(* Every task that was never doubled has one node at most, and a node means *)
(* an entry of the index.                                                   *)
OneEach(q, d) ==
  \A e \in Range(q.heap) : e.task \notin d =>
    /\ q.index[e.task] # Absent
    /\ \A f \in Range(q.heap) : f.task = e.task => f = e

(* A queue that is sound but for the order of its nodes, when count nodes   *)
(* have been inserted and d are the tasks that were doubled.                *)
Consistent(q, count, d) ==
  /\ q \in Queue /\ Len(q.heap) <= MaxQueueSize
  /\ Indexed(q) /\ Distinct(q.heap)
  /\ \A e \in Range(q.heap) : e.order < count
  /\ OneEach(q, d)

HeapInv ==
  /\ insertionCounter \in 0..MaxInsertions /\ doubled \subseteq Tasks
  /\ Consistent(Current, insertionCounter, doubled)
  /\ IsHeap(heap)

(* HeapInv, said of the variables. *)
LEMMA Facts ==
  ASSUME HeapInv
  PROVE  /\ insertionCounter \in 0..MaxInsertions /\ doubled \subseteq Tasks
         /\ heap \in Seq(Node) /\ Len(heap) \in Nat /\ Len(heap) <= MaxQueueSize
         /\ DOMAIN heap = 1..Len(heap)
         /\ taskIndex \in [Tasks -> Nat]
         /\ \A k \in 1..Len(heap) : /\ heap[k] \in Node /\ heap[k].task \in Tasks
                                    /\ heap[k] \in Range(heap)
         /\ \A j, k \in 1..Len(heap) : heap[j].order = heap[k].order => j = k
         /\ \A e \in Range(heap) : e.order < insertionCounter /\ e.task \in Tasks
         /\ \A t \in Tasks : taskIndex[t] # 0 =>
              taskIndex[t] \in 1..Len(heap) /\ heap[taskIndex[t]].task = t
         /\ \A e \in Range(heap) : e.task \notin doubled =>
              taskIndex[e.task] # 0 /\ \A f \in Range(heap) : f.task = e.task => f = e
         /\ \A k \in 2..Len(heap) : ~ ShouldSwap(heap[k \div 2], heap[k])
<1> DEFINE q == Current
<1>1. q.heap = heap /\ q.index = taskIndex
  BY DEF Current
<1>2. Consistent(q, insertionCounter, doubled)
  BY DEF HeapInv
<1> HIDE DEF q
<1>3. /\ heap \in Seq(Node) /\ taskIndex \in [Tasks -> Nat] /\ Len(heap) <= MaxQueueSize
      /\ Indexed(q) /\ Distinct(heap) /\ OneEach(q, doubled)
      /\ \A e \in Range(heap) : e.order < insertionCounter
  BY <1>1, <1>2 DEF Consistent, Queue
<1>4. DOMAIN heap = 1..Len(heap) /\ Len(heap) \in Nat
  BY <1>3
<1>5. \A k \in 1..Len(heap) : heap[k] \in Node /\ heap[k].task \in Tasks
  <2>1. \A e \in Node : e.task \in Tasks
    BY DEF Node
  <2> QED BY <1>3, <1>4, <2>1
<1>6. \A e \in Range(heap) : \E k \in 1..Len(heap) : e = heap[k]
  BY <1>4 DEF Range
<1>7. \A k \in 1..Len(heap) : heap[k] \in Range(heap)
  BY <1>4 DEF Range
<1>8. \A t \in Tasks : taskIndex[t] # 0 =>
        taskIndex[t] \in 1..Len(heap) /\ heap[taskIndex[t]].task = t
  BY <1>1, <1>3, <1>4 DEF Indexed, Absent
<1>9. \A e \in Range(heap) : e.task \notin doubled =>
        taskIndex[e.task] # 0 /\ \A f \in Range(heap) : f.task = e.task => f = e
  BY <1>1, <1>3 DEF OneEach, Absent
<1>10. \A k \in 2..Len(heap) : ~ ShouldSwap(heap[k \div 2], heap[k])
  BY DEF HeapInv, IsHeap, InOrder
<1>11. \A e \in Range(heap) : e.task \in Tasks
  BY <1>5, <1>6
<1>12. \A j, k \in 1..Len(heap) : heap[j].order = heap[k].order => j = k
  BY <1>3, <1>4 DEF Distinct
<1>13. insertionCounter \in 0..MaxInsertions /\ doubled \subseteq Tasks
  BY DEF HeapInv
<1> QED BY <1>3, <1>4, <1>5, <1>7, <1>8, <1>9, <1>10, <1>11, <1>12, <1>13

LEMMA InvIsSound == HeapInv => HeapSound
<1> SUFFICES ASSUME HeapInv PROVE HeapSound
  OBVIOUS
<1>1. TypeOK
  <2>1. ASSUME NEW t \in Tasks PROVE taskIndex[t] \in 0..MaxQueueSize
    BY Facts
  <2> QED BY Facts, <2>1 DEF TypeOK
<1>2. HeapOrdered
  BY Facts DEF HeapOrdered
<1>3. IndexSound
  BY Facts DEF IndexSound, InIndex, Places, Absent
<1>4. IndexComplete
  <2> SUFFICES ASSUME NEW t \in Tasks \ doubled, NEW i \in DOMAIN heap, heap[i].task = t
               PROVE  taskIndex[t] # 0
    BY DEF IndexComplete, Places, InIndex, Absent
  <2> QED BY Facts
<1> QED BY <1>1, <1>2, <1>3, <1>4 DEF HeapSound

(* A queue that was made a heap again is installed. *)
LEMMA InstallKeeps ==
  ASSUME NEW q, NEW r, Rearranged(q, r), IsHeap(r.heap), Install(r),
         insertionCounter' \in 0..MaxInsertions, doubled' \subseteq Tasks,
         Consistent(q, insertionCounter', doubled')
  PROVE  HeapInv'
<1>1. /\ r \in Queue /\ Len(r.heap) = Len(q.heap) /\ Range(r.heap) = Range(q.heap)
      /\ Distinct(r.heap) /\ Indexed(r)
      /\ \A t \in Tasks : q.index[t] # Absent => r.index[t] # Absent
  BY DEF Consistent, Rearranged
<1>2. \A e \in Range(q.heap) : e.task \in Tasks
  <2>1. q.heap \in Seq(Node) /\ \A e \in Node : e.task \in Tasks
    BY DEF Consistent, Queue, Node
  <2> QED BY <2>1 DEF Range
<1>3. Consistent(r, insertionCounter', doubled')
  <2>1. OneEach(r, doubled')
    BY <1>1, <1>2 DEF Consistent, OneEach
  <2> QED BY <1>1, <2>1 DEF Consistent
<1>4. Current' = r
  BY <1>1 DEF Current, Install, Queue
<1> QED BY <1>3, <1>4 DEF HeapInv, Install

LEMMA Fronts ==
  ASSUME NEW h \in Seq(Node), Len(h) > 0
  PROVE  /\ Front(h) \in Seq(Node) /\ Len(Front(h)) = Len(h) - 1
         /\ DOMAIN Front(h) = 1..Len(h) - 1
         /\ \A k \in 1..Len(h) - 1 : Front(h)[k] = h[k]
<1> DEFINE n == Len(h) - 1
<1>1. n \in Int /\ n \in Nat /\ 1 \in Int /\ \A k \in 1..n : h[k] \in Node
  OBVIOUS
<1> HIDE DEF n
<1>2. /\ SubSeq(h, 1, n) \in Seq(Node)
      /\ Len(SubSeq(h, 1, n)) = IF 1 <= n THEN n - 1 + 1 ELSE 0
      /\ \A k \in 1..n - 1 + 1 : SubSeq(h, 1, n)[k] = h[1 + k - 1]
  BY ONLY <1>1, SubSeqProperties
<1>3. /\ SubSeq(h, 1, n) \in Seq(Node) /\ Len(SubSeq(h, 1, n)) = n
      /\ \A k \in 1..n : SubSeq(h, 1, n)[k] = h[k]
  BY <1>1, <1>2
<1>4. DOMAIN SubSeq(h, 1, n) = 1..n
  BY <1>3
<1> QED BY <1>3, <1>4 DEF Front, n

(* The last node goes to the place i of a node that leaves. *)
LEMMA LastMoves ==
  ASSUME HeapInv, NEW i \in DOMAIN heap, i < Len(heap)
  PROVE  LET q == MoveLastTo(heap, Without(taskIndex, heap[i].task), i)
         IN /\ Consistent(q, insertionCounter, doubled)
            /\ i \in DOMAIN q.heap
            /\ Rising(q.heap, i, i) /\ (i = 1 => Sinking(q.heap, 1))
<1> DEFINE n == Len(heap)
           x == Without(taskIndex, heap[i].task)
           q == MoveLastTo(heap, x, i)
           h == q.heap
<1>1. i \in Nat /\ 1 <= i /\ i < n /\ n \in Nat /\ DOMAIN heap = 1..n /\ heap \in Seq(Node)
  BY Facts
<1>2. \A t \in Tasks : x[t] = IF t = heap[i].task THEN 0 ELSE taskIndex[t]
  BY Facts DEF Without, Absent
<1>3. /\ q = [heap |-> [Front(heap) EXCEPT ![i] = heap[n]], index |-> [x EXCEPT ![heap[n].task] = i]]
      /\ x \in [Tasks -> Nat]
  BY Facts DEF MoveLastTo, Last, Without, Absent
<1> HIDE DEF x
<1>4. /\ h \in Seq(Node) /\ Len(h) = n - 1 /\ DOMAIN h = 1..n - 1
      /\ \A k \in 1..n - 1 : h[k] = IF k = i THEN heap[n] ELSE heap[k]
  <2>1. /\ Front(heap) \in [1..n - 1 -> Node] /\ heap[n] \in Node /\ h = [Front(heap) EXCEPT ![i] = heap[n]]
        /\ \A k \in 1..n - 1 : Front(heap)[k] = heap[k]
    <3>1. /\ Front(heap) \in Seq(Node) /\ Len(Front(heap)) = n - 1
          /\ \A k \in 1..n - 1 : Front(heap)[k] = heap[k]
      <4>1. heap \in Seq(Node) /\ Len(heap) > 0
        BY <1>1
      <4> QED BY ONLY <4>1, Fronts
    <3>2. Front(heap) \in [1..n - 1 -> Node]
      BY <3>1
    <3>3. heap[n] \in Node
      BY <1>1
    <3> QED BY <1>3, <3>1, <3>2, <3>3
  <2>2. h \in [1..n - 1 -> Node] /\ \A k \in 1..n - 1 : h[k] = IF k = i THEN heap[n] ELSE heap[k]
    BY <2>1
  <2> HIDE DEF h, n
  <2>3. n - 1 \in Nat
    BY <1>1
  <2> QED BY <2>2, <2>3
<1>5. /\ q.index \in [Tasks -> Nat]
      /\ \A t \in Tasks : q.index[t] = IF t = heap[n].task THEN i ELSE x[t]
  BY <1>1, <1>3, Facts
<1>6. q \in Queue
  BY <1>3, <1>4, <1>5 DEF Queue
<1> HIDE DEF q, h, n
<1>7. Indexed(q)
  <2>1. \A t \in Tasks : taskIndex[t] # 0 => taskIndex[t] \in 1..n /\ heap[taskIndex[t]].task = t
    BY Facts DEF n
  <2> SUFFICES ASSUME NEW t \in Tasks, q.index[t] # 0
               PROVE  q.index[t] \in 1..n - 1 /\ h[q.index[t]].task = t
    BY <1>4 DEF Indexed, Absent, h
  <2>2. CASE t = heap[n].task
    BY <1>1, <1>4, <1>5, <2>2
  <2>3. CASE t # heap[n].task
    <3>1. q.index[t] = taskIndex[t] /\ t # heap[i].task /\ taskIndex[t] # 0
      BY <1>2, <1>5, <2>3
    <3>2. /\ taskIndex[t] \in 1..n /\ heap[taskIndex[t]].task = t
          /\ taskIndex[t] # i /\ taskIndex[t] # n
      BY <2>1, <2>3, <3>1
    <3> QED BY <1>1, <1>4, <3>1, <3>2
  <2> QED BY <2>2, <2>3
<1>8. Distinct(h)
  <2>1. \A j, k \in 1..n : heap[j].order = heap[k].order => j = k
    BY Facts DEF n
  <2> SUFFICES ASSUME NEW j \in 1..n - 1, NEW k \in 1..n - 1, h[j].order = h[k].order
               PROVE  j = k
    BY <1>4 DEF Distinct
  <2>2. j \in 1..n /\ k \in 1..n /\ n \in 1..n /\ j # n /\ k # n
    BY <1>1
  <2> QED BY <1>4, <2>1, <2>2
<1>9. \A e \in Range(h) : e \in Range(heap) /\ e # heap[i]
  <2> SUFFICES ASSUME NEW k \in 1..n - 1 PROVE h[k] \in Range(heap) /\ h[k] # heap[i]
    BY <1>4 DEF Range
  <2>1. /\ \A j \in 1..n : heap[j] \in Range(heap)
        /\ \A j, m \in 1..n : heap[j].order = heap[m].order => j = m
    BY Facts DEF n
  <2>2. k \in 1..n /\ n \in 1..n /\ i \in 1..n /\ k # n /\ i # n
    BY <1>1
  <2> QED BY <1>4, <2>1, <2>2
<1>10. OneEach(q, doubled)
  <2> SUFFICES ASSUME NEW e \in Range(h), e.task \notin doubled
               PROVE  q.index[e.task] # Absent /\ \A f \in Range(h) : f.task = e.task => f = e
    BY DEF OneEach, h
  <2>1. /\ e \in Range(heap) /\ heap[i] \in Range(heap)
        /\ taskIndex[e.task] # 0
        /\ \A f \in Range(heap) : f.task = e.task => f = e
    BY <1>1, <1>9, Facts
  <2>2. e.task # heap[i].task
    BY <1>9, <2>1
  <2>3. e.task \in Tasks
    BY <2>1, Facts
  <2> QED BY <1>1, <1>2, <1>5, <1>9, <2>1, <2>2, <2>3 DEF Absent
<1>11. Consistent(q, insertionCounter, doubled)
  <2>1. \A e \in Range(h) : e.order < insertionCounter
    BY <1>9, Facts
  <2>2. Len(h) <= MaxQueueSize
    <3>1. n <= MaxQueueSize
      BY Facts DEF n
    <3> QED BY <1>1, <1>4, <3>1
  <2> QED BY <1>6, <1>7, <1>8, <1>10, <2>1, <2>2 DEF Consistent, h
<1>12. \A k \in 2..n : ~ ShouldSwap(heap[k \div 2], heap[k])
  BY Facts DEF n
<1>13. \A k \in 2..Len(h) : k # i /\ k \div 2 # i => InOrder(h, k)
  <2> SUFFICES ASSUME NEW k \in 2..Len(h), k # i, k \div 2 # i PROVE InOrder(h, k)
    OBVIOUS
  <2>1. k \in 1..n - 1 /\ k \div 2 \in 1..n - 1 /\ k \in 2..n
    BY <1>1, <1>4, Parents
  <2> QED BY <1>4, <1>12, <2>1 DEF InOrder
<1>14. AboveOrder(h, i)
  <2> SUFFICES ASSUME i > 1, NEW k \in 2..Len(h), k \div 2 = i
               PROVE  ~ ShouldSwap(h[i \div 2], h[k])
    BY DEF AboveOrder
  <2>1. /\ k \in 1..n - 1 /\ k \in 2..n /\ k # i /\ i \in 2..n
        /\ i \div 2 \in 1..n - 1 /\ i \div 2 # i
    BY <1>1, <1>4, Parents
  <2>2. ~ ShouldSwap(heap[i \div 2], heap[i]) /\ ~ ShouldSwap(heap[i], heap[k])
    BY <1>12, <2>1
  <2>3. ~ ShouldSwap(heap[i \div 2], heap[k])
    BY <1>1, <2>1, <2>2, NodesAreOrdered, Facts DEF n
  <2> QED BY <1>4, <2>1, <2>3
<1>15. Rising(h, i, i) /\ (i = 1 => Sinking(h, 1))
  BY <1>13, <1>14 DEF Rising, Sinking
<1> QED BY <1>1, <1>4, <1>11, <1>15 DEF q, h, x

(* The last node leaves. *)
LEMMA LastLeaves ==
  ASSUME HeapInv, heap # << >>
  PROVE  LET q == [heap |-> Front(heap), index |-> Without(taskIndex, Last(heap).task)]
         IN Consistent(q, insertionCounter, doubled) /\ IsHeap(q.heap)
<1> DEFINE n == Len(heap)
           x == Without(taskIndex, heap[n].task)
           h == Front(heap)
           q == [heap |-> h, index |-> x]
<1>1. /\ heap \in Seq(Node) /\ n \in Nat /\ n >= 1 /\ n <= MaxQueueSize
      /\ taskIndex \in [Tasks -> Nat]
  BY Facts
<1>2. /\ x \in [Tasks -> Nat]
      /\ \A t \in Tasks : x[t] = IF t = heap[n].task THEN 0 ELSE taskIndex[t]
  BY <1>1 DEF Without, Absent
<1>3. /\ h \in Seq(Node) /\ Len(h) = n - 1 /\ DOMAIN h = 1..n - 1
      /\ \A k \in 1..n - 1 : h[k] = heap[k]
  BY <1>1, Fronts
<1>4. q \in Queue /\ q.heap = h /\ q.index = x
  BY <1>2, <1>3 DEF Queue
<1> HIDE DEF q, h, x, n
<1>5. \A k \in 1..n - 1 : k \in 1..n /\ k # n
  BY <1>1
<1>6. Indexed(q)
  <2>1. \A t \in Tasks : taskIndex[t] # 0 => taskIndex[t] \in 1..n /\ heap[taskIndex[t]].task = t
    BY Facts DEF n
  <2> SUFFICES ASSUME NEW t \in Tasks, x[t] # 0 PROVE x[t] \in 1..n - 1 /\ h[x[t]].task = t
    BY <1>3, <1>4 DEF Indexed, Absent
  <2>2. /\ x[t] = taskIndex[t] /\ t # heap[n].task
        /\ taskIndex[t] \in 1..n /\ heap[taskIndex[t]].task = t
    BY <1>2, <2>1
  <2>3. taskIndex[t] \in 1..n - 1
    BY <1>1, <2>2
  <2> QED BY <1>3, <2>2, <2>3
<1>7. Distinct(h)
  <2>1. \A j, k \in 1..n : heap[j].order = heap[k].order => j = k
    BY Facts DEF n
  <2> QED BY <1>3, <1>5, <2>1 DEF Distinct
<1>8. \A e \in Range(h) : e \in Range(heap) /\ e # heap[n]
  <2> SUFFICES ASSUME NEW k \in 1..n - 1 PROVE h[k] \in Range(heap) /\ h[k] # heap[n]
    BY <1>3 DEF Range
  <2>1. /\ \A j \in 1..n : heap[j] \in Range(heap)
        /\ \A j, m \in 1..n : heap[j].order = heap[m].order => j = m
    BY Facts DEF n
  <2>2. n \in 1..n
    BY <1>1
  <2> QED BY <1>3, <1>5, <2>1, <2>2
<1>9. OneEach(q, doubled)
  <2> SUFFICES ASSUME NEW e \in Range(h), e.task \notin doubled
               PROVE  x[e.task] # 0 /\ \A f \in Range(h) : f.task = e.task => f = e
    BY <1>4 DEF OneEach, Absent
  <2>1. heap[n] \in Range(heap)
    BY <1>1, Facts DEF n
  <2>2. /\ e \in Range(heap) /\ e.task \in Tasks /\ taskIndex[e.task] # 0
        /\ \A f \in Range(heap) : f.task = e.task => f = e
    BY <1>8, Facts
  <2> QED BY <1>2, <1>8, <2>1, <2>2
<1>10. Consistent(q, insertionCounter, doubled)
  <2>1. \A e \in Range(h) : e.order < insertionCounter
    BY <1>8, Facts
  <2> QED BY <1>1, <1>3, <1>4, <1>6, <1>7, <1>9, <2>1 DEF Consistent
<1>11. IsHeap(h)
  <2> SUFFICES ASSUME NEW k \in 2..Len(h) PROVE ~ ShouldSwap(h[k \div 2], h[k])
    BY DEF IsHeap, InOrder
  <2>1. k \in 1..n - 1 /\ k \in 2..n /\ k \div 2 \in 1..n - 1
    BY <1>1, <1>3, Parents
  <2>2. ~ ShouldSwap(heap[k \div 2], heap[k])
    BY <2>1, Facts DEF n
  <2> QED BY <1>3, <2>1, <2>2
<1> QED BY <1>4, <1>10, <1>11 DEF q, h, x, n, Last

(* The node e comes in behind the others. *)
LEMMA NodeArrives ==
  ASSUME HeapInv, ~ QueueIsFull, NEW t \in Tasks, NEW p \in Priorities,
         insertionCounter < MaxInsertions
  PROVE  LET n == Len(heap) + 1
             e == [task |-> t, priority |-> p, order |-> insertionCounter]
             q == [heap |-> Append(heap, e), index |-> [taskIndex EXCEPT ![t] = n]]
         IN /\ Consistent(q, insertionCounter + 1,
                          IF Places(t) # {} THEN doubled \cup {t} ELSE doubled)
            /\ n \in DOMAIN q.heap /\ Len(q.heap) = n
            /\ Rising(q.heap, n, n)
<1> DEFINE n == Len(heap) + 1
           e == [task |-> t, priority |-> p, order |-> insertionCounter]
           h == Append(heap, e)
           x == [taskIndex EXCEPT ![t] = n]
           q == [heap |-> h, index |-> x]
           d == IF Places(t) # {} THEN doubled \cup {t} ELSE doubled
<1>1. /\ heap \in Seq(Node) /\ n \in Nat /\ n >= 1 /\ n <= MaxQueueSize /\ Len(heap) = n - 1
      /\ taskIndex \in [Tasks -> Nat] /\ insertionCounter \in Nat
      /\ DOMAIN heap = 1..n - 1
  BY Facts DEF QueueIsFull
<1>2. e \in Node /\ e.task = t /\ e.order = insertionCounter
  <2>1. insertionCounter \in 0..MaxInsertions
    BY DEF HeapInv
  <2> QED BY <2>1 DEF Node
<1>3. /\ x \in [Tasks -> Nat]
      /\ \A u \in Tasks : x[u] = IF u = t THEN n ELSE taskIndex[u]
  BY <1>1
<1> HIDE DEF e, n
<1>4. /\ h \in Seq(Node) /\ Len(h) = n /\ DOMAIN h = 1..n
      /\ h[n] = e /\ \A k \in 1..n - 1 : h[k] = heap[k]
  BY <1>1, <1>2
<1>5. q \in Queue /\ q.heap = h /\ q.index = x
  BY <1>3, <1>4 DEF Queue
<1> HIDE DEF q, h, x, d
<1>6. \A k \in 1..n : k \in 1..n - 1 \/ k = n
  BY <1>1
<1>7. \A k \in 1..n - 1 : k \in 1..n /\ k # n
  BY <1>1
<1>8. Indexed(q)
  <2>1. \A u \in Tasks : taskIndex[u] # 0 => taskIndex[u] \in 1..n - 1 /\ heap[taskIndex[u]].task = u
    BY <1>1, Facts
  <2> SUFFICES ASSUME NEW u \in Tasks, x[u] # 0 PROVE x[u] \in 1..n /\ h[x[u]].task = u
    BY <1>4, <1>5 DEF Indexed, Absent
  <2>2. n \in 1..n
    BY <1>1
  <2> QED BY <1>2, <1>3, <1>4, <1>7, <2>1, <2>2
<1>9. \A k \in 1..n - 1 : /\ heap[k] \in Range(heap) /\ heap[k].order # insertionCounter
                          /\ heap[k].order < insertionCounter
  <2>1. \A k \in 1..n - 1 : /\ heap[k] \in Range(heap) /\ heap[k].order < insertionCounter
    BY <1>1, Facts
  <2> QED BY <1>1, <2>1
<1>10. Distinct(h)
  <2>1. \A j, k \in 1..n - 1 : heap[j].order = heap[k].order => j = k
    BY <1>1, Facts
  <2> QED BY <1>2, <1>4, <1>6, <1>9, <2>1 DEF Distinct
<1>11. \A f \in Range(h) : f \in Range(heap) \/ f = e
  BY <1>4, <1>6, <1>9 DEF Range
<1>12. OneEach(q, d)
  <2> SUFFICES ASSUME NEW f \in Range(h), f.task \notin d
               PROVE  x[f.task] # 0 /\ \A g \in Range(h) : g.task = f.task => g = f
    BY <1>5 DEF OneEach, Absent
  <2>1. f.task \notin doubled
    BY DEF d
  <2>2. \A g \in Range(heap) : g.task = t => t \in d
    BY DEF d, Places, Range
  <2>3. CASE f = e
    <3>1. \A g \in Range(heap) : g.task # f.task
      BY <1>2, <2>2, <2>3
    <3> QED BY <1>1, <1>2, <1>3, <1>11, <2>3, <3>1
  <2>4. CASE f # e
    <3>1. /\ f \in Range(heap) /\ f.task \in Tasks /\ taskIndex[f.task] # 0
          /\ \A g \in Range(heap) : g.task = f.task => g = f
      BY <1>11, <2>1, <2>4, Facts
    <3>2. f.task # t
      BY <2>2, <3>1
    <3> QED BY <1>2, <1>3, <1>11, <3>1, <3>2
  <2> QED BY <2>3, <2>4
<1>13. Consistent(q, insertionCounter + 1, d)
  <2>1. \A f \in Range(heap) : f.order < insertionCounter + 1
    <3>1. \A f \in Range(heap) : \E k \in 1..n - 1 : f = heap[k]
      BY <1>1 DEF Range
    <3>2. \A k \in 1..n - 1 : heap[k].order \in Nat
      <4>1. \A k \in 1..n - 1 : heap[k] \in Node
        BY <1>1, Facts
      <4> QED BY <4>1 DEF Node
    <3> QED BY <1>1, <1>9, <3>1, <3>2
  <2>2. \A f \in Range(h) : f.order < insertionCounter + 1
    BY <1>1, <1>2, <1>11, <2>1
  <2> QED BY <1>1, <1>4, <1>5, <1>8, <1>10, <1>12, <2>2 DEF Consistent
<1>14. Rising(h, n, n)
  <2>1. ASSUME NEW k \in 2..n, k # n PROVE InOrder(h, k)
    <3>1. k \in 1..n - 1 /\ k \div 2 \in 1..n - 1 /\ k \in 2..Len(heap)
      BY <1>1, <2>1, Parents
    <3>2. ~ ShouldSwap(heap[k \div 2], heap[k])
      BY <3>1, Facts
    <3> QED BY <1>4, <3>1, <3>2 DEF InOrder
  <2>2. ASSUME NEW k \in 2..n PROVE k \div 2 # n
    BY <1>1, Parents
  <2> QED BY <1>4, <2>1, <2>2 DEF Rising, AboveOrder
<1>15. n \in 1..n
  BY <1>1
<1> QED BY <1>4, <1>5, <1>13, <1>14, <1>15 DEF q, h, x, e, d, n

-----------------------------------------------------------------------------
(* Every operation leaves a sound queue. *)

(* A gap in the middle is filled, and the heap made a heap again. *)
LEMMA GapFilled ==
  ASSUME HeapInv, NEW i \in DOMAIN heap, i < Len(heap)
  PROVE  LET q == MoveLastTo(heap, Without(taskIndex, heap[i].task), i)
             r == BubbleDown(BubbleUp(q, i), i)
         IN /\ Rearranged(q, r) /\ IsHeap(r.heap)
            /\ i = 1 => Rearranged(q, BubbleDown(q, 1)) /\ IsHeap(BubbleDown(q, 1).heap)
<1> DEFINE q == MoveLastTo(heap, Without(taskIndex, heap[i].task), i)
           u == BubbleUp(q, i)
           r == BubbleDown(u, i)
<1>1. /\ q \in Queue /\ i \in DOMAIN q.heap
      /\ Rising(q.heap, i, i) /\ (i = 1 => Sinking(q.heap, 1))
  BY LastMoves DEF Consistent
<1> HIDE DEF q
<1>2. Rearranged(q, u) /\ Sinking(u.heap, i)
  BY <1>1, BubbleUpResult
<1> HIDE DEF u
<1>3. u \in Queue /\ i \in DOMAIN u.heap
  BY <1>1, <1>2 DEF Rearranged, Queue
<1>4. Rearranged(u, r) /\ IsHeap(r.heap)
  BY <1>2, <1>3, BubbleDownResult
<1> HIDE DEF r
<1>5. Rearranged(q, r)
  BY <1>2, <1>4, RearrangedTwice
<1>6. i = 1 => Rearranged(q, BubbleDown(q, 1)) /\ IsHeap(BubbleDown(q, 1).heap)
  BY <1>1, BubbleDownResult
<1> QED BY <1>4, <1>5, <1>6 DEF q, u, r

LEMMA NothingMoves == \A q \in Queue : Rearranged(q, q)
BY DEF Rearranged

LEMMA DequeueKeeps ==
  ASSUME HeapInv, Dequeue
  PROVE  HeapInv'
<1> DEFINE x == Without(taskIndex, heap[1].task)
<1>1. /\ heap # << >> /\ heap \in Seq(Node) /\ Len(heap) \in Nat /\ Len(heap) >= 1
      /\ insertionCounter' = insertionCounter /\ doubled' = doubled
      /\ insertionCounter \in 0..MaxInsertions /\ doubled \subseteq Tasks
      /\ DOMAIN heap = 1..Len(heap)
  BY Facts DEF Dequeue
<1> HIDE DEF x
<1>2. CASE Len(heap) = 1
  <2> DEFINE q == [heap |-> Front(heap), index |-> x]
  <2>1. /\ Consistent(q, insertionCounter, doubled) /\ IsHeap(q.heap)
        /\ Front(heap) = << >>
    BY <1>1, <1>2, LastLeaves, Fronts DEF Last, x
  <2>2. Install(q)
    BY <1>2, <2>1 DEF Dequeue, x
  <2> HIDE DEF q
  <2>3. Rearranged(q, q)
    BY <2>1, NothingMoves DEF Consistent
  <2> QED BY <1>1, <2>1, <2>2, <2>3, InstallKeeps
<1>3. CASE Len(heap) # 1
  <2>1. 1 \in DOMAIN heap /\ 1 < Len(heap)
    BY ONLY <1>1, <1>3, SMT
  <2> DEFINE q == MoveLastTo(heap, x, 1)
             r == BubbleDown(q, 1)
  <2>2. Rearranged(q, r) /\ IsHeap(r.heap)
    BY <2>1, GapFilled DEF x
  <2>3. Consistent(q, insertionCounter, doubled)
    BY <2>1, LastMoves DEF x
  <2>4. Install(r)
    BY <1>3 DEF Dequeue, x
  <2> HIDE DEF q, r
  <2> QED BY <1>1, <2>2, <2>3, <2>4, InstallKeeps
<1> QED BY <1>2, <1>3

LEMMA RemoveTaskKeeps ==
  ASSUME HeapInv, NEW t \in Tasks, RemoveTask(t)
  PROVE  HeapInv'
<1> DEFINE i == taskIndex[t]
           x == Without(taskIndex, t)
<1>1. /\ heap \in Seq(Node) /\ Len(heap) \in Nat
      /\ i \in 1..Len(heap) /\ heap[i].task = t /\ i \in DOMAIN heap
      /\ insertionCounter' = insertionCounter /\ doubled' = doubled
      /\ insertionCounter \in 0..MaxInsertions /\ doubled \subseteq Tasks
  BY Facts DEF RemoveTask, InIndex, Absent
<1>2. CASE i < Len(heap)
  <2> DEFINE q == MoveLastTo(heap, x, i)
             r == BubbleDown(BubbleUp(q, i), i)
  <2>1. Rearranged(q, r) /\ IsHeap(r.heap)
    BY <1>1, <1>2, GapFilled
  <2>2. Consistent(q, insertionCounter, doubled)
    BY <1>1, <1>2, LastMoves
  <2>3. Install(r)
    BY <1>2 DEF RemoveTask
  <2> HIDE DEF q, r
  <2> QED BY <1>1, <2>1, <2>2, <2>3, InstallKeeps
<1>3. CASE ~ (i < Len(heap))
  <2> DEFINE q == [heap |-> Front(heap), index |-> x]
  <2>1. i = Len(heap) /\ heap # << >>
    BY <1>1, <1>3
  <2>2. Consistent(q, insertionCounter, doubled) /\ IsHeap(q.heap)
    BY <1>1, <2>1, LastLeaves DEF Last
  <2>3. Install(q)
    BY <1>3 DEF RemoveTask
  <2> HIDE DEF q
  <2>4. Rearranged(q, q)
    BY <2>2, NothingMoves DEF Consistent
  <2> QED BY <1>1, <2>2, <2>3, <2>4, InstallKeeps
<1> QED BY <1>2, <1>3

LEMMA EnqueueKeeps ==
  ASSUME HeapInv, NEW t \in Tasks, NEW p \in Priorities, Enqueue(t, p)
  PROVE  HeapInv'
<1> DEFINE n == Len(heap) + 1
           e == [task |-> t, priority |-> p, order |-> insertionCounter]
           q == [heap |-> Append(heap, e), index |-> [taskIndex EXCEPT ![t] = n]]
           d == IF Places(t) # {} THEN doubled \cup {t} ELSE doubled
           r == BubbleUp(q, n)
<1>1. /\ ~ QueueIsFull /\ insertionCounter < MaxInsertions
      /\ Install(r) /\ insertionCounter' = insertionCounter + 1 /\ doubled' = d
  BY DEF Enqueue
<1>2. /\ Consistent(q, insertionCounter + 1, d)
      /\ n \in DOMAIN q.heap /\ Len(q.heap) = n /\ Rising(q.heap, n, n)
  BY <1>1, NodeArrives
<1>3. insertionCounter' \in 0..MaxInsertions /\ doubled' \subseteq Tasks
  BY <1>1 DEF HeapInv
<1> HIDE DEF q, d, e, n
<1>4. Rearranged(q, r) /\ Sinking(r.heap, n)
  BY <1>2, BubbleUpResult DEF Consistent
<1> HIDE DEF r
<1>5. IsHeap(r.heap)
  <2>1. Len(r.heap) = n /\ n \in Nat
    BY <1>2, <1>4 DEF Rearranged, Consistent, Queue
  <2>2. \A k \in 2..n : k \div 2 # n
    BY <2>1, Parents
  <2> QED BY <1>4, <2>1, <2>2 DEF Sinking, IsHeap
<1> QED BY <1>1, <1>2, <1>3, <1>4, <1>5, InstallKeeps

LEMMA EmptyIsSound ==
  ASSUME NEW q, q = [heap |-> << >>, index |-> [t \in Tasks |-> Absent]], NEW d
  PROVE  Consistent(q, 0, d) /\ IsHeap(q.heap)
<1>1. q.heap = << >> /\ q.index = [t \in Tasks |-> Absent]
  OBVIOUS
<1>2. /\ << >> \in Seq(Node) /\ Len(<< >>) = 0 /\ DOMAIN << >> = {}
      /\ Range(<< >>) = {}
  BY DEF Range
<1>3. q \in Queue
  BY <1>2 DEF Queue, Absent
<1> QED BY <1>1, <1>2, <1>3 DEF Consistent, IsHeap, Indexed, Distinct, OneEach

LEMMA InitSound == Init => HeapInv
<1> SUFFICES ASSUME Init PROVE HeapInv
  OBVIOUS
<1>1. Consistent(Current, 0, doubled) /\ IsHeap(Current.heap) /\ Current.heap = heap
  BY EmptyIsSound DEF Init, Current
<1> QED BY <1>1 DEF Init, HeapInv

LEMMA ClearKeeps ==
  ASSUME HeapInv, Clear
  PROVE  HeapInv'
<1>1. Consistent(Current, 0, doubled)' /\ IsHeap(Current.heap)' /\ (Current.heap = heap)'
  BY EmptyIsSound DEF Clear, Current
<1> QED BY <1>1 DEF Clear, HeapInv

LEMMA StutterKeeps ==
  ASSUME HeapInv, UNCHANGED vars
  PROVE  HeapInv'
BY DEF HeapInv, Consistent, Current, vars, Indexed, Distinct, OneEach, IsHeap, InOrder

LEMMA HeapInvariance == Spec => []HeapInv
<1>1. ASSUME HeapInv, [Next]_vars PROVE HeapInv'
  <2>1. CASE Dequeue
    BY <1>1, <2>1, DequeueKeeps
  <2>2. CASE Clear
    BY <1>1, <2>2, ClearKeeps
  <2>3. ASSUME NEW t \in Tasks, RemoveTask(t) PROVE HeapInv'
    BY <1>1, <2>3, RemoveTaskKeeps
  <2>4. ASSUME NEW t \in Tasks, NEW p \in Priorities, Enqueue(t, p) PROVE HeapInv'
    BY <1>1, <2>4, EnqueueKeeps
  <2>5. CASE UNCHANGED vars
    BY <1>1, <2>5, StutterKeeps
  <2> QED BY <1>1, <2>1, <2>2, <2>3, <2>4, <2>5 DEF Next
<1> QED BY <1>1, InitSound, PTL DEF Spec

(* PriorityTaskQueue with any capacity, any priorities and after any        *)
(* history: the heap is within its limit and ordered, an entry of taskIndex *)
(* names a place that holds the task, and every task that was never in the  *)
(* heap twice has its entry.                                                *)
THEOREM HeapStaysSound == Spec => []HeapSound
BY HeapInvariance, InvIsSound, PTL

-----------------------------------------------------------------------------
(* The order in which the nodes leave.  A set of nodes has one order,       *)
(* whatever their places in a heap: a node's rank is the number of nodes    *)
(* that leave before it.                                                    *)

NodeSet(N) ==
  /\ N \in SUBSET Node /\ IsFiniteSet(N)
  /\ \A e, f \in N : e.order = f.order => e = f

Ahead(N, e) == {f \in N : ShouldSwap(e, f)}
Rank(N, e) == Cardinality(Ahead(N, e))
Nth(N, k) == CHOOSE e \in N : Rank(N, e) = k - 1
Entry(e) == [task |-> e.task, priority |-> e.priority]
Sorted(N) == [k \in 1..Cardinality(N) |-> Entry(Nth(N, k))]

LEMMA LeavingIsTransitive ==
  ASSUME NEW a \in Node, NEW b \in Node, NEW c \in Node, ShouldSwap(a, b), ShouldSwap(b, c)
  PROVE  ShouldSwap(a, c)
<1>1. \A e \in Node : e.priority \in Priorities /\ e.order \in 0..MaxInsertions
  BY DEF Node
<1>2. ASSUME NEW e \in Node PROVE e.priority \in Nat
  BY <1>1
<1>3. ASSUME NEW e \in Node PROVE e.order \in Nat
  BY <1>1
<1> QED BY <1>2, <1>3 DEF ShouldSwap

(* Ranks are the numbers below the size of the set, and sort it. *)
LEMMA Ranks ==
  ASSUME NEW N, NodeSet(N)
  PROVE  /\ Cardinality(N) \in Nat
         /\ \A e \in N : Rank(N, e) \in 0..Cardinality(N) - 1
         /\ \A e, f \in N : ShouldSwap(e, f) <=> Rank(N, f) < Rank(N, e)
         /\ \A e, f \in N : Rank(N, e) = Rank(N, f) => e = f
<1>1. \A e \in N : e \in Node
  BY DEF NodeSet
<1>2. Cardinality(N) \in Nat
  BY FS_CardinalityType DEF NodeSet
<1>3. ASSUME NEW e \in N PROVE Rank(N, e) \in 0..Cardinality(N) - 1 /\ IsFiniteSet(Ahead(N, e))
  <2>1. ~ ShouldSwap(e, e)
    BY <1>1, NodesAreOrdered
  <2>2. Ahead(N, e) \in SUBSET N /\ Ahead(N, e) # N
    BY <2>1 DEF Ahead
  <2>3. IsFiniteSet(N)
    BY DEF NodeSet
  <2>4. /\ IsFiniteSet(Ahead(N, e)) /\ Cardinality(Ahead(N, e)) <= Cardinality(N)
        /\ Cardinality(Ahead(N, e)) # Cardinality(N)
    BY <2>2, <2>3, FS_Subset
  <2>5. Cardinality(Ahead(N, e)) \in Nat
    BY <2>4, FS_CardinalityType
  <2> QED BY <1>2, <2>4, <2>5 DEF Rank
<1>4. ASSUME NEW e \in N, NEW f \in N, ShouldSwap(e, f) PROVE Rank(N, f) < Rank(N, e)
  <2>1. f \in Ahead(N, e) /\ f \notin Ahead(N, f)
    BY <1>1, <1>4, NodesAreOrdered DEF Ahead
  <2>2. Ahead(N, f) \in SUBSET Ahead(N, e)
    BY <1>1, <1>4, LeavingIsTransitive DEF Ahead
  <2>3. /\ Cardinality(Ahead(N, f)) <= Cardinality(Ahead(N, e))
        /\ Cardinality(Ahead(N, f)) # Cardinality(Ahead(N, e))
    BY <1>3, <2>1, <2>2, FS_Subset
  <2>4. Cardinality(Ahead(N, f)) \in Int /\ Cardinality(Ahead(N, e)) \in Int
    BY <1>3 DEF Rank
  <2> QED BY <2>3, <2>4 DEF Rank
<1>5. ASSUME NEW e \in N, NEW f \in N PROVE e = f \/ ShouldSwap(e, f) \/ ShouldSwap(f, e)
  <2>1. e.order = f.order => e = f
    BY DEF NodeSet
  <2> QED BY <1>1, <2>1, NodesAreOrdered
<1>6. \A e \in N : Rank(N, e) \in Int
  BY <1>3
<1>7. \A e, f \in N : ShouldSwap(e, f) <=> Rank(N, f) < Rank(N, e)
  <2> SUFFICES ASSUME NEW e \in N, NEW f \in N, Rank(N, f) < Rank(N, e) PROVE ShouldSwap(e, f)
    BY <1>4
  <2>1. e # f /\ ~ (Rank(N, e) < Rank(N, f))
    BY <1>6
  <2> QED BY <1>4, <1>5, <2>1
<1>8. \A e, f \in N : Rank(N, e) = Rank(N, f) => e = f
  BY <1>4, <1>5, <1>6
<1> QED BY <1>2, <1>3, <1>7, <1>8

(* There is one node of every rank. *)
LEMMA NthNodes ==
  ASSUME NEW N, NodeSet(N)
  PROVE  /\ \A k \in 1..Cardinality(N) : Nth(N, k) \in N /\ Rank(N, Nth(N, k)) = k - 1
         /\ \A e \in N : Rank(N, e) + 1 \in 1..Cardinality(N) /\ Nth(N, Rank(N, e) + 1) = e
<1> DEFINE C == Cardinality(N)
           R == 0..C - 1
           g == [e \in N |-> Rank(N, e)]
<1>1. /\ C \in Nat /\ \A e \in N : Rank(N, e) \in R
      /\ \A e, f \in N : Rank(N, e) = Rank(N, f) => e = f
  BY Ranks
<1>2. IsFiniteSet(R) /\ Cardinality(R) = C
  <2>1. C \in Int /\ C - 1 \in Int /\ 0 \in Int /\ (IF 0 > C - 1 THEN 0 ELSE C - 1 - 0 + 1) = C
    BY <1>1
  <2>2. /\ IsFiniteSet(0..C - 1)
        /\ Cardinality(0..C - 1) = IF 0 > C - 1 THEN 0 ELSE C - 1 - 0 + 1
    BY ONLY <2>1, FS_Interval
  <2> QED BY <2>1, <2>2
<1>3. g \in Injection(N, R)
  <2> HIDE DEF R
  <2> QED BY <1>1 DEF Injection, IsInjective
<1>4. g \in Surjection(N, R)
  <2> HIDE DEF g, R
  <2> QED BY <1>2, <1>3, FS_Injection
<1>5. \A r \in R : \E e \in N : Rank(N, e) = r
  <2> HIDE DEF R
  <2> QED BY <1>4 DEF Surjection
<1>6. ASSUME NEW k \in 1..C PROVE Nth(N, k) \in N /\ Rank(N, Nth(N, k)) = k - 1
  <2>1. k - 1 \in R
    BY <1>1
  <2>2. \E e \in N : Rank(N, e) = k - 1
    <3> HIDE DEF R
    <3> QED BY <1>5, <2>1
  <2> QED BY <2>2 DEF Nth
<1>7. ASSUME NEW e \in N PROVE Rank(N, e) + 1 \in 1..C /\ Nth(N, Rank(N, e) + 1) = e
  <2>1. Rank(N, e) \in R /\ C \in Nat
    BY <1>1
  <2> DEFINE k == Rank(N, e) + 1
             f == Nth(N, k)
  <2>2. k \in 1..C /\ k - 1 = Rank(N, e)
    BY ONLY <2>1
  <2> HIDE DEF k
  <2>3. f \in N /\ Rank(N, f) = k - 1
    BY <1>6, <2>2
  <2>4. Rank(N, f) = Rank(N, e) => f = e
    <3> HIDE DEF f
    <3> QED BY <1>1, <2>3
  <2>5. f = e
    BY ONLY <2>2, <2>3, <2>4
  <2> QED BY <2>2, <2>5 DEF k
<1> QED BY <1>6, <1>7

(* When a node leaves, the ones behind it move up by one. *)
LEMMA NodeGone ==
  ASSUME NEW N, NodeSet(N), NEW e \in N
  PROVE  LET i == Rank(N, e) + 1
             M == N \ {e}
         IN /\ NodeSet(M) /\ Cardinality(M) = Cardinality(N) - 1
            /\ i \in 1..Cardinality(N)
            /\ \A k \in 1..Cardinality(N) - 1 :
                 Nth(M, k) = IF k < i THEN Nth(N, k) ELSE Nth(N, k + 1)
<1> DEFINE i == Rank(N, e) + 1
           M == N \ {e}
           C == Cardinality(N)
<1>1. NodeSet(M) /\ Cardinality(M) = C - 1
  BY FS_RemoveElement DEF NodeSet
<1>2. C \in Nat /\ i \in 1..C /\ i \in Int /\ Rank(N, e) = i - 1
  BY Ranks
<1>3. ASSUME NEW f \in M
      PROVE  Rank(M, f) = IF Rank(N, e) < Rank(N, f) THEN Rank(N, f) - 1 ELSE Rank(N, f)
  <2>1. Ahead(M, f) = Ahead(N, f) \ {e}
    BY DEF Ahead
  <2>2. Ahead(N, f) \in SUBSET N /\ IsFiniteSet(N)
    BY DEF Ahead, NodeSet
  <2>3. IsFiniteSet(Ahead(N, f))
    BY <2>2, FS_Subset
  <2>4. e \in Ahead(N, f) <=> Rank(N, e) < Rank(N, f)
    <3>1. ShouldSwap(f, e) <=> Rank(N, e) < Rank(N, f)
      BY Ranks
    <3> QED BY <3>1 DEF Ahead
  <2>5. Cardinality(Ahead(N, f) \ {e})
          = IF e \in Ahead(N, f) THEN Cardinality(Ahead(N, f)) - 1 ELSE Cardinality(Ahead(N, f))
    BY <2>3, FS_RemoveElement
  <2> QED BY <2>1, <2>4, <2>5 DEF Rank
<1> HIDE DEF M, C, i
<1>4. ASSUME NEW k \in 1..C - 1 PROVE Nth(M, k) = IF k < i THEN Nth(N, k) ELSE Nth(N, k + 1)
  <2> DEFINE m == IF k < i THEN k ELSE k + 1
             f == Nth(N, m)
  <2>1. m \in 1..C /\ m \in Int /\ m # i /\ m - 1 # i - 1
    BY <1>2
  <2>2. f \in N /\ Rank(N, f) = m - 1
    <3> HIDE DEF m
    <3> QED BY <2>1, NthNodes DEF C
  <2>3. f \in M
    BY <1>2, <2>1, <2>2 DEF M
  <2>4. Rank(M, f) = k - 1
    <3> HIDE DEF f
    <3> QED BY <1>2, <1>3, <2>2, <2>3
  <2>5. Nth(M, k - 1 + 1) = f
    <3> HIDE DEF f
    <3> QED BY <1>1, <2>3, <2>4, NthNodes
  <2> QED BY <1>2, <2>5
<1> QED BY <1>1, <1>2, <1>4 DEF M, C, i

-----------------------------------------------------------------------------
(* Sequences that differ by one element. *)

LEMMA OneGone ==
  ASSUME NEW S, NEW s \in Seq(S), NEW i \in 1..Len(s), NEW t \in Seq(S),
         Len(t) = Len(s) - 1,
         \A k \in 1..Len(s) - 1 : t[k] = IF k < i THEN s[k] ELSE s[k + 1]
  PROVE  /\ t = RemoveAt(s, i)
         /\ i = 1 => s # << >> /\ t = Tail(s)
         /\ s = InsertAt(t, i, s[i])
<1> DEFINE n == Len(s)
<1>1. /\ n \in Nat /\ n - 1 \in Int /\ i \in Int /\ 1 \in Int /\ i - 1 \in Int /\ i + 1 \in Int
      /\ 1 <= i /\ i <= n /\ n \in Int
      /\ \A k \in 1..n : s[k] \in S
      /\ \A k \in 1..n - 1 : t[k] \in S
  OBVIOUS
<1> HIDE DEF n
<1>2. Len(t) = n - 1 /\ \A k \in 1..n - 1 : t[k] = IF k < i THEN s[k] ELSE s[k + 1]
  BY DEF n
<1>3. /\ SubSeq(s, 1, i - 1) \in Seq(S) /\ Len(SubSeq(s, 1, i - 1)) = i - 1
      /\ \A k \in 1..i - 1 : SubSeq(s, 1, i - 1)[k] = s[k]
  <2>1. \A k \in 1..i - 1 : s[k] \in S
    BY <1>1
  <2>2. /\ SubSeq(s, 1, i - 1) \in Seq(S)
        /\ Len(SubSeq(s, 1, i - 1)) = IF 1 <= i - 1 THEN i - 1 - 1 + 1 ELSE 0
        /\ \A k \in 1..i - 1 - 1 + 1 : SubSeq(s, 1, i - 1)[k] = s[1 + k - 1]
    BY ONLY <1>1, <2>1, SubSeqProperties
  <2> QED BY <1>1, <2>2
<1>4. /\ SubSeq(t, 1, i - 1) \in Seq(S) /\ Len(SubSeq(t, 1, i - 1)) = i - 1
      /\ \A k \in 1..i - 1 : SubSeq(t, 1, i - 1)[k] = t[k]
  <2>1. \A k \in 1..i - 1 : t[k] \in S
    BY <1>1
  <2>2. /\ SubSeq(t, 1, i - 1) \in Seq(S)
        /\ Len(SubSeq(t, 1, i - 1)) = IF 1 <= i - 1 THEN i - 1 - 1 + 1 ELSE 0
        /\ \A k \in 1..i - 1 - 1 + 1 : SubSeq(t, 1, i - 1)[k] = t[1 + k - 1]
    BY ONLY <1>1, <2>1, SubSeqProperties
  <2> QED BY <1>1, <2>2
<1>5. /\ SubSeq(s, i + 1, n) \in Seq(S) /\ Len(SubSeq(s, i + 1, n)) = n - i
      /\ \A k \in 1..n - i : SubSeq(s, i + 1, n)[k] = s[i + k]
  <2>1. \A k \in i + 1..n : s[k] \in S
    BY <1>1
  <2>2. /\ SubSeq(s, i + 1, n) \in Seq(S)
        /\ Len(SubSeq(s, i + 1, n)) = IF i + 1 <= n THEN n - (i + 1) + 1 ELSE 0
        /\ \A k \in 1..n - (i + 1) + 1 : SubSeq(s, i + 1, n)[k] = s[i + 1 + k - 1]
    BY ONLY <1>1, <2>1, SubSeqProperties
  <2> QED BY <1>1, <2>2
<1>6. /\ SubSeq(t, i, n - 1) \in Seq(S) /\ Len(SubSeq(t, i, n - 1)) = n - i
      /\ \A k \in 1..n - i : SubSeq(t, i, n - 1)[k] = t[i + k - 1]
  <2>1. \A k \in i..n - 1 : t[k] \in S
    BY <1>1
  <2>2. /\ SubSeq(t, i, n - 1) \in Seq(S)
        /\ Len(SubSeq(t, i, n - 1)) = IF i <= n - 1 THEN n - 1 - i + 1 ELSE 0
        /\ \A k \in 1..n - 1 - i + 1 : SubSeq(t, i, n - 1)[k] = t[i + k - 1]
    BY ONLY <1>1, <2>1, SubSeqProperties
  <2> QED BY <1>1, <2>2
<1>7. t = RemoveAt(s, i)
  <2> DEFINE a == SubSeq(s, 1, i - 1)
             b == SubSeq(s, i + 1, n)
  <2>1. /\ a \in Seq(S) /\ Len(a) = i - 1 /\ \A k \in 1..i - 1 : a[k] = s[k]
        /\ b \in Seq(S) /\ Len(b) = n - i /\ \A k \in 1..n - i : b[k] = s[i + k]
    BY <1>3, <1>5
  <2>2. RemoveAt(s, i) = a \o b
    BY DEF RemoveAt, n
  <2> HIDE DEF a, b
  <2>3. /\ a \o b \in Seq(S) /\ Len(a \o b) = Len(a) + Len(b)
        /\ \A k \in 1..Len(a) + Len(b) : (a \o b)[k] = IF k <= Len(a) THEN a[k] ELSE b[k - Len(a)]
    BY <2>1, ConcatProperties
  <2> DEFINE r == a \o b
  <2>4. r \in Seq(S) /\ Len(r) = n - 1
    BY <1>1, <2>1, <2>3
  <2>5. ASSUME NEW k \in 1..n - 1 PROVE r[k] = t[k]
    <3>1. r[k] = IF k <= i - 1 THEN a[k] ELSE b[k - (i - 1)]
      BY <1>1, <2>1, <2>3
    <3>2. CASE k <= i - 1
      BY <1>1, <1>2, <2>1, <3>1, <3>2
    <3>3. CASE ~ (k <= i - 1)
      <4>1. k - (i - 1) \in 1..n - i /\ i + (k - (i - 1)) = k + 1 /\ ~ (k < i)
        BY <1>1, <3>3
      <4> QED BY <1>2, <2>1, <3>1, <3>3, <4>1
    <3> QED BY <3>2, <3>3
  <2> HIDE DEF r
  <2>6. r = t
    BY <1>2, <2>4, <2>5, SeqEqual
  <2> QED BY <2>2, <2>6 DEF r
<1>8. i = 1 => s # << >> /\ t = Tail(s)
  <2>1. s # << >>
    BY <1>1 DEF n
  <2>2. /\ Tail(s) \in Seq(S) /\ Len(Tail(s)) = n - 1
        /\ \A k \in 1..n - 1 : Tail(s)[k] = s[k + 1]
    BY <2>1, HeadTailProperties DEF n
  <2>3. i = 1 => \A k \in 1..n - 1 : Tail(s)[k] = t[k]
    BY <1>2, <2>2
  <2> QED BY <1>2, <2>1, <2>2, <2>3, SeqEqual
<1>9. s = InsertAt(t, i, s[i])
  <2> DEFINE a == SubSeq(t, 1, i - 1)
             e == << s[i] >>
             b == SubSeq(t, i, n - 1)
             c == a \o e
  <2>1. /\ a \in Seq(S) /\ Len(a) = i - 1 /\ \A k \in 1..i - 1 : a[k] = t[k]
        /\ b \in Seq(S) /\ Len(b) = n - i /\ \A k \in 1..n - i : b[k] = t[i + k - 1]
    BY <1>4, <1>6
  <2>2. e \in Seq(S) /\ Len(e) = 1 /\ e[1] = s[i]
    BY <1>1
  <2>3. InsertAt(t, i, s[i]) = c \o b
    BY <1>2 DEF InsertAt
  <2> HIDE DEF a, b, c, e
  <2>4. /\ c \in Seq(S) /\ Len(c) = Len(a) + Len(e)
        /\ \A k \in 1..Len(a) + Len(e) : c[k] = IF k <= Len(a) THEN a[k] ELSE e[k - Len(a)]
    BY <2>1, <2>2, ConcatProperties DEF c
  <2>5. Len(c) = i /\ c[i] = s[i] /\ \A k \in 1..i - 1 : c[k] = t[k]
    <3>1. Len(c) = i
      BY <1>1, <2>1, <2>2, <2>4
    <3>2. c[i] = s[i]
      <4>1. i \in 1..Len(a) + Len(e) /\ ~ (i <= Len(a)) /\ i - Len(a) = 1
        BY <1>1, <2>1, <2>2
      <4> QED BY <2>2, <2>4, <4>1
    <3>3. ASSUME NEW k \in 1..i - 1 PROVE c[k] = t[k]
      <4>1. k \in 1..Len(a) + Len(e) /\ k <= Len(a)
        BY <1>1, <2>1, <2>2
      <4> QED BY <2>1, <2>4, <4>1
    <3> QED BY <3>1, <3>2, <3>3
  <2>6. /\ c \o b \in Seq(S) /\ Len(c \o b) = Len(c) + Len(b)
        /\ \A k \in 1..Len(c) + Len(b) : (c \o b)[k] = IF k <= Len(c) THEN c[k] ELSE b[k - Len(c)]
    <3>1. c \in Seq(S) /\ b \in Seq(S)
      BY <2>1, <2>4
    <3> QED BY ONLY <3>1, ConcatProperties
  <2> DEFINE r == c \o b
  <2>7. r \in Seq(S) /\ Len(r) = n
    BY <1>1, <2>1, <2>5, <2>6
  <2>8. ASSUME NEW k \in 1..n PROVE r[k] = s[k]
    <3>1. r[k] = IF k <= i THEN c[k] ELSE b[k - i]
      <4>1. Len(c) = i /\ Len(b) = n - i /\ n \in Nat /\ i \in Int
        BY <1>1, <2>1, <2>5
      <4>2. k \in 1..Len(c) + Len(b)
        BY ONLY <4>1, k \in 1..n
      <4> QED BY <2>5, <2>6, <4>2 DEF r
    <3>2. CASE k < i
      <4>1. k \in 1..i - 1 /\ k \in 1..n - 1 /\ k <= i
        BY <1>1, <3>2
      <4> QED BY <1>2, <2>5, <3>1, <3>2, <4>1
    <3>3. CASE k = i
      BY <1>1, <2>5, <3>1, <3>3
    <3>4. CASE k > i
      <4>1. k - i \in 1..n - i /\ i + (k - i) - 1 = k - 1 /\ k - 1 \in 1..n - 1 /\ ~ (k - 1 < i)
            /\ k - 1 + 1 = k /\ ~ (k <= i)
        BY <1>1, <3>4
      <4>2. r[k] = t[k - 1] /\ t[k - 1] = s[k - 1 + 1]
        BY <1>2, <2>1, <3>1, <4>1
      <4> QED BY <4>1, <4>2
    <3>5. k < i \/ k = i \/ k > i
      BY <1>1
    <3> QED BY <3>2, <3>3, <3>4, <3>5
  <2> HIDE DEF r
  <2>9. r = s
    BY <2>7, <2>8, SeqEqual DEF n
  <2> QED BY <2>3, <2>9 DEF r
<1> QED BY <1>7, <1>8, <1>9

-----------------------------------------------------------------------------
(* What getAll lists. *)

LEMMA HeapNodes ==
  ASSUME HeapInv
  PROVE  /\ NodeSet(Range(heap)) /\ Cardinality(Range(heap)) = Len(heap)
         /\ \A i \in DOMAIN heap :
              heap[i] \in Range(heap) /\ Cardinality(NodesBefore(i)) = Rank(Range(heap), heap[i])
<1> DEFINE N == Range(heap)
           D == DOMAIN heap
<1>1. /\ heap \in [D -> N] /\ \A i \in D : heap[i] \in N /\ heap[i] \in Node
      /\ \A i, j \in D : heap[i].order = heap[j].order => i = j
      /\ D = 1..Len(heap) /\ Len(heap) \in Nat
  <2>1. D = 1..Len(heap) /\ Len(heap) \in Nat /\ heap \in Seq(Node)
    BY Facts
  <2>2. heap \in [D -> Node]
    BY <2>1
  <2>3. \A i \in D : heap[i] \in N
    BY DEF Range
  <2>4. heap \in [D -> N]
    <3> HIDE DEF N, D
    <3> QED BY <2>2, <2>3
  <2>5. \A i, j \in D : heap[i].order = heap[j].order => i = j
    BY <2>1, Facts
  <2> HIDE DEF N, D
  <2> QED BY <2>1, <2>2, <2>3, <2>4, <2>5
<1>2. \A e \in N : \E i \in D : e = heap[i]
  BY DEF Range
<1>3. IsFiniteSet(D) /\ Cardinality(D) = Len(heap)
  <2>1. 1 \in Int /\ Len(heap) \in Int /\ (IF 1 > Len(heap) THEN 0 ELSE Len(heap) - 1 + 1) = Len(heap)
    BY <1>1
  <2>2. /\ IsFiniteSet(1..Len(heap))
        /\ Cardinality(1..Len(heap)) = IF 1 > Len(heap) THEN 0 ELSE Len(heap) - 1 + 1
    BY ONLY <2>1, FS_Interval
  <2> QED BY <1>1, <2>1, <2>2
<1> HIDE DEF N, D
<1>4. heap \in Bijection(D, N)
  BY <1>1, <1>2 DEF Bijection, Injection, Surjection, IsInjective
<1>5. IsFiniteSet(N) /\ Cardinality(N) = Cardinality(D)
  BY <1>3, <1>4, FS_Bijection DEF ExistsBijection
<1>6. NodeSet(N)
  BY <1>1, <1>2, <1>5 DEF NodeSet
<1>7. ASSUME NEW i \in D PROVE Cardinality(NodesBefore(i)) = Rank(N, heap[i])
  <2> DEFINE B == NodesBefore(i)
             A == Ahead(N, heap[i])
             g == [j \in B |-> heap[j]]
  <2>1. /\ B \in SUBSET D /\ \A j \in B : heap[j] \in A
        /\ \A e \in A : \E j \in B : e = heap[j]
    BY <1>1, <1>2 DEF NodesBefore, Ahead, D
  <2>2. IsFiniteSet(B)
    BY <1>3, <2>1, FS_Subset
  <2> HIDE DEF A, B
  <2>3. \A j, k \in B : g[j] = g[k] => j = k
    BY <1>1, <2>1
  <2>4. g \in [B -> A] /\ \A e \in A : \E j \in B : g[j] = e
    BY <2>1
  <2> HIDE DEF g
  <2>5. g \in Bijection(B, A)
    BY <2>3, <2>4 DEF Bijection, Injection, Surjection, IsInjective
  <2>6. Cardinality(A) = Cardinality(B)
    BY <2>2, <2>5, FS_Bijection DEF ExistsBijection
  <2> QED BY <2>6 DEF A, B, Rank
<1> QED BY <1>1, <1>3, <1>5, <1>6, <1>7 DEF N, D

(* getAll lists the nodes in the order in which they leave. *)
LEMMA GetAllIsSorted == HeapInv => GetAll = Sorted(Range(heap))
<1> SUFFICES ASSUME HeapInv PROVE GetAll = Sorted(Range(heap))
  OBVIOUS
<1> DEFINE N == Range(heap)
           n == Len(heap)
           P(k, i) == i \in DOMAIN heap /\ Cardinality(NodesBefore(i)) = k - 1
           c(k) == CHOOSE i \in DOMAIN heap : Cardinality(NodesBefore(i)) = k - 1
<1>1. /\ NodeSet(N) /\ Cardinality(N) = n /\ DOMAIN heap = 1..n
      /\ \A i \in DOMAIN heap : heap[i] \in N /\ Cardinality(NodesBefore(i)) = Rank(N, heap[i])
  BY HeapNodes, Facts
<1>2. \A e \in N : \E i \in DOMAIN heap : e = heap[i]
  BY DEF Range
<1> HIDE DEF N, n
<1>3. ASSUME NEW k \in 1..n PROVE heap[c(k)] = Nth(N, k)
  <2>1. Nth(N, k) \in N /\ Rank(N, Nth(N, k)) = k - 1
    BY <1>1, NthNodes
  <2>2. \E i \in DOMAIN heap : Cardinality(NodesBefore(i)) = k - 1
    BY <1>1, <1>2, <2>1
  <2>3. c(k) \in DOMAIN heap /\ Cardinality(NodesBefore(c(k))) = k - 1
    BY <2>2
  <2> HIDE DEF c
  <2>4. heap[c(k)] \in N /\ Rank(N, heap[c(k)]) = k - 1
    BY <1>1, <2>3
  <2>5. \A e, f \in N : Rank(N, e) = Rank(N, f) => e = f
    BY <1>1, Ranks
  <2> QED BY <2>1, <2>4, <2>5
<1>4. GetAll = [k \in 1..n |-> [task |-> heap[c(k)].task, priority |-> heap[c(k)].priority]]
  BY <1>1 DEF GetAll
<1> HIDE DEF c
<1>5. GetAll = [k \in 1..n |-> Entry(Nth(N, k))]
  BY <1>3, <1>4 DEF Entry
<1> QED BY <1>1, <1>5 DEF Sorted, N

LEMMA SortedSeq ==
  ASSUME NEW N, NodeSet(N)
  PROVE  /\ Sorted(N) \in Seq([task : Tasks, priority : Priorities])
         /\ Len(Sorted(N)) = Cardinality(N) /\ DOMAIN Sorted(N) = 1..Cardinality(N)
         /\ \A k \in 1..Cardinality(N) : Sorted(N)[k] = Entry(Nth(N, k))
<1> DEFINE n == Cardinality(N)
           E == [task : Tasks, priority : Priorities]
<1>1. n \in Nat
  BY Ranks
<1>2. \A k \in 1..n : Entry(Nth(N, k)) \in E
  <2> SUFFICES ASSUME NEW k \in 1..n PROVE Entry(Nth(N, k)) \in E
    OBVIOUS
  <2>1. Nth(N, k) \in Node
    BY NthNodes DEF NodeSet
  <2> QED BY <2>1 DEF Entry, Node
<1> HIDE DEF E, n
<1>3. Sorted(N) = [k \in 1..n |-> Entry(Nth(N, k))]
  BY DEF Sorted, n
<1>4. Sorted(N) \in [1..n -> E]
  BY <1>2, <1>3
<1>5. Sorted(N) \in Seq(E) /\ Len(Sorted(N)) = n
  BY <1>1, <1>4
<1> QED BY <1>3, <1>5 DEF n, E

(* When one node leaves, one place of getAll's list goes; when it comes,    *)
(* one is inserted.                                                         *)
LEMMA PlaceGone ==
  ASSUME NEW N, NodeSet(N), NEW e \in N
  PROVE  LET s == Sorted(N)
             t == Sorted(N \ {e})
             i == Rank(N, e) + 1
         IN /\ i \in DOMAIN s /\ s[i] = Entry(e)
            /\ t = RemoveAt(s, i)
            /\ i = 1 => s # << >> /\ t = Tail(s)
            /\ s = InsertAt(t, i, Entry(e))
            /\ Len(t) = Len(s) - 1 /\ Len(t) \in Nat
            /\ DOMAIN t = 1..Len(t)
            /\ \A k \in DOMAIN t : t[k] = IF k < i THEN s[k] ELSE s[k + 1]
<1> DEFINE M == N \ {e}
           s == Sorted(N)
           t == Sorted(M)
           i == Rank(N, e) + 1
           n == Cardinality(N)
           S == [task : Tasks, priority : Priorities]
<1>1. /\ NodeSet(M) /\ Cardinality(M) = n - 1 /\ i \in 1..n
      /\ \A k \in 1..n - 1 : Nth(M, k) = IF k < i THEN Nth(N, k) ELSE Nth(N, k + 1)
  BY NodeGone
<1>2. n \in Nat /\ Nth(N, i) = e
  BY Ranks, NthNodes
<1> HIDE DEF M, i
<1>3. /\ s \in Seq(S) /\ Len(s) = n /\ DOMAIN s = 1..n /\ \A k \in 1..n : s[k] = Entry(Nth(N, k))
      /\ t \in Seq(S) /\ Len(t) = n - 1 /\ DOMAIN t = 1..n - 1
      /\ \A k \in 1..n - 1 : t[k] = Entry(Nth(M, k))
  BY <1>1, SortedSeq
<1> HIDE DEF s, t, n, S
<1>4. s[i] = Entry(e) /\ i \in 1..Len(s) /\ Len(t) = Len(s) - 1
  BY <1>1, <1>2, <1>3
<1>5. \A k \in 1..n - 1 : t[k] = IF k < i THEN s[k] ELSE s[k + 1]
  <2> SUFFICES ASSUME NEW k \in 1..n - 1 PROVE t[k] = IF k < i THEN s[k] ELSE s[k + 1]
    OBVIOUS
  <2>1. k \in 1..n /\ k + 1 \in 1..n
    BY <1>2
  <2> QED BY <1>1, <1>3, <2>1
<1>6. \A k \in 1..Len(s) - 1 : t[k] = IF k < i THEN s[k] ELSE s[k + 1]
  BY <1>3, <1>5
<1>7. t = RemoveAt(s, i) /\ (i = 1 => s # << >> /\ t = Tail(s)) /\ s = InsertAt(t, i, s[i])
  <2>1. s \in Seq(S) /\ t \in Seq(S)
    BY <1>3
  <2> QED BY ONLY <2>1, <1>4, <1>6, OneGone
<1>8. n - 1 \in Nat
  BY <1>1, <1>2
<1> QED BY <1>1, <1>3, <1>4, <1>5, <1>7, <1>8 DEF s, t, M, i

-----------------------------------------------------------------------------
(* What each operation does to the nodes. *)

(* The root of a heap leaves before every other node. *)
LEMMA RootLeavesFirst ==
  ASSUME HeapInv, heap # << >>
  PROVE  heap[1] \in Range(heap) /\ Rank(Range(heap), heap[1]) = 0
<1> DEFINE n == Len(heap)
           T == {k \in 1..n : ShouldSwap(heap[1], heap[k])}
<1>1. /\ n \in Nat /\ n >= 1 /\ DOMAIN heap = 1..n
      /\ \A k \in 1..n : heap[k] \in Node /\ heap[k] \in Range(heap)
      /\ \A k \in 2..n : ~ ShouldSwap(heap[k \div 2], heap[k])
  <2>1. heap \in Seq(Node)
    BY Facts
  <2>2. n \in Nat /\ n >= 1
    BY <2>1
  <2> QED BY <2>2, Facts
<1> HIDE DEF n
<1>2. T = {}
  <2> SUFFICES ASSUME T # {} PROVE FALSE
    OBVIOUS
  <2>1. T \in SUBSET Nat
    BY <1>1
  <2>2. \E k \in T : \A j \in T : k <= j
    <3> HIDE DEF T
    <3> QED BY <2>1, LeastNumber
  <2>3. PICK k \in T : \A j \in T : k <= j
    BY <2>2
  <2>4. k \in 1..n /\ 1 \in 1..n /\ k # 1
    BY <1>1, <2>3, NodesAreOrdered
  <2>5. k \in 2..n
    BY <1>1, <2>4
  <2>6. k \div 2 \in 1..n /\ k \div 2 < k
    BY <1>1, <2>5, Parents
  <2>7. ~ ShouldSwap(heap[1], heap[k \div 2])
    <3>1. k \div 2 \notin T
      <4>1. k \in Nat /\ k \div 2 \in Nat
        BY <2>4, <2>6
      <4> HIDE DEF T
      <4> QED BY <2>3, <2>6, <4>1
    <3> QED BY <2>6, <3>1
  <2>8. ~ ShouldSwap(heap[k \div 2], heap[k])
    BY <1>1, <2>5
  <2>9. heap[1] \in Node /\ heap[k \div 2] \in Node /\ heap[k] \in Node
    BY <1>1, <2>4, <2>6
  <2>10. ~ ShouldSwap(heap[1], heap[k])
    BY <2>7, <2>8, <2>9, NodesAreOrdered
  <2> QED BY <2>3, <2>10
<1>3. Ahead(Range(heap), heap[1]) = {}
  <2>1. \A e \in Range(heap) : \E k \in 1..n : e = heap[k]
    BY <1>1 DEF Range
  <2> QED BY <1>2, <2>1 DEF Ahead
<1>4. 1 \in 1..n
  BY <1>1
<1> QED BY <1>1, <1>3, <1>4, FS_EmptySet DEF Rank

LEMMA NodesWithoutPlace ==
  ASSUME HeapInv, NEW i \in DOMAIN heap
  PROVE  /\ \A x \in [Tasks -> Nat] : i < Len(heap) =>
              Range(MoveLastTo(heap, x, i).heap) = Range(heap) \ {heap[i]}
         /\ i = Len(heap) => Range(Front(heap)) = Range(heap) \ {heap[i]}
<1> DEFINE n == Len(heap)
           f == Front(heap)
<1>1. /\ n \in Nat /\ DOMAIN heap = 1..n /\ i \in 1..n /\ heap \in Seq(Node) /\ n > 0
      /\ \A j, k \in 1..n : heap[j] = heap[k] => j = k
  <2>1. n \in Nat /\ DOMAIN heap = 1..n /\ heap \in Seq(Node)
    BY Facts
  <2>2. \A j, k \in 1..n : heap[j] = heap[k] => j = k
    BY Facts
  <2> HIDE DEF n
  <2>3. i \in 1..n /\ n > 0
    BY <2>1
  <2> QED BY <2>1, <2>2, <2>3
<1>2. DOMAIN f = 1..n - 1 /\ \A k \in 1..n - 1 : f[k] = heap[k]
  BY <1>1, Fronts
<1>3. Range(heap) = {heap[k] : k \in 1..n}
  BY <1>1 DEF Range
<1> HIDE DEF n, f
<1>4. ASSUME i = n PROVE Range(f) = Range(heap) \ {heap[i]}
  <2>1. Range(f) = {heap[k] : k \in 1..n - 1}
    BY <1>2 DEF Range
  <2>2. \A k \in 1..n : k \in 1..n - 1 <=> k # i
    BY <1>1, <1>4
  <2>3. \A k \in 1..n - 1 : k \in 1..n
    BY <1>1
  <2> QED BY <1>1, <1>3, <2>1, <2>2, <2>3
<1>5. ASSUME NEW x \in [Tasks -> Nat], i < n
      PROVE  Range(MoveLastTo(heap, x, i).heap) = Range(heap) \ {heap[i]}
  <2> DEFINE h == MoveLastTo(heap, x, i).heap
  <2>1. h = [f EXCEPT ![i] = heap[n]]
    BY DEF MoveLastTo, Last, f, n
  <2>2. DOMAIN h = 1..n - 1 /\ \A k \in 1..n - 1 : h[k] = IF k = i THEN heap[n] ELSE heap[k]
    BY <1>2, <2>1
  <2> HIDE DEF h
  <2>3. i \in 1..n - 1 /\ n \in 1..n /\ n # i
    BY <1>1, <1>5
  <2>4. \A k \in 1..n : k \in 1..n - 1 \/ k = n
    BY <1>1
  <2>5. \A k \in 1..n - 1 : k \in 1..n /\ k # n
    BY <1>1
  <2>6. ASSUME NEW e \in Range(h) PROVE e \in Range(heap) \ {heap[i]}
    <3>1. PICK k \in 1..n - 1 : e = h[k]
      BY <2>2 DEF Range
    <3>2. e = IF k = i THEN heap[n] ELSE heap[k]
      BY <2>2, <3>1
    <3> QED BY <1>1, <1>3, <2>3, <2>5, <3>2
  <2>7. ASSUME NEW e \in Range(heap) \ {heap[i]} PROVE e \in Range(h)
    <3>1. PICK k \in 1..n : e = heap[k] /\ k # i
      BY <1>3
    <3>2. \E j \in 1..n - 1 : e = h[j]
      <4>1. CASE k = n
        BY <2>2, <2>3, <3>1, <4>1
      <4>2. CASE k # n
        BY <2>2, <2>4, <3>1, <4>2
      <4> QED BY <4>1, <4>2
    <3> QED BY <2>2, <3>2 DEF Range
  <2>8. Range(h) = Range(heap) \ {heap[i]}
    BY <2>6, <2>7
  <2> QED BY <2>8 DEF h
<1> QED BY <1>4, <1>5 DEF n, f

LEMMA NodesAfterDequeue ==
  ASSUME HeapInv, Dequeue
  PROVE  heap # << >> /\ Range(heap') = Range(heap) \ {heap[1]}
<1> DEFINE x == Without(taskIndex, heap[1].task)
<1>1. /\ heap # << >> /\ heap \in Seq(Node) /\ Len(heap) \in Nat /\ Len(heap) >= 1
      /\ DOMAIN heap = 1..Len(heap)
  BY Facts DEF Dequeue
<1>2. x \in [Tasks -> Nat]
  BY Facts DEF Without, Absent
<1> HIDE DEF x
<1>3. CASE Len(heap) = 1
  <2>1. heap' = << >>
    BY <1>3 DEF Dequeue, Install
  <2>2. 1 \in DOMAIN heap
    BY ONLY <1>1, <1>3, SMT
  <2>3. Range(Front(heap)) = Range(heap) \ {heap[1]}
    BY <1>3, <2>2, NodesWithoutPlace
  <2>4. DOMAIN Front(heap) = {}
    <3>1. DOMAIN Front(heap) = 1..Len(heap) - 1
      BY <1>1, Fronts
    <3> QED BY <1>3, <3>1
  <2>5. Range(Front(heap)) = {} /\ Range(<< >>) = {}
    BY <2>4 DEF Range
  <2> QED BY <1>1, <2>1, <2>3, <2>5
<1>4. CASE Len(heap) # 1
  <2>1. 1 \in DOMAIN heap /\ 1 < Len(heap)
    BY ONLY <1>1, <1>4, SMT
  <2> DEFINE q == MoveLastTo(heap, x, 1)
             r == BubbleDown(q, 1)
  <2>2. Rearranged(q, r)
    BY <2>1, GapFilled DEF x
  <2>3. Range(q.heap) = Range(heap) \ {heap[1]}
    BY <1>2, <2>1, NodesWithoutPlace
  <2>4. heap' = r.heap
    BY <1>4 DEF Dequeue, Install, x
  <2> HIDE DEF q, r
  <2> QED BY <1>1, <2>2, <2>3, <2>4 DEF Rearranged
<1> QED BY <1>3, <1>4

LEMMA NodesAfterRemoveTask ==
  ASSUME HeapInv, NEW t \in Tasks, RemoveTask(t)
  PROVE  \E e \in Range(heap) : e.task = t /\ Range(heap') = Range(heap) \ {e}
<1> DEFINE i == taskIndex[t]
           x == Without(taskIndex, t)
<1>1. /\ heap \in Seq(Node) /\ Len(heap) \in Nat
      /\ i \in 1..Len(heap) /\ heap[i].task = t /\ i \in DOMAIN heap /\ heap[i] \in Range(heap)
  BY Facts DEF RemoveTask, InIndex, Absent
<1>2. x \in [Tasks -> Nat]
  BY Facts DEF Without, Absent
<1>3. Range(heap') = Range(heap) \ {heap[i]}
  <2>1. CASE i < Len(heap)
    <3> DEFINE q == MoveLastTo(heap, x, i)
               r == BubbleDown(BubbleUp(q, i), i)
    <3>1. Rearranged(q, r)
      BY <1>1, <2>1, GapFilled
    <3>2. heap' = r.heap
      BY <2>1 DEF RemoveTask, Install
    <3> HIDE DEF x
    <3>3. Range(q.heap) = Range(heap) \ {heap[i]}
      BY <1>1, <1>2, <2>1, NodesWithoutPlace
    <3> HIDE DEF q, r
    <3> QED BY <3>1, <3>2, <3>3 DEF Rearranged
  <2>2. CASE ~ (i < Len(heap))
    <3>1. heap' = Front(heap)
      BY <2>2 DEF RemoveTask, Install
    <3>2. i = Len(heap)
      BY <1>1, <2>2
    <3> QED BY <1>1, <3>1, <3>2, NodesWithoutPlace
  <2> QED BY <2>1, <2>2
<1> QED BY <1>1, <1>3

(* The new node leaves behind all of its priority or a higher one. *)
LEMMA NodesAfterEnqueue ==
  ASSUME HeapInv, NEW t \in Tasks, NEW p \in Priorities, Enqueue(t, p)
  PROVE  \E e \in Node :
           /\ e.task = t /\ e.priority = p /\ e \notin Range(heap)
           /\ Range(heap') = Range(heap) \cup {e}
           /\ \A f \in Range(heap) : ShouldSwap(e, f) <=> f.priority <= p
<1> DEFINE n == Len(heap) + 1
           e == [task |-> t, priority |-> p, order |-> insertionCounter]
           q == [heap |-> Append(heap, e), index |-> [taskIndex EXCEPT ![t] = n]]
           r == BubbleUp(q, n)
<1>1. /\ ~ QueueIsFull /\ insertionCounter < MaxInsertions /\ Install(r)
      /\ heap \in Seq(Node) /\ DOMAIN heap = 1..n - 1 /\ n \in Nat
      /\ \A f \in Range(heap) : f.order < insertionCounter
  BY Facts DEF Enqueue
<1>2. /\ q \in Queue /\ n \in DOMAIN q.heap /\ Rising(q.heap, n, n)
  BY <1>1, NodeArrives DEF Consistent
<1>3. e \in Node /\ e.task = t /\ e.priority = p /\ e.order = insertionCounter /\ insertionCounter \in Nat
  <2>1. insertionCounter \in 0..MaxInsertions
    BY DEF HeapInv
  <2> QED BY <2>1 DEF Node
<1>4. q.heap = Append(heap, e)
  OBVIOUS
<1> HIDE DEF q, e, n
<1>5. Rearranged(q, r)
  BY <1>2, BubbleUpResult
<1>6. heap' = r.heap
  BY <1>1 DEF Install
<1> HIDE DEF r
<1>7. Range(q.heap) = Range(heap) \cup {e}
  <2>1. /\ DOMAIN q.heap = 1..n /\ q.heap[n] = e
        /\ \A k \in 1..n - 1 : q.heap[k] = heap[k]
    BY <1>1, <1>3, <1>4 DEF n
  <2>2. \A k \in 1..n : k \in 1..n - 1 \/ k = n
    BY <1>1
  <2>3. n \in 1..n /\ \A k \in 1..n - 1 : k \in 1..n
    BY <1>1, <1>2, <2>1
  <2> QED BY <1>1, <2>1, <2>2, <2>3 DEF Range
<1>8. \A f \in Range(heap) : f \in Node
  BY <1>1 DEF Range
<1>9. ASSUME NEW f \in Range(heap) PROVE (ShouldSwap(e, f) <=> f.priority <= p) /\ f # e
  <2>1. f.priority \in Priorities /\ f.order \in 0..MaxInsertions /\ f.order < insertionCounter
    BY <1>1, <1>8 DEF Node
  <2>2. f.order \in Nat
    BY <2>1
  <2>3. f.priority \in Nat /\ p \in Nat
    BY <2>1
  <2> QED BY <1>3, <2>1, <2>2, <2>3 DEF ShouldSwap
<1> QED BY <1>3, <1>5, <1>6, <1>7, <1>9 DEF Rearranged

-----------------------------------------------------------------------------
(* Every step is a step of the abstract queue. *)

(* GetAll before and after a step. *)
Listed(s, t) ==
  /\ GetAll = s /\ GetAll' = t
  /\ NodeSet(Range(heap)) /\ NodeSet(Range(heap'))

LEMMA Lists ==
  HeapInv /\ HeapInv' =>
    /\ GetAll = Sorted(Range(heap)) /\ GetAll' = Sorted(Range(heap'))
    /\ NodeSet(Range(heap)) /\ NodeSet(Range(heap'))
    /\ Cardinality(Range(heap)) = Len(heap)
<1>1. HeapInv => GetAll = Sorted(Range(heap))
  BY GetAllIsSorted
<1>2. HeapInv' => (GetAll = Sorted(Range(heap)))'
  BY <1>1, PTL
<1>3. HeapInv => NodeSet(Range(heap)) /\ Cardinality(Range(heap)) = Len(heap)
  BY HeapNodes
<1>4. HeapInv' => (NodeSet(Range(heap)) /\ Cardinality(Range(heap)) = Len(heap))'
  BY <1>3, PTL
<1> QED BY <1>1, <1>2, <1>3, <1>4

LEMMA DequeueRefines ==
  ASSUME HeapInv, HeapInv', Dequeue
  PROVE  Fifo!Dequeue
<1>1. /\ GetAll = Sorted(Range(heap)) /\ GetAll' = Sorted(Range(heap'))
      /\ NodeSet(Range(heap))
  BY Lists
<1>2. heap # << >> /\ Range(heap') = Range(heap) \ {heap[1]}
  BY NodesAfterDequeue
<1>3. heap[1] \in Range(heap) /\ Rank(Range(heap), heap[1]) + 1 = 1
  BY <1>2, RootLeavesFirst
<1>4. Sorted(Range(heap)) # << >> /\ Sorted(Range(heap) \ {heap[1]}) = Tail(Sorted(Range(heap)))
  BY ONLY <1>1, <1>3, PlaceGone
<1>5. GetAll # << >> /\ GetAll' = Tail(GetAll)
  BY ONLY <1>1, <1>2, <1>4
<1> QED BY <1>5 DEF Fifo!Dequeue

LEMMA RemoveTaskRefines ==
  ASSUME HeapInv, HeapInv', NEW t \in Tasks, RemoveTask(t)
  PROVE  Fifo!RemoveTask(t)
<1> DEFINE N == Range(heap)
           s == Sorted(N)
<1>1. GetAll = s /\ GetAll' = Sorted(Range(heap')) /\ NodeSet(N)
  BY Lists
<1>2. PICK e \in N : e.task = t /\ Range(heap') = N \ {e}
  BY NodesAfterRemoveTask
<1> DEFINE i == Rank(N, e) + 1
<1> HIDE DEF N
<1>3. i \in DOMAIN s /\ s[i] = Entry(e) /\ Sorted(N \ {e}) = RemoveAt(s, i)
  BY <1>1, PlaceGone
<1>4. Entry(e).task = t
  BY <1>2 DEF Entry
<1> HIDE DEF s, i
<1>5. i \in DOMAIN GetAll /\ GetAll[i].task = t /\ GetAll' = RemoveAt(GetAll, i)
  BY <1>1, <1>2, <1>3, <1>4
<1> QED BY <1>5 DEF Fifo!RemoveTask, Fifo!RemoveAt, RemoveAt

LEMMA EnqueueRefines ==
  ASSUME HeapInv, HeapInv', NEW t \in Tasks, NEW p \in Priorities, Enqueue(t, p)
  PROVE  Fifo!Enqueue(t, p)
<1> DEFINE M == Range(heap)
           m == Sorted(M)
<1>1. /\ GetAll = m /\ GetAll' = Sorted(Range(heap'))
      /\ NodeSet(M) /\ NodeSet(Range(heap')) /\ Cardinality(M) = Len(heap)
  BY Lists
<1>2. PICK e \in Node :
        /\ e.task = t /\ e.priority = p /\ e \notin M
        /\ Range(heap') = M \cup {e}
        /\ \A f \in M : ShouldSwap(e, f) <=> f.priority <= p
  BY NodesAfterEnqueue
<1> DEFINE N == M \cup {e}
           s == Sorted(N)
           i == Rank(N, e) + 1
<1> HIDE DEF M
<1>3. NodeSet(N) /\ e \in N /\ N \ {e} = M
  BY <1>1, <1>2
<1> HIDE DEF N
<1>4. /\ i \in DOMAIN s /\ s = InsertAt(m, i, Entry(e))
      /\ Len(m) = Len(s) - 1 /\ Len(m) \in Nat /\ DOMAIN m = 1..Len(m)
      /\ \A k \in DOMAIN m : m[k] = IF k < i THEN s[k] ELSE s[k + 1]
  BY <1>3, PlaceGone
<1>5. /\ DOMAIN s = 1..Len(s) /\ Len(s) = Cardinality(N)
      /\ \A k \in 1..Cardinality(N) : s[k] = Entry(Nth(N, k))
      /\ Len(m) = Len(heap)
  BY <1>1, <1>3, SortedSeq
<1>6. Len(heap) < MaxQueueSize
  <2>1. ~ (Len(heap) >= MaxQueueSize)
    BY DEF Enqueue, QueueIsFull
  <2> QED BY <1>4, <1>5, <2>1
<1>7. i \in 1..Len(m) + 1
  BY <1>4, <1>5
<1>8. ASSUME NEW j \in DOMAIN m PROVE j < i <=> m[j].priority <= p
  <2> DEFINE k == IF j < i THEN j ELSE j + 1
             f == Nth(N, k)
  <2>1. k \in 1..Len(s) /\ (k < i <=> j < i) /\ k # i /\ k \in Int /\ i \in Int
    BY <1>4, <1>5
  <2> HIDE DEF s, m, i
  <2>2. m[j] = s[k]
    BY <1>4
  <2> HIDE DEF k
  <2>3. f \in N /\ Rank(N, f) = k - 1 /\ s[k] = Entry(f)
    BY <1>3, <1>5, <2>1, NthNodes
  <2>4. Rank(N, e) = i - 1
    <3>1. Rank(N, e) \in 0..Cardinality(N) - 1 /\ Cardinality(N) \in Nat
      BY <1>3, Ranks
    <3> QED BY <3>1 DEF i
  <2> HIDE DEF f
  <2>5. f # e
    BY <2>1, <2>3, <2>4
  <2>6. f \in M
    BY <1>3, <2>3, <2>5
  <2>7. ShouldSwap(e, f) <=> Rank(N, f) < Rank(N, e)
    BY <1>3, <2>3, Ranks
  <2>8. ShouldSwap(e, f) <=> f.priority <= p
    BY <1>2, <2>6
  <2>9. m[j].priority = f.priority
    BY <2>2, <2>3 DEF Entry
  <2>10. Rank(N, f) < Rank(N, e) <=> k < i
    BY ONLY <2>1, <2>3, <2>4
  <2> QED BY <2>1, <2>7, <2>8, <2>9, <2>10
<1>9. Entry(e) = [task |-> t, priority |-> p]
  BY <1>2 DEF Entry
<1>10. GetAll' = s
  BY <1>1, <1>2 DEF N
<1> HIDE DEF s, m, i
<1>11. /\ Len(GetAll) < MaxQueueSize
       /\ i \in 1..Len(GetAll) + 1
       /\ \A j \in DOMAIN GetAll : j < i <=> GetAll[j].priority <= p
       /\ GetAll' = InsertAt(GetAll, i, [task |-> t, priority |-> p])
  BY <1>1, <1>4, <1>5, <1>6, <1>7, <1>8, <1>9, <1>10
<1> QED BY <1>11 DEF Fifo!Enqueue, Fifo!InsertAt, InsertAt

LEMMA EmptyLists == (heap = << >>) => GetAll = << >>
BY DEF GetAll

LEMMA StepsRefine ==
  ASSUME HeapInv, HeapInv', [Next]_vars
  PROVE  [Fifo!Next]_GetAll
<1>1. CASE Dequeue
  BY <1>1, DequeueRefines DEF Fifo!Next
<1>2. CASE Clear
  <2>1. (heap = << >>)'
    BY <1>2 DEF Clear
  <2>2. (heap = << >>)' => (GetAll = << >>)'
    BY EmptyLists, PTL
  <2> QED BY <2>1, <2>2 DEF Fifo!Next, Fifo!Clear
<1>3. ASSUME NEW t \in Tasks, RemoveTask(t) PROVE [Fifo!Next]_GetAll
  BY <1>3, RemoveTaskRefines DEF Fifo!Next
<1>4. ASSUME NEW t \in Tasks, NEW p \in Priorities, Enqueue(t, p) PROVE [Fifo!Next]_GetAll
  BY <1>4, EnqueueRefines DEF Fifo!Next
<1>5. CASE UNCHANGED vars
  BY <1>5 DEF vars, GetAll, NodesBefore
<1> QED BY <1>1, <1>2, <1>3, <1>4, <1>5 DEF Next

(* The binary heap of PriorityTaskQueue, of any capacity, with any tasks    *)
(* and priorities, is a queue by priority and arrival: every operation does *)
(* to the list that getAll gives what the abstract queue does.              *)
THEOREM QueueRefinement == Spec => QueueSpec
<1>1. Init => Fifo!Init
  BY EmptyLists DEF Init, Fifo!Init
<1>2. HeapInv /\ HeapInv' /\ [Next]_vars => [Fifo!Next]_GetAll
  BY StepsRefine
<1> QED BY <1>1, <1>2, HeapInvariance, PTL DEF Spec, QueueSpec, Fifo!Spec

=============================================================================
