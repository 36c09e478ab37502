------------------------------ MODULE TaskQueue ------------------------------
(***************************************************************************)
(* PriorityTaskQueue (implementations/task-queue.ts): a binary min-heap    *)
(* ordered by priority and order of insertion, with a map from task id to  *)
(* position that every swap must keep up to date.                          *)
(*                                                                         *)
(* Positions count from 1, so the children of i are 2i and 2i + 1.  The    *)
(* loops of bubbleUp and bubbleDown are functions of the number of rounds. *)
(***************************************************************************)
EXTENDS Naturals, Sequences, SequencesExt, FiniteSets, Functions

CONSTANTS
  Tasks,
  Priorities,      \* 0 is P0, the highest
  MaxQueueSize,
  MaxInsertions    \* bounds insertionCounter

ASSUME QueueAssumption ==
  /\ Priorities \subseteq Nat
  /\ MaxQueueSize \in Nat /\ MaxInsertions \in Nat

VARIABLES
  heap,               \* sequence of [task, priority, order]
  taskIndex,          \* position of a task in the heap, or Absent
  insertionCounter,
  doubled             \* history: tasks that were enqueued while in the heap

vars == <<heap, taskIndex, insertionCounter, doubled>>

Absent == 0

Node == [task : Tasks, priority : Priorities, order : 0..MaxInsertions]

Places(t) == {i \in DOMAIN heap : heap[i].task = t}

(* The heap never holds more than maxQueueSize nodes, each with its type.   *)
TypeOK ==
  /\ heap \in Seq(Node) /\ Len(heap) <= MaxQueueSize
  /\ taskIndex \in [Tasks -> 0..MaxQueueSize]
  /\ insertionCounter \in 0..MaxInsertions
  /\ doubled \subseteq Tasks

Init ==
  /\ heap = << >>
  /\ taskIndex = [t \in Tasks |-> Absent]
  /\ insertionCounter = 0
  /\ doubled = {}

-----------------------------------------------------------------------------
(* A queue under change: q.heap and q.index. *)

(* Mutant: the orders of insertion are compared the wrong way round. *)
ShouldSwapNewestFirst(parent, child) ==
  \/ parent.priority > child.priority
  \/ parent.priority = child.priority /\ parent.order < child.order

ShouldSwap(parent, child) ==
  \/ parent.priority > child.priority
  \/ parent.priority = child.priority /\ parent.order > child.order

(* swap: heap[i]'s entry is written first, heap[j]'s second. *)
Swap(q, i, j) ==
  LET h == [q.heap EXCEPT ![i] = q.heap[j], ![j] = q.heap[i]]
  IN [heap |-> h, index |-> [q.index EXCEPT ![h[i].task] = i, ![h[j].task] = j]]

(* One round of a loop: l.q is the queue, l.at the place of the node that   *)
(* moves.  A round that changes nothing is the break.                       *)
UpRound(l) ==
  LET parent == l.at \div 2
  IN IF l.at > 1 /\ ShouldSwap(l.q.heap[parent], l.q.heap[l.at])
     THEN [q |-> Swap(l.q, parent, l.at), at |-> parent]
     ELSE l

(* The least of i and its children; the left child wins ties. *)
Smallest(q, i) ==
  LET better(s, c) == IF c <= Len(q.heap) /\ ShouldSwap(q.heap[s], q.heap[c])
                      THEN c ELSE s
  IN better(better(i, 2 * i), 2 * i + 1)

DownRound(l) ==
  LET s == Smallest(l.q, l.at)
  IN IF s # l.at THEN [q |-> Swap(l.q, l.at, s), at |-> s] ELSE l

(* Each round moves the node up or down a level, so there are never more    *)
(* rounds than nodes.                                                       *)
BubbleUp(q, i) ==
  LET after[n \in Nat] ==
        IF n = 0 THEN [q |-> q, at |-> i] ELSE UpRound(after[n - 1])
  IN after[Len(q.heap)].q

BubbleDown(q, i) ==
  LET after[n \in Nat] ==
        IF n = 0 THEN [q |-> q, at |-> i] ELSE DownRound(after[n - 1])
  IN after[Len(q.heap)].q

Without(index, t) == [index EXCEPT ![t] = Absent]

(* The last node takes the place i of a node that has gone. *)
MoveLastTo(h, index, i) ==
  [heap |-> [Front(h) EXCEPT ![i] = Last(h)],
   index |-> [index EXCEPT ![Last(h).task] = i]]

Install(q) == heap' = q.heap /\ taskIndex' = q.index

-----------------------------------------------------------------------------
QueueIsFull == Len(heap) >= MaxQueueSize

Enqueue(t, p) ==
  /\ ~ QueueIsFull
  /\ insertionCounter < MaxInsertions
  /\ LET node == [task |-> t, priority |-> p, order |-> insertionCounter]
         n == Len(heap) + 1
     IN Install(BubbleUp([heap |-> Append(heap, node),
                          index |-> [taskIndex EXCEPT ![t] = n]], n))
  /\ insertionCounter' = insertionCounter + 1
  /\ doubled' = IF Places(t) # {} THEN doubled \cup {t} ELSE doubled

Dequeue ==
  /\ heap # << >>
  /\ LET index == Without(taskIndex, heap[1].task)
     IN Install(IF Len(heap) = 1
                THEN [heap |-> << >>, index |-> index]
                ELSE BubbleDown(MoveLastTo(heap, index, 1), 1))
  /\ UNCHANGED <<insertionCounter, doubled>>

InIndex(t) == taskIndex[t] # Absent

(* Mutant: the moved node is never too small for its new place. *)
RemoveTaskDownOnly(t) ==
  /\ InIndex(t)
  /\ LET i == taskIndex[t]
         index == Without(taskIndex, t)
     IN Install(IF i < Len(heap)
                THEN BubbleDown(MoveLastTo(heap, index, i), i)
                ELSE [heap |-> Front(heap), index |-> index])
  /\ UNCHANGED <<insertionCounter, doubled>>

(* remove: only the place that taskIndex names.  A task that is not in the  *)
(* index is not found.                                                      *)
RemoveTask(t) ==
  /\ InIndex(t)
  /\ LET i == taskIndex[t]
         index == Without(taskIndex, t)
     IN Install(IF i < Len(heap)
                THEN BubbleDown(BubbleUp(MoveLastTo(heap, index, i), i), i)
                ELSE [heap |-> Front(heap), index |-> index])
  /\ UNCHANGED <<insertionCounter, doubled>>

Clear ==
  /\ heap' = << >>
  /\ taskIndex' = [t \in Tasks |-> Absent]
  /\ insertionCounter' = 0
  /\ doubled' = {}

Next ==
  \/ Dequeue
  \/ Clear
  \/ \E t \in Tasks : RemoveTask(t) \/ \E p \in Priorities : Enqueue(t, p)

Spec == Init /\ [][Next]_vars

-----------------------------------------------------------------------------
(* No node leaves before its parent: the root is the next task to run. *)
HeapOrdered == \A i \in 2..Len(heap) : ~ ShouldSwap(heap[i \div 2], heap[i])

(* An entry of the index names a place that holds its task, even when the   *)
(* task is in the heap twice; remove and swap rely on it.                   *)
IndexSound == \A t \in Tasks : InIndex(t) => taskIndex[t] \in Places(t)

(* contains() and remove() find every task that was never doubled. *)
IndexComplete == \A t \in Tasks \ doubled : Places(t) # {} => InIndex(t)

(* The heap and its index are what dequeue, contains and remove rely on,    *)
(* within the limit and after any sequence of insertions and of removals    *)
(* from the middle.                                                         *)
HeapSound == TypeOK /\ HeapOrdered /\ IndexSound /\ IndexComplete

(* getAll: a sorted copy without the order of insertion.  No two nodes are  *)
(* equal, so the k-th of the copy is the one with k - 1 nodes before it.     *)
NodesBefore(i) == {j \in DOMAIN heap : ShouldSwap(heap[i], heap[j])}

GetAll ==
  [k \in DOMAIN heap |->
     LET i == CHOOSE i \in DOMAIN heap : Cardinality(NodesBefore(i)) = k - 1
     IN [task |-> heap[i].task, priority |-> heap[i].priority]]

(* The heap is a queue by priority and arrival: what getAll lists is what   *)
(* dequeue will hand out, in that order.                                    *)
Fifo == INSTANCE PriorityFifo WITH line <- GetAll
QueueSpec == Fifo!Spec
=============================================================================
