---------------------------- MODULE PriorityFifo ----------------------------
(***************************************************************************)
(* What a task queue promises: tasks leave by priority, P0 first, and in   *)
(* the order in which they came within a priority.  A task may stand in it *)
(* more than once; removing it takes out one of its places.  TaskQueue     *)
(* shows that the binary heap of PriorityTaskQueue implements it.          *)
(***************************************************************************)
EXTENDS Naturals, Sequences, SequencesExt

CONSTANTS Tasks, Priorities, MaxQueueSize

VARIABLE line   \* [task, priority] in the order in which they will leave

Init == line = << >>

(* Behind everything of the same or a higher priority. *)
Enqueue(t, p) ==
  /\ Len(line) < MaxQueueSize
  /\ \E i \in 1..Len(line) + 1 :
       /\ \A j \in DOMAIN line : j < i <=> line[j].priority <= p
       /\ line' = InsertAt(line, i, [task |-> t, priority |-> p])

Dequeue ==
  /\ line # << >>
  /\ line' = Tail(line)

RemoveTask(t) ==
  \E i \in DOMAIN line :
    /\ line[i].task = t
    /\ line' = RemoveAt(line, i)

Clear == line' = << >>

Next ==
  \/ Dequeue
  \/ Clear
  \/ \E t \in Tasks : RemoveTask(t) \/ \E p \in Priorities : Enqueue(t, p)

Spec == Init /\ [][Next]_line
=============================================================================
