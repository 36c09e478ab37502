------------------------ MODULE TaskLifecycleProofs ------------------------
(***************************************************************************)
(* Theorems about TaskLifecycle for any number of tasks and workers, any   *)
(* limits and every combination of its switches: types, then the key       *)
(* principle of task dependencies, then what becomes of dependency rows,   *)
(* and that no queued task is forgotten while the queue has room.  The     *)
(* second half says how a single task is treated: the records of its       *)
(* worker agree, it is in the queue at most once, it ends once, and the    *)
(* rows of its dependents say how.  It goes from the pool over the records *)
(* of a task, as long as no task continues from another, to the outcomes.  *)
(* The last part is about TaskRecovery, where the server stops and starts. *)
(***************************************************************************)
EXTENDS TaskRecovery, FiniteSetTheorems, TLAPS

USE ConstantsAssumption

-----------------------------------------------------------------------------
(* Types.  The pool forgets a worker together with its timer, so a timer    *)
(* that fires belongs to an entry, and the task that its handler ends is a  *)
(* task.                                                                    *)

TimerInv == \A w \in timers : workers[w] # None

TypeInv == TypeOK /\ TimerInv

(* The typing of the parts that one operation writes. *)
QueueTypes ==
  /\ copies \in [Tasks -> Nat]
  /\ indexed \in SUBSET Tasks

PoolTypes ==
  /\ workers \in [WorkerIds -> Tasks \cup {None}]
  /\ taskToWorker \in [Tasks -> WorkerIds \cup {None}]
  /\ timers \in SUBSET WorkerIds
  /\ workerCount \in Nat
  /\ TimerInv

OutcomeTypes ==
  /\ status \in [Tasks -> {"none", "queued", "running"} \cup Terminal]
  /\ resolution \in [Tasks -> [Tasks -> {"none", "pending"} \cup Terminal]]
  /\ continueFrom \in [Tasks -> Tasks \cup {None}]
  /\ resolvers \in SUBSET Resolver

LEMMA WorkerForType ==
  ASSUME TypeInv, NEW t \in Tasks, WorkerFor(t) # None
  PROVE  WorkerFor(t) \in WorkerIds /\ workers[WorkerFor(t)] \in Tasks
  BY DEF TypeInv, TypeOK, WorkerFor

LEMMA ReindexTypes ==
  ASSUME NEW sure, copies' \in [Tasks -> Nat], Reindex(sure)
  PROVE  indexed' \in SUBSET Tasks
  BY DEF Reindex

LEMMA EnqueueTypes ==
  ASSUME TypeInv, NEW t \in Tasks, Enqueue(t) \/ EnqueueFails
  PROVE  QueueTypes' /\ wakeups' \in Nat
<1>1. CASE Enqueue(t)
  <2>1. copies' \in [Tasks -> Nat] /\ wakeups' \in Nat
    BY <1>1 DEF Enqueue, TypeInv, TypeOK
  <2>2. QED
    BY <1>1, <2>1, ReindexTypes DEF Enqueue, QueueTypes
<1>2. CASE EnqueueFails
  BY <1>2 DEF EnqueueFails, QueueTypes, TypeInv, TypeOK
<1>3. QED
  BY <1>1, <1>2

LEMMA RemoveCopyTypes ==
  ASSUME TypeInv, NEW t \in Tasks, RemoveCopy(t)
  PROVE  QueueTypes'
<1>1. copies' \in [Tasks -> Nat]
  BY DEF RemoveCopy, TypeInv, TypeOK
<1>2. QED
  BY <1>1, ReindexTypes DEF RemoveCopy, QueueTypes

LEMMA ForgetTypes ==
  ASSUME TypeInv, NEW w \in WorkerIds, workers[w] \in Tasks,
         NEW also, Forget(w, also)
  PROVE  PoolTypes'
<1> USE DEF Forget, TypeInv, TypeOK
<1>1. /\ workers' \in [WorkerIds -> Tasks \cup {None}]
      /\ taskToWorker' \in [Tasks -> WorkerIds \cup {None}]
  OBVIOUS
<1>2. timers' \in SUBSET WorkerIds
  OBVIOUS
<1>3. workerCount' \in Nat
  OBVIOUS
<1>4. TimerInv'
  BY DEF TimerInv
<1>5. QED
  BY <1>1, <1>2, <1>3, <1>4 DEF PoolTypes

LEMMA TaskEndsTypes ==
  ASSUME TypeInv, NEW t \in Tasks, NEW o \in Terminal, TaskEnds(t, o)
  PROVE  OutcomeTypes'
<1> USE DEF TaskEnds, TypeInv, TypeOK
<1>1. status' \in [Tasks -> {"none", "queued", "running"} \cup Terminal]
  OBVIOUS
<1>2. resolution' \in [Tasks -> [Tasks -> {"none", "pending"} \cup Terminal]]
  BY DEF ResolveBatch
<1>3. resolvers' \in SUBSET Resolver
  <2>1. [of |-> t, todo |-> PendingDependents(t), at |-> None] \in Resolver
    BY DEF Resolver, PendingDependents
  <2>2. QED
    BY <2>1
<1>4. QED
  BY <1>1, <1>2, <1>3 DEF OutcomeTypes

LEMMA AdvanceTypes ==
  ASSUME TypeInv, NEW l, NEW next \in Resolver
  PROVE  Advance(l, next) \in SUBSET Resolver
  BY DEF Advance, TypeInv, TypeOK

LEMMA UnblockTypes ==
  ASSUME TypeInv, NEW l \in resolvers, NEW t \in Tasks, Unblock(l, t)
  PROVE  /\ QueueTypes' /\ wakeups' \in Nat /\ wedged' \in BOOLEAN
         /\ resolvers' \in SUBSET Resolver
<1>0. l \in Resolver
  BY DEF TypeInv, TypeOK
<1>1. [l EXCEPT !.todo = @ \ {t}, !.at = None] \in Resolver
  BY <1>0 DEF Resolver
<1>2. resolvers \ {l} \in SUBSET Resolver
  BY DEF TypeInv, TypeOK
<1>3. resolvers' \in SUBSET Resolver
  BY <1>1, <1>2, AdvanceTypes DEF Unblock
<1>4. wedged' \in BOOLEAN
  BY DEF Unblock, TypeInv, TypeOK, taskQueue
<1>5. CASE UNCHANGED taskQueue
  BY <1>3, <1>4, <1>5 DEF QueueTypes, TypeInv, TypeOK, taskQueue
<1>6. CASE Enqueue(t)
  BY <1>3, <1>4, <1>6, EnqueueTypes
<1>7. QED
  BY <1>5, <1>6 DEF Unblock

LEMMA InitTypes == Init => TypeInv
<1> SUFFICES ASSUME Init PROVE TypeInv
  OBVIOUS
<1>1. TypeOK
  BY DEF Init, TypeOK
<1>2. TimerInv
  BY DEF Init, TimerInv
<1>3. QED
  BY <1>1, <1>2 DEF TypeInv

LEMMA WorkerEventTypes ==
  ASSUME TypeInv, NEW w \in WorkerIds, NEW o \in {"completed", "failed"},
         TimeoutFires(w) \/ WorkerExits(w, o)
  PROVE  TypeInv'
<1> USE DEF TypeInv, TypeOK, taskQueue, database
<1>1. CASE TimeoutFires(w)
  <2>1. workers[w] \in Tasks
    BY <1>1 DEF TimeoutFires, TimerInv
  <2>2. CASE WorkerFor(workers[w]) # None
    <3>1. PoolTypes'
      BY <1>1, <2>1, <2>2, WorkerForType, ForgetTypes DEF TimeoutFires
    <3>2. OutcomeTypes'
      BY <1>1, <2>1, <2>2, TaskEndsTypes DEF TimeoutFires, Terminal
    <3>3. QED
      BY <1>1, <3>1, <3>2 DEF TimeoutFires, PoolTypes, OutcomeTypes
  <2>3. CASE WorkerFor(workers[w]) = None
    BY <1>1, <2>3 DEF TimeoutFires, TimerInv
  <2>4. QED
    BY <2>2, <2>3
<1>2. CASE WorkerExits(w, o)
  <2>1. process[w] \in Tasks /\ process' \in [WorkerIds -> Tasks \cup {None}]
    BY <1>2 DEF WorkerExits
  <2>2. CASE WorkerFor(process[w]) # None
    <3>1. PoolTypes'
      BY <1>2, <2>1, <2>2, WorkerForType, ForgetTypes DEF WorkerExits
    <3>2. OutcomeTypes'
      BY <1>2, <2>1, <2>2, TaskEndsTypes DEF WorkerExits, Terminal
    <3>3. checkpoint' \in [Tasks -> {"none", "capturing", "saved"}]
      BY <1>2, <2>2 DEF WorkerExits, CaptureCheckpoint
    <3>4. QED
      BY <1>2, <2>1, <3>1, <3>2, <3>3 DEF WorkerExits, PoolTypes, OutcomeTypes
  <2>3. CASE WorkerFor(process[w]) = None
    BY <1>2, <2>1, <2>3 DEF WorkerExits, TimerInv
  <2>4. QED
    BY <2>2, <2>3
<1>3. QED
  BY <1>1, <1>2

LEMMA ResolveTypes ==
  ASSUME TypeInv, Resolve
  PROVE  TypeInv'
<1> USE DEF TypeInv, TypeOK, taskQueue, database, pool
<1>1. PICK l \in resolvers : StopWaiting(l) \/ \E t \in l.todo : ResolveNext(l, t)
  BY DEF Resolve
<1>2. l \in Resolver
  OBVIOUS
<1>3. /\ QueueTypes' /\ wakeups' \in Nat /\ wedged' \in BOOLEAN
      /\ resolvers' \in SUBSET Resolver
  <2>1. CASE StopWaiting(l)
    <3>1. l.at \in Tasks
      BY <1>2, <2>1 DEF StopWaiting, Resolver
    <3>2. QED
      BY <2>1, <3>1, UnblockTypes DEF StopWaiting
  <2>2. ASSUME NEW t \in l.todo, ResolveNext(l, t)
        PROVE  /\ QueueTypes' /\ wakeups' \in Nat /\ wedged' \in BOOLEAN
               /\ resolvers' \in SUBSET Resolver
    <3>1. t \in Tasks
      BY <1>2 DEF Resolver
    <3>2. CASE Skip(l, t)
      <4>1. [l EXCEPT !.todo = @ \ {t}] \in Resolver
        BY <1>2 DEF Resolver
      <4>2. QED
        BY <3>2, <4>1, AdvanceTypes DEF Skip, QueueTypes
    <3>3. CASE AwaitCheckpoint(l, t)
      <4>1. [l EXCEPT !.todo = @ \ {t}, !.at = t] \in Resolver
        BY <1>2, <3>1 DEF Resolver
      <4>2. QED
        BY <3>3, <4>1, AdvanceTypes DEF AwaitCheckpoint, QueueTypes
    <3>4. CASE Unblock(l, t)
      BY <3>1, <3>4, UnblockTypes
    <3>5. QED
      BY <2>2, <3>2, <3>3, <3>4 DEF ResolveNext
  <2>3. QED
    BY <1>1, <2>1, <2>2
<1>4. UNCHANGED <<database, pool>>
  BY <1>1 DEF StopWaiting, ResolveNext
<1>5. QED
  BY <1>3, <1>4 DEF QueueTypes, TimerInv

LEMMA RequestTypes ==
  ASSUME TypeInv, NEW t \in Tasks, NEW deps \in SUBSET Tasks,
         NEW from \in Tasks \cup {None},
         \/ Delegate(t, deps, from) \/ DelegateRefused(t, from) \/ Cancel(t)
  PROVE  TypeInv'
<1> USE DEF TypeInv, TypeOK, pool
<1>1. CASE Delegate(t, deps, from)
  <2>1. QueueTypes' /\ wakeups' \in Nat
    BY <1>1, EnqueueTypes DEF Delegate, QueueTypes
  <2>2. resolution' \in [Tasks -> [Tasks -> {"none", "pending"} \cup Terminal]]
    BY <1>1 DEF Delegate
  <2>3. QED
    BY <1>1, <2>1, <2>2 DEF Delegate, QueueTypes, TimerInv
<1>2. CASE DelegateRefused(t, from)
  <2>1. QueueTypes' /\ wakeups' \in Nat
    BY <1>2, EnqueueTypes DEF DelegateRefused
  <2>2. QED
    BY <1>2, <2>1 DEF DelegateRefused, QueueTypes, TimerInv
<1>3. CASE Cancel(t)
  <2>1. QueueTypes'
    BY <1>3, RemoveCopyTypes DEF Cancel, CancelFromQueue, QueueTypes
  <2>2. PoolTypes'
    <3>1. CASE WorkerFor(t) # None
      BY <1>3, <3>1, WorkerForType, ForgetTypes DEF Cancel
    <3>2. CASE WorkerFor(t) = None
      BY <1>3, <3>2 DEF Cancel, PoolTypes, TimerInv
    <3>3. QED
      BY <3>1, <3>2
  <2>3. OutcomeTypes'
    BY <1>3, TaskEndsTypes DEF Cancel, Terminal
  <2>4. checkpoint' \in [Tasks -> {"none", "capturing", "saved"}]
    BY <1>3 DEF Cancel, CaptureCheckpoint
  <2>5. QED
    BY <1>3, <2>1, <2>2, <2>3, <2>4 DEF Cancel, QueueTypes, PoolTypes, OutcomeTypes
<1>4. QED
  BY <1>1, <1>2, <1>3

LEMMA TypeStep == TypeInv /\ [Next]_vars => TypeInv'
<1> SUFFICES ASSUME TypeInv, [Next]_vars PROVE TypeInv'
  OBVIOUS
<1> USE DEF TypeInv, TypeOK, database, taskQueue, pool
<1>1. CASE UNCHANGED vars
  BY <1>1 DEF vars, TimerInv
<1>2. ASSUME NEW t \in Tasks, NEW deps \in SUBSET Tasks, NEW from \in Tasks \cup {None},
             Delegate(t, deps, from)
      PROVE  TypeInv'
  BY <1>2, RequestTypes
<1>3. ASSUME NEW t \in Tasks, NEW from \in Tasks \cup {None}, DelegateRefused(t, from)
      PROVE  TypeInv'
  BY <1>3, RequestTypes
<1>4. ASSUME NEW t \in Tasks, Cancel(t) PROVE TypeInv'
  BY <1>4, RequestTypes
<1>5. ASSUME NEW t \in Tasks, CheckpointSaved(t) PROVE TypeInv'
  BY <1>5 DEF CheckpointSaved, TimerInv
<1>6. ASSUME NEW t \in Tasks, NEW w \in WorkerIds, SpawnWorker(t, w) PROVE TypeInv'
  <2>1. QueueTypes'
    BY <1>6, RemoveCopyTypes DEF SpawnWorker
  <2>2. PoolTypes'
    BY <1>6 DEF SpawnWorker, PoolTypes, TimerInv
  <2>3. QED
    BY <1>6, <2>1, <2>2 DEF SpawnWorker, QueueTypes, PoolTypes
<1>7. CASE FindQueueEmpty
  BY <1>7 DEF FindQueueEmpty, TimerInv
<1>8. CASE SpawnFails
  <2>1. indexed' \in SUBSET Tasks
    BY <1>8, ReindexTypes DEF SpawnFails
  <2>2. QED
    BY <1>8, <2>1 DEF SpawnFails, TimerInv
<1>9. ASSUME NEW w \in WorkerIds, NEW o \in {"completed", "failed"},
             TimeoutFires(w) \/ WorkerExits(w, o)
      PROVE  TypeInv'
  BY <1>9, WorkerEventTypes
<1>10. CASE Resolve
  BY <1>10, ResolveTypes
<1> HIDE DEF TypeInv, TypeOK, database, taskQueue, pool
<1>11. QED
  BY <1>1, <1>2, <1>3, <1>4, <1>5, <1>6, <1>7, <1>8, <1>9, <1>10 DEF Next

(* Every reachable state is well typed.  That the counters are natural      *)
(* numbers is the part with content: no run of processNextTask and no copy  *)
(* of a task is taken twice.                                                *)
THEOREM TypeCorrect == Spec => []TypeOK
<1>1. TypeInv => TypeOK
  BY DEF TypeInv
<1>2. QED
  BY <1>1, InitTypes, TypeStep, PTL DEF Spec

-----------------------------------------------------------------------------
(* The key principle.  A task without a row in the database has no          *)
(* dependency row, and a task that anything works on exists and has no      *)
(* pending one.  `Engaged' adds to what KeyPrinciple names the dependent    *)
(* whose checkpoint a loop of resolveDependencies waits for: its            *)
(* dependencies were looked at before the wait, and it is enqueued after it *)
(* without another look.                                                    *)

Engaged(t) ==
  InHeap(t) \/ HasProcess(t) \/ status[t] = "running" \/ \E l \in resolvers : l.at = t

EngagedInv == \A t \in Tasks : Engaged(t) => Exists(t) /\ ~ Blocked(t)

RowsInv == \A t \in Tasks : ~ Exists(t) => \A d \in Tasks : resolution[t][d] = "none"

TodoInv == \A l \in resolvers : \A t \in Tasks : t \in l.todo => Exists(t)

TablesInv == EngagedInv /\ RowsInv /\ TodoInv

KeyInv == TypeInv /\ TablesInv

(* What a step has to show: tasks stay, dependencies of existing tasks are  *)
(* only resolved, and what becomes engaged may be.                          *)
LEMMA Frame ==
  ASSUME TablesInv,
         \A t \in Tasks : Exists(t) => Exists(t)' /\ (Blocked(t)' => Blocked(t)),
         \A t \in Tasks : ~ Exists(t)' => resolution'[t] = resolution[t],
         \A t \in Tasks : Engaged(t)' => Engaged(t) \/ (Exists(t)' /\ ~ Blocked(t)'),
         \A l \in resolvers' : \A t \in Tasks : t \in l.todo => Exists(t)
  PROVE  TablesInv'
<1>1. EngagedInv'
  BY DEF TablesInv, EngagedInv
<1>2. RowsInv'
  BY DEF TablesInv, RowsInv
<1>3. TodoInv'
  BY DEF TodoInv
<1>4. QED
  BY <1>1, <1>2, <1>3 DEF TablesInv

(* The end of a task only resolves rows, and starts a loop that waits for   *)
(* nothing yet.                                                             *)
LEMMA TaskEndsFrame ==
  ASSUME TypeInv, NEW t \in Tasks, NEW o \in Terminal, TaskEnds(t, o)
  PROVE  /\ \A x \in Tasks : Exists(x) => Exists(x)' /\ (Blocked(x)' => Blocked(x))
         /\ \A x, d \in Tasks : resolution[x][d] # "pending" =>
              resolution'[x][d] = resolution[x][d]
         /\ \A x, d \in Tasks : resolution'[x][d] # resolution[x][d] =>
              resolution'[x][d] = o /\ d = t
         /\ \A x \in Tasks : resolution'[x][t] # "pending"
         /\ \A x \in Tasks : x # t => status'[x] = status[x]
         /\ status'[t] = o
         /\ \A x \in Tasks : (\E l \in resolvers' : l.at = x) => \E l \in resolvers : l.at = x
<1> USE DEF TypeInv, TypeOK, TaskEnds, Terminal
<1>1. \A x, d \in Tasks :
        resolution'[x][d] = IF resolution[x][d] = "pending" /\ d = t THEN o ELSE resolution[x][d]
  BY DEF ResolveBatch
<1>2. \A x \in Tasks : Exists(x) => Exists(x)'
  BY DEF Exists
<1>3. \A x \in Tasks : Blocked(x)' => Blocked(x)
  BY <1>1 DEF Blocked
<1>4. \A x \in Tasks : (\E l \in resolvers' : l.at = x) => \E l \in resolvers : l.at = x
  <2>1. [of |-> t, todo |-> PendingDependents(t), at |-> None].at = None
    OBVIOUS
  <2>2. QED
    BY <2>1
<1>5. status'[t] = o /\ \A x \in Tasks : x # t => status'[x] = status[x]
  OBVIOUS
<1>6. o # "pending"
  OBVIOUS
<1> HIDE DEF TypeInv, TypeOK, TaskEnds, Terminal
<1>7. /\ \A x, d \in Tasks : resolution[x][d] # "pending" => resolution'[x][d] = resolution[x][d]
      /\ \A x, d \in Tasks : resolution'[x][d] # resolution[x][d] =>
           resolution'[x][d] = o /\ d = t
      /\ \A x \in Tasks : resolution'[x][t] # "pending"
  BY <1>1, <1>6
<1>8. QED
  BY <1>2, <1>3, <1>4, <1>5, <1>7

(* Spawning, queue and resolver steps leave rows and existence alone. *)
LEMMA RowsUnchanged ==
  ASSUME UNCHANGED resolution, \A t \in Tasks : Exists(t) => Exists(t)'
  PROVE  /\ \A t \in Tasks : Exists(t) => Exists(t)' /\ (Blocked(t)' => Blocked(t))
         /\ \A t \in Tasks : ~ Exists(t)' => resolution'[t] = resolution[t]
  BY DEF Blocked

(* Dequeueing, or removing a task from the queue, engages nothing. *)
LEMMA RemoveCopyFrame ==
  ASSUME TypeInv, NEW t \in Tasks, RemoveCopy(t)
  PROVE  \A x \in Tasks : InHeap(x)' => InHeap(x)
  BY DEF TypeInv, TypeOK, RemoveCopy, InHeap

LEMMA EnqueueFrame ==
  ASSUME TypeInv, NEW t \in Tasks, Enqueue(t) \/ EnqueueFails
  PROVE  \A x \in Tasks : InHeap(x)' => InHeap(x) \/ x = t
  BY DEF TypeInv, TypeOK, Enqueue, EnqueueFails, InHeap

LEMMA DelegateKeeps ==
  ASSUME KeyInv, NEW t \in Tasks, NEW deps \in SUBSET Tasks,
         NEW from \in Tasks \cup {None}, Delegate(t, deps, from)
  PROVE  TablesInv'
<1> USE DEF KeyInv, TablesInv, pool
<1>1. \A x \in Tasks : x # t => status'[x] = status[x] /\ resolution'[x] = resolution[x]
  BY DEF Delegate, TypeInv, TypeOK
<1>2. status'[t] = "queued" /\ ~ Exists(t) /\ Exists(t)'
  BY DEF Delegate, TypeInv, TypeOK, Exists
<1>3. deps = {} => ~ Blocked(t)'
  BY DEF Delegate, Blocked, TypeInv, TypeOK
<1>4. \A x \in Tasks : InHeap(x)' => InHeap(x) \/ (x = t /\ deps = {})
  BY EnqueueFrame DEF Delegate, InHeap
<1>5. \A x \in Tasks : Engaged(x)' => Engaged(x) \/ (x = t /\ deps = {})
  BY <1>1, <1>2, <1>4 DEF Engaged, HasProcess, Delegate
<1>6. \A x \in Tasks : Exists(x) => Exists(x)' /\ (Blocked(x)' => Blocked(x))
  BY <1>1, <1>2 DEF Exists, Blocked
<1>7. QED
  BY <1>1, <1>2, <1>3, <1>5, <1>6, Frame DEF Delegate, TodoInv

LEMMA DelegateRefusedKeeps ==
  ASSUME KeyInv, NEW t \in Tasks, NEW from \in Tasks \cup {None}, DelegateRefused(t, from)
  PROVE  TablesInv'
<1> USE DEF KeyInv, TablesInv, pool
<1>1. \A x \in Tasks : x # t => status'[x] = status[x]
  BY DEF DelegateRefused, TypeInv, TypeOK
<1>2. status'[t] = "queued" /\ ~ Exists(t) /\ Exists(t)' /\ UNCHANGED resolution
  BY DEF DelegateRefused, TypeInv, TypeOK, Exists
<1>3. ~ Blocked(t)'
  BY <1>2 DEF RowsInv, Blocked
<1>4. \A x \in Tasks : InHeap(x)' => InHeap(x) \/ x = t
  BY EnqueueFrame DEF DelegateRefused
<1>5. \A x \in Tasks : Engaged(x)' => Engaged(x) \/ x = t
  BY <1>1, <1>4 DEF Engaged, HasProcess, DelegateRefused
<1>6. \A x \in Tasks : Exists(x) => Exists(x)'
  BY <1>1, <1>2 DEF Exists
<1>7. QED
  BY <1>2, <1>3, <1>5, <1>6, RowsUnchanged, Frame DEF DelegateRefused, TodoInv

(* The end of a task, by cancellation, exit or timeout: a process may end,  *)
(* a copy may leave the queue, and rows are resolved.                       *)
LEMMA EndKeeps ==
  ASSUME KeyInv, NEW t \in Tasks, NEW o \in Terminal, TaskEnds(t, o),
         \A x \in Tasks : InHeap(x)' => InHeap(x),
         \A x \in Tasks : HasProcess(x)' => HasProcess(x)
  PROVE  TablesInv'
<1> USE DEF KeyInv, TablesInv
<1>1. \A x \in Tasks : Exists(x) => Exists(x)' /\ (Blocked(x)' => Blocked(x))
  BY TaskEndsFrame
<1>2. \A x \in Tasks : Engaged(x)' => Engaged(x)
  BY TaskEndsFrame DEF Engaged, Terminal
<1>3. \A x \in Tasks : ~ Exists(x)' => resolution'[x] = resolution[x]
  <2> SUFFICES ASSUME NEW x \in Tasks, ~ Exists(x)' PROVE resolution'[x] = resolution[x]
    OBVIOUS
  <2>1. \A d \in Tasks : resolution'[x][d] = resolution[x][d]
    BY <1>1, TaskEndsFrame DEF RowsInv
  <2>2. resolution[x] \in [Tasks -> {"none", "pending"} \cup Terminal]
    BY DEF TypeInv, TypeOK
  <2>3. resolution'[x] \in [Tasks -> {"none", "pending"} \cup Terminal]
    BY TaskEndsTypes DEF OutcomeTypes
  <2>4. QED
    BY <2>1, <2>2, <2>3
<1>4. \A l \in resolvers' : \A x \in Tasks : x \in l.todo => Exists(x)
  <2>1. \A x \in PendingDependents(t) : Exists(x)
    BY DEF PendingDependents, RowsInv
  <2>2. [of |-> t, todo |-> PendingDependents(t), at |-> None].todo = PendingDependents(t)
    OBVIOUS
  <2>3. QED
    BY <2>1, <2>2 DEF TaskEnds, TodoInv
<1>5. QED
  BY <1>1, <1>2, <1>3, <1>4, Frame

LEMMA ResolveKeeps ==
  ASSUME KeyInv, Resolve
  PROVE  TablesInv'
<1> USE DEF KeyInv, TablesInv
<1>1. PICK l \in resolvers : StopWaiting(l) \/ \E t \in l.todo : ResolveNext(l, t)
  BY DEF Resolve
<1>2. l \in Resolver
  BY DEF TypeInv, TypeOK
<1>3. UNCHANGED <<status, resolution, process>>
  BY <1>1 DEF StopWaiting, ResolveNext, database, pool
<1>4. ASSUME NEW t \in Tasks, Unblock(l, t)
      PROVE  /\ \A x \in Tasks : InHeap(x)' => InHeap(x) \/ (x = t /\ status[t] = "queued")
             /\ \A x \in Tasks : (\E k \in resolvers' : k.at = x) =>
                                  \E k \in resolvers : k.at = x
  <2>1. [l EXCEPT !.todo = @ \ {t}, !.at = None].at = None
    BY <1>2 DEF Resolver
  <2>2. \A x \in Tasks : (\E k \in resolvers' : k.at = x) => \E k \in resolvers : k.at = x
    BY <1>4, <2>1 DEF Unblock, Advance
  <2>3. \A x \in Tasks : InHeap(x)' => InHeap(x) \/ (x = t /\ status[t] = "queued")
    BY <1>4, EnqueueFrame DEF Unblock, taskQueue, InHeap
  <2>4. QED
    BY <2>2, <2>3
<1>5. \A x \in Tasks : Engaged(x)' => Engaged(x) \/ (Exists(x) /\ ~ Blocked(x))
  <2>1. CASE StopWaiting(l)
    <3>1. l.at \in Tasks /\ Engaged(l.at) /\ Unblock(l, l.at)
      BY <1>2, <2>1 DEF StopWaiting, Resolver, Engaged
    <3>2. Exists(l.at) /\ ~ Blocked(l.at)
      BY <3>1 DEF EngagedInv
    <3>3. QED
      BY <1>3, <1>4, <3>1, <3>2 DEF Engaged, HasProcess
  <2>2. ASSUME NEW t \in l.todo, ResolveNext(l, t)
        PROVE  \A x \in Tasks : Engaged(x)' => Engaged(x) \/ (Exists(x) /\ ~ Blocked(x))
    <3>1. t \in Tasks /\ Exists(t)
      BY <1>2 DEF Resolver, TodoInv
    <3>2. CASE Skip(l, t)
      <4>1. [l EXCEPT !.todo = @ \ {t}].at = l.at
        BY <1>2 DEF Resolver
      <4>2. \A x \in Tasks : (\E k \in resolvers' : k.at = x) => \E k \in resolvers : k.at = x
        BY <3>2, <4>1 DEF Skip, Advance
      <4>3. QED
        BY <1>3, <3>2, <4>2 DEF Skip, Engaged, HasProcess, InHeap, taskQueue
    <3>3. CASE AwaitCheckpoint(l, t)
      <4>1. [l EXCEPT !.todo = @ \ {t}, !.at = t].at = t
        BY <1>2 DEF Resolver
      <4>2. \A x \in Tasks : (\E k \in resolvers' : k.at = x) =>
                              x = t \/ \E k \in resolvers : k.at = x
        BY <3>3, <4>1 DEF AwaitCheckpoint, Advance
      <4>3. ~ Blocked(t) /\ Exists(t)
        BY <3>1, <3>3 DEF AwaitCheckpoint
      <4>4. QED
        BY <1>3, <3>3, <4>2, <4>3 DEF AwaitCheckpoint, Engaged, HasProcess, InHeap, taskQueue
    <3>4. CASE ~ Blocked(t) /\ Unblock(l, t)
      BY <1>3, <1>4, <3>1, <3>4 DEF Engaged, HasProcess, Exists
    <3>5. QED
      BY <2>2, <3>2, <3>3, <3>4 DEF ResolveNext
  <2>3. QED
    BY <1>1, <2>1, <2>2
<1>6. \A x \in Tasks : Exists(x)' = Exists(x) /\ Blocked(x)' = Blocked(x)
  BY <1>3 DEF Exists, Blocked
<1>7. \A k \in resolvers' : \A x \in Tasks : x \in k.todo => Exists(x)
  <2>1. ASSUME NEW t, NEW at
        PROVE  /\ [l EXCEPT !.todo = @ \ {t}].todo \subseteq l.todo
               /\ [l EXCEPT !.todo = @ \ {t}, !.at = at].todo \subseteq l.todo
    BY <1>2 DEF Resolver
  <2>2. \A k \in resolvers' : k \in resolvers \/ k.todo \subseteq l.todo
    BY <1>1, <2>1 DEF StopWaiting, ResolveNext, Skip, AwaitCheckpoint, Unblock, Advance
  <2>3. QED
    BY <2>2 DEF TodoInv
<1>8. QED
  BY <1>3, <1>5, <1>6, <1>7, Frame

LEMMA KeyStep == KeyInv /\ [Next]_vars => TablesInv'
<1> SUFFICES ASSUME KeyInv, [Next]_vars PROVE TablesInv'
  OBVIOUS
<1> USE DEF KeyInv
<1>1. CASE UNCHANGED vars
  BY <1>1 DEF vars, database, taskQueue, pool, TablesInv, EngagedInv, RowsInv, TodoInv,
              Engaged, InHeap, HasProcess, Exists, Blocked
<1>2. ASSUME NEW t \in Tasks, NEW deps \in SUBSET Tasks, NEW from \in Tasks \cup {None},
             Delegate(t, deps, from)
      PROVE  TablesInv'
  BY <1>2, DelegateKeeps
<1>3. ASSUME NEW t \in Tasks, NEW from \in Tasks \cup {None}, DelegateRefused(t, from)
      PROVE  TablesInv'
  BY <1>3, DelegateRefusedKeeps
<1>4. ASSUME NEW t \in Tasks, Cancel(t) PROVE TablesInv'
  <2>1. \A x \in Tasks : InHeap(x)' => InHeap(x)
    BY <1>4, RemoveCopyFrame DEF Cancel, CancelFromQueue, InHeap
  <2>2. \A x \in Tasks : HasProcess(x)' => HasProcess(x)
    BY <1>4 DEF Cancel, HasProcess
  <2>3. QED
    BY <1>4, <2>1, <2>2, EndKeeps DEF Cancel, Terminal
<1>5. ASSUME NEW t \in Tasks, CheckpointSaved(t) PROVE TablesInv'
  BY <1>5 DEF CheckpointSaved, taskQueue, pool, TablesInv, EngagedInv, RowsInv, TodoInv,
              Engaged, InHeap, HasProcess, Exists, Blocked
<1>6. ASSUME NEW t \in Tasks, NEW w \in WorkerIds, SpawnWorker(t, w) PROVE TablesInv'
  <2>1. InHeap(t) /\ Exists(t) /\ ~ Blocked(t)
    BY <1>6 DEF SpawnWorker, RemoveCopy, InHeap, TablesInv, EngagedInv, Engaged
  <2>2. \A x \in Tasks : InHeap(x)' => InHeap(x)
    BY <1>6, RemoveCopyFrame DEF SpawnWorker
  <2>3. \A x \in Tasks : HasProcess(x)' => HasProcess(x) \/ x = t
    BY <1>6 DEF SpawnWorker, HasProcess, TypeInv, TypeOK
  <2>4. \A x \in Tasks : Exists(x) => Exists(x)'
    BY <1>6 DEF SpawnWorker, Exists, TypeInv, TypeOK
  <2>5. \A x \in Tasks : Engaged(x)' => Engaged(x) \/ x = t
    BY <1>6, <2>2, <2>3 DEF SpawnWorker, Engaged, TypeInv, TypeOK
  <2>6. UNCHANGED <<resolution, resolvers>>
    BY <1>6 DEF SpawnWorker
  <2>7. Exists(t)' /\ ~ Blocked(t)'
    BY <2>1, <2>4, <2>6 DEF Blocked
  <2>8. \A l \in resolvers' : \A x \in Tasks : x \in l.todo => Exists(x)
    BY <2>6 DEF TablesInv, TodoInv
  <2>9. QED
    BY <2>4, <2>5, <2>6, <2>7, <2>8, RowsUnchanged, Frame
<1>7. CASE FindQueueEmpty
  BY <1>7 DEF FindQueueEmpty, database, pool, TablesInv, EngagedInv, RowsInv, TodoInv,
              Engaged, InHeap, HasProcess, Exists, Blocked
<1>8. CASE SpawnFails
  BY <1>8 DEF SpawnFails, database, pool, TablesInv, EngagedInv, RowsInv, TodoInv,
              Engaged, InHeap, HasProcess, Exists, Blocked
<1>9. ASSUME NEW w \in WorkerIds, TimeoutFires(w) PROVE TablesInv'
  <2>1. workers[w] \in Tasks
    BY <1>9 DEF TimeoutFires, TimerInv, TypeInv, TypeOK
  <2>2. UNCHANGED <<copies, process>>
    BY <1>9 DEF TimeoutFires, taskQueue
  <2>3. CASE WorkerFor(workers[w]) # None
    BY <1>9, <2>1, <2>2, <2>3, EndKeeps DEF TimeoutFires, Terminal, InHeap, HasProcess
  <2>4. CASE WorkerFor(workers[w]) = None
    BY <1>9, <2>2, <2>4 DEF TimeoutFires, TablesInv, EngagedInv, RowsInv, TodoInv,
              Engaged, InHeap, HasProcess, Exists, Blocked
  <2>5. QED
    BY <2>3, <2>4
<1>10. ASSUME NEW w \in WorkerIds, NEW o \in {"completed", "failed"}, WorkerExits(w, o)
       PROVE  TablesInv'
  <2>1. process[w] \in Tasks /\ UNCHANGED copies
    BY <1>10 DEF WorkerExits, taskQueue, TypeInv, TypeOK
  <2>2. \A x \in Tasks : HasProcess(x)' => HasProcess(x)
    BY <1>10 DEF WorkerExits, HasProcess, TypeInv, TypeOK
  <2>3. CASE WorkerFor(process[w]) # None
    BY <1>10, <2>1, <2>2, <2>3, EndKeeps DEF WorkerExits, Terminal, InHeap
  <2>4. CASE WorkerFor(process[w]) = None
    <3>1. UNCHANGED <<status, resolution, resolvers>>
      BY <1>10, <2>4 DEF WorkerExits, database
    <3>2. \A x \in Tasks : Engaged(x)' => Engaged(x)
      BY <2>1, <2>2, <3>1 DEF Engaged, InHeap
    <3>3. QED
      BY <3>1, <3>2, RowsUnchanged, Frame DEF Exists, TablesInv, TodoInv
  <2>5. QED
    BY <2>3, <2>4
<1>11. CASE Resolve
  BY <1>11, ResolveKeeps
<1>12. QED
  BY <1>1, <1>2, <1>3, <1>4, <1>5, <1>6, <1>7, <1>8, <1>9, <1>10, <1>11 DEF Next

LEMMA KeyInvariant == Spec => []KeyInv
<1>1. Init => KeyInv
  <2> SUFFICES ASSUME Init PROVE TablesInv
    BY InitTypes DEF KeyInv
  <2>1. EngagedInv
    BY DEF Init, EngagedInv, Engaged, InHeap, HasProcess
  <2>2. RowsInv /\ TodoInv
    BY DEF Init, RowsInv, TodoInv
  <2>3. QED
    BY <2>1, <2>2 DEF TablesInv
<1>2. KeyInv /\ [Next]_vars => KeyInv'
  BY TypeStep, KeyStep DEF KeyInv
<1>3. QED
  BY <1>1, <1>2, PTL DEF Spec

(* "Tasks are only enqueued when all dependencies are resolved"             *)
(* (docs/TASK-DEPENDENCIES.md:47): within a session, whatever is cancelled, *)
(* times out or continues from a checkpoint, no task with a pending         *)
(* dependency is in the queue, running, or worked on by a process.          *)
THEOREM KeyPrincipleHolds == Spec => []KeyPrinciple
<1>1. KeyInv => KeyPrinciple
  BY DEF KeyInv, TablesInv, EngagedInv, Engaged, Blocked, KeyPrinciple
<1>2. QED
  BY <1>1, KeyInvariant, PTL

-----------------------------------------------------------------------------
(* What becomes of dependency rows. *)

(* A step either leaves rows and statuses of ended tasks alone, or ends one *)
(* task, or delegates one.                                                  *)
LEMMA StepCases ==
  ASSUME TypeInv, Next
  PROVE  \/ \E t \in Tasks, deps \in SUBSET Tasks, from \in Tasks \cup {None} :
              Delegate(t, deps, from)
         \/ \E t \in Tasks, o \in Terminal : TaskEnds(t, o)
         \/ /\ UNCHANGED resolution
            /\ \A d \in Tasks : status'[d] \in Terminal => status'[d] = status[d]
<1> DEFINE Quiet == /\ UNCHANGED resolution
                   /\ \A d \in Tasks : status'[d] \in Terminal => status'[d] = status[d]
           Ended == \E t \in Tasks, o \in Terminal : TaskEnds(t, o)
           Delegated == \E t \in Tasks, deps \in SUBSET Tasks, from \in Tasks \cup {None} :
                          Delegate(t, deps, from)
<1> SUFFICES Quiet \/ Ended \/ Delegated
  OBVIOUS
<1>0. ASSUME NEW t \in Tasks, NEW deps \in SUBSET Tasks, NEW from \in Tasks \cup {None},
             Delegate(t, deps, from)
      PROVE  Delegated
  BY <1>0
<1>1. ASSUME NEW t \in Tasks, NEW from \in Tasks \cup {None}, DelegateRefused(t, from)
      PROVE  Quiet
  BY <1>1 DEF DelegateRefused, TypeInv, TypeOK, Terminal
<1>2. ASSUME NEW t \in Tasks, Cancel(t)
      PROVE  Ended
  BY <1>2 DEF Cancel, Terminal
<1>3. ASSUME NEW t \in Tasks, CheckpointSaved(t) PROVE Quiet
  BY <1>3 DEF CheckpointSaved
<1>4. ASSUME NEW t \in Tasks, NEW w \in WorkerIds, SpawnWorker(t, w) PROVE Quiet
  BY <1>4 DEF SpawnWorker, TypeInv, TypeOK, Terminal
<1>5. CASE FindQueueEmpty
  BY <1>5 DEF FindQueueEmpty, database
<1>6. CASE SpawnFails
  BY <1>6 DEF SpawnFails, database
<1>7. ASSUME NEW w \in WorkerIds, TimeoutFires(w)
      PROVE  Quiet \/ Ended
  <2>1. workers[w] \in Tasks
    BY <1>7 DEF TimeoutFires, TimerInv, TypeInv, TypeOK
  <2>2. QED
    BY <1>7, <2>1 DEF TimeoutFires, Terminal
<1>8. ASSUME NEW w \in WorkerIds, NEW o \in {"completed", "failed"}, WorkerExits(w, o)
      PROVE  Quiet \/ Ended
  <2>1. process[w] \in Tasks
    BY <1>8 DEF WorkerExits, TypeInv, TypeOK
  <2>2. QED
    BY <1>8, <2>1 DEF WorkerExits, Terminal, database
<1>9. CASE Resolve
  BY <1>9 DEF Resolve, StopWaiting, ResolveNext, database
<1> HIDE DEF Quiet, Ended, Delegated
<1>10. QED
  BY <1>0, <1>1, <1>2, <1>3, <1>4, <1>5, <1>6, <1>7, <1>8, <1>9 DEF Next

(* Tasks stay, and where a task continues from is decided when it comes to *)
(* exist.                                                                   *)
LEMMA TasksStay ==
  ASSUME TypeInv, Next
  PROVE  \A t \in Tasks :
           /\ Exists(t) => Exists(t)' /\ continueFrom'[t] = continueFrom[t]
           /\ continueFrom'[t] # continueFrom[t] => Exists(t)'
<1> DEFINE Goal == \A t \in Tasks :
                    /\ Exists(t) => Exists(t)' /\ continueFrom'[t] = continueFrom[t]
                    /\ continueFrom'[t] # continueFrom[t] => Exists(t)'
<1> SUFFICES Goal
  OBVIOUS
<1> USE DEF Exists
<1>0. ASSUME UNCHANGED continueFrom, \A t \in Tasks : Exists(t) => Exists(t)' PROVE Goal
  BY <1>0
<1>1. ASSUME NEW t \in Tasks, ~ Exists(t), status' = [status EXCEPT ![t] = "queued"],
             NEW from, continueFrom' = [continueFrom EXCEPT ![t] = from]
      PROVE  Goal
  BY <1>1 DEF TypeInv, TypeOK
<1>2. ASSUME NEW t \in Tasks, NEW o \in Terminal, TaskEnds(t, o) PROVE Goal
  BY <1>2 DEF TaskEnds, TypeInv, TypeOK, Terminal
<1>3. ASSUME NEW t \in Tasks, NEW w \in WorkerIds, SpawnWorker(t, w) PROVE Goal
  BY <1>3 DEF SpawnWorker, TypeInv, TypeOK
<1> HIDE DEF Goal
<1>4. ASSUME UNCHANGED <<status, continueFrom>> PROVE Goal
  BY <1>0, <1>4 DEF Exists
<1>5. CASE \E t \in Tasks, deps \in SUBSET Tasks, from \in Tasks \cup {None} :
             Delegate(t, deps, from)
  BY <1>1, <1>5 DEF Delegate
<1>6. CASE \E t \in Tasks, from \in Tasks \cup {None} : DelegateRefused(t, from)
  BY <1>1, <1>6 DEF DelegateRefused
<1>7. CASE \E t \in Tasks : Cancel(t)
  BY <1>2, <1>7 DEF Cancel, Terminal
<1>8. ASSUME NEW w \in WorkerIds, TimeoutFires(w) PROVE Goal
  <2>1. workers[w] \in Tasks
    BY <1>8 DEF TimeoutFires, TimerInv, TypeInv, TypeOK
  <2>2. QED
    BY <1>2, <1>4, <1>8, <2>1 DEF TimeoutFires, Terminal
<1>9. ASSUME NEW w \in WorkerIds, NEW o \in {"completed", "failed"}, WorkerExits(w, o)
      PROVE  Goal
  <2>1. process[w] \in Tasks
    BY <1>9 DEF WorkerExits, TypeInv, TypeOK
  <2>2. QED
    BY <1>2, <1>4, <1>9, <2>1 DEF WorkerExits, Terminal, database
<1>10. CASE FindQueueEmpty \/ SpawnFails \/ Resolve \/ \E t \in Tasks : CheckpointSaved(t)
  BY <1>4, <1>10 DEF FindQueueEmpty, SpawnFails, Resolve, StopWaiting, ResolveNext,
                     CheckpointSaved, database
<1>11. QED
  BY <1>3, <1>5, <1>6, <1>7, <1>8, <1>9, <1>10 DEF Next

(* A resolved dependency row is never changed again, not by a second end of *)
(* the dependency and not by its dependent (docs/TASK-DEPENDENCIES.md:667). *)
THEOREM ResolutionsAreFinal == Spec => ResolutionIsFinal
<1>1. KeyInv /\ [Next]_vars =>
        [\A t, d \in Tasks :
           resolution[t][d] \in Terminal => resolution'[t][d] = resolution[t][d]]_vars
  <2> SUFFICES ASSUME KeyInv, Next, NEW t \in Tasks, NEW d \in Tasks,
                      resolution[t][d] \in Terminal
               PROVE  resolution'[t][d] = resolution[t][d]
    OBVIOUS
  <2> USE DEF KeyInv, TablesInv
  <2>1. ASSUME NEW x \in Tasks, NEW deps \in SUBSET Tasks, NEW from \in Tasks \cup {None},
               Delegate(x, deps, from)
        PROVE  resolution'[t][d] = resolution[t][d]
    <3>1. t # x
      BY <2>1 DEF Delegate, RowsInv, Terminal
    <3>2. QED
      BY <2>1, <3>1 DEF Delegate, TypeInv, TypeOK
  <2>2. ASSUME NEW x \in Tasks, NEW o \in Terminal, TaskEnds(x, o)
        PROVE  resolution'[t][d] = resolution[t][d]
    BY <2>2, TaskEndsFrame DEF Terminal
  <2>3. QED
    BY <2>1, <2>2, StepCases
<1>2. QED
  BY <1>1, KeyInvariant, PTL DEF Spec, ResolutionIsFinal

(* When no task is delegated with a dependency that has already ended, the  *)
(* end of a task resolves every row that ever names it                      *)
(* (docs/FEATURES.md:172), however it ends and however often.               *)
THEOREM EndsAreResolved == ~ DependOnFinished /\ Spec => []TerminalIsResolved
<1> SUFFICES ASSUME ~ DependOnFinished PROVE Spec => []TerminalIsResolved
  OBVIOUS
<1>1. Init => TerminalIsResolved
  BY DEF Init, TerminalIsResolved, Terminal
<1>2. TypeInv /\ TerminalIsResolved /\ [Next]_vars => TerminalIsResolved'
  <2> SUFFICES ASSUME TypeInv, TerminalIsResolved, [Next]_vars,
                      NEW t \in Tasks, NEW d \in Tasks, status'[d] \in Terminal
               PROVE  resolution'[t][d] # "pending"
    BY DEF TerminalIsResolved
  <2>1. CASE UNCHANGED vars
    BY <2>1 DEF vars, database, TerminalIsResolved
  <2>2. ASSUME NEW x \in Tasks, NEW deps \in SUBSET Tasks, NEW from \in Tasks \cup {None},
               Delegate(x, deps, from)
        PROVE  resolution'[t][d] # "pending"
    <3>1. d # x /\ status[d] \in Terminal
      BY <2>2 DEF Delegate, TypeInv, TypeOK, Terminal
    <3>2. d \notin deps
      BY <2>2, <3>1 DEF Delegate
    <3>3. CASE t = x
      BY <2>2, <3>2, <3>3 DEF Delegate, TypeInv, TypeOK
    <3>4. CASE t # x
      BY <2>2, <3>1, <3>4 DEF Delegate, TerminalIsResolved, TypeInv, TypeOK
    <3>5. QED
      BY <3>3, <3>4
  <2>3. ASSUME NEW x \in Tasks, NEW o \in Terminal, TaskEnds(x, o)
        PROVE  resolution'[t][d] # "pending"
    BY <2>3, TaskEndsFrame DEF TerminalIsResolved, Terminal
  <2>4. CASE /\ UNCHANGED resolution
             /\ \A x \in Tasks : status'[x] \in Terminal => status'[x] = status[x]
    BY <2>4 DEF TerminalIsResolved
  <2>5. QED
    BY <2>1, <2>2, <2>3, <2>4, StepCases
<1>3. Spec => []TypeInv
  BY InitTypes, TypeStep, PTL DEF Spec
<1>4. QED
  BY <1>1, <1>2, <1>3, PTL DEF Spec
-----------------------------------------------------------------------------
(* Nothing is forgotten.  A queued task leaves the queue only when it is    *)
(* taken or cancelled; one that is no longer blocked was in a loop's todo   *)
(* when its last dependency was resolved, and the loop enqueues it.  This   *)
(* needs types only, so it holds in the sessions after a restart too.       *)

NoneForgotten == \A t \in Tasks : Waits(t) => Remembered(t)

(* A task that waited before, or that the end of another has unblocked.     *)
LEMMA EndRemembers ==
  ASSUME TypeInv, NoneForgotten, NEW t \in Tasks, NEW o \in Terminal, TaskEnds(t, o),
         \A x \in Tasks \ {t} : copies'[x] = copies[x]
  PROVE  NoneForgotten'
<1> SUFFICES ASSUME NEW x \in Tasks, Waits(x)' PROVE Remembered(x)'
  BY DEF NoneForgotten
<1>1. x # t /\ status'[x] = status[x]
  BY DEF TaskEnds, Waits, Terminal, TypeInv, TypeOK
<1>2. CASE Blocked(x)
  <2>1. PICK d \in Tasks : resolution[x][d] = "pending"
    BY <1>2 DEF Blocked
  <2>2. resolution'[x][d] # "pending"
    BY DEF Waits, Blocked
  <2>3. resolution[x][t] = "pending"
    BY <2>1, <2>2 DEF TaskEnds, ResolveBatch
  <2>4. x \in PendingDependents(t)
    BY <2>3 DEF PendingDependents
  <2>5. [of |-> t, todo |-> PendingDependents(t), at |-> None] \in resolvers'
    BY <2>4 DEF TaskEnds
  <2>6. QED
    BY <2>4, <2>5 DEF Remembered
<1>3. CASE ~ Blocked(x)
  <2>1. Remembered(x) /\ resolvers \subseteq resolvers'
    BY <1>1, <1>3 DEF Waits, NoneForgotten, TaskEnds
  <2>2. QED
    BY <1>1, <2>1 DEF Remembered, InHeap
<1>4. QED
  BY <1>2, <1>3

(* A new task is blocked or in the queue, and no other one is disturbed.    *)
LEMMA NewTaskRemembered ==
  ASSUME TypeInv, NoneForgotten, ~ QueueIsFull,
         NEW t \in Tasks, status' = [status EXCEPT ![t] = "queued"],
         \/ \E d \in Tasks : resolution'[t][d] = "pending" /\ UNCHANGED copies
         \/ Enqueue(t) \/ EnqueueFails,
         \A x \in Tasks \ {t} : resolution'[x] = resolution[x],
         UNCHANGED resolvers
  PROVE  NoneForgotten'
<1> SUFFICES ASSUME NEW x \in Tasks, Waits(x)' PROVE Remembered(x)'
  BY DEF NoneForgotten
<1>0. copies \in [Tasks -> Nat]
  BY DEF TypeInv, TypeOK
<1>1. CASE x = t
  <2>1. Enqueue(t)
    BY <1>1 DEF Waits, Blocked, EnqueueFails
  <2>2. copies'[t] > 0
    BY <1>0, <2>1 DEF Enqueue
  <2>3. QED
    BY <1>1, <2>2 DEF Remembered, InHeap
<1>2. CASE x # t
  <2>1. copies'[x] = copies[x]
    BY <1>0, <1>2 DEF Enqueue, EnqueueFails
  <2>2. status'[x] = status[x]
    BY <1>2 DEF TypeInv, TypeOK
  <2>3. Waits(x)
    BY <1>2, <2>2 DEF Waits, Blocked
  <2>4. QED
    BY <2>1, <2>3 DEF Remembered, InHeap, NoneForgotten
<1>3. QED
  BY <1>1, <1>2

(* A loop that goes on from dependent t keeps the others. *)
LEMMA AdvanceRemembers ==
  ASSUME TypeInv, NEW l \in resolvers, NEW t \in Tasks, NEW next,
         l.at \in {t, None}, next.todo = l.todo \ {t}, resolvers' = Advance(l, next),
         NEW x \in Tasks \ {t}, NEW k \in resolvers, x = k.at \/ x \in k.todo
  PROVE  \E j \in resolvers' : x = j.at \/ x \in j.todo
<1>1. CASE k # l
  BY <1>1 DEF Advance
<1>2. CASE k = l
  <2>1. x \in next.todo
    BY <1>2
  <2>2. next \in resolvers'
    BY <2>1 DEF Advance
  <2>3. QED
    BY <2>1, <2>2
<1>3. QED
  BY <1>1, <1>2

(* The loop enqueues the dependent it takes, unless it leaves the lock      *)
(* closed, and keeps the others in its todo.                                *)
LEMMA LoopRemembers ==
  ASSUME TypeInv, NoneForgotten, ~ QueueIsFull, Resolve, ~ wedged'
  PROVE  NoneForgotten'
<1> SUFFICES ASSUME NEW x \in Tasks, Waits(x)' PROVE Remembered(x)'
  BY DEF NoneForgotten
<1>0. copies \in [Tasks -> Nat]
  BY DEF TypeInv, TypeOK
<1>1. PICK l \in resolvers : StopWaiting(l) \/ \E t \in l.todo : ResolveNext(l, t)
  BY DEF Resolve
<1>2. l \in Resolver
  BY <1>1 DEF TypeInv, TypeOK
<1>3. Waits(x)
  BY <1>1 DEF StopWaiting, ResolveNext, database, Waits, Blocked
<1>4. Remembered(x)
  BY <1>3 DEF NoneForgotten
<1> DEFINE skipped(t) == [l EXCEPT !.todo = @ \ {t}]
           waiting(t) == [l EXCEPT !.todo = @ \ {t}, !.at = t]
           unblocked(t) == [l EXCEPT !.todo = @ \ {t}, !.at = None]
<1>5. PICK t \in Tasks :
        /\ l.at \in {t, None}
        /\ \/ Skip(l, t)
           \/ l.at = None /\ AwaitCheckpoint(l, t)
           \/ Unblock(l, t)
  <2>1. CASE StopWaiting(l)
    BY <1>2, <2>1 DEF StopWaiting, Resolver
  <2>2. CASE \E t \in l.todo : ResolveNext(l, t)
    BY <1>2, <2>2 DEF ResolveNext, Resolver
  <2>3. QED
    BY <1>1, <2>1, <2>2
<1>6. \/ Blocked(t) /\ UNCHANGED copies /\ resolvers' = Advance(l, skipped(t))
      \/ UNCHANGED copies /\ resolvers' = Advance(l, waiting(t))
      \/ /\ UNCHANGED copies /\ resolvers' = Advance(l, unblocked(t))
         /\ status[t] # "queued"
      \/ Enqueue(t) /\ resolvers' = Advance(l, unblocked(t))
  BY <1>5 DEF AwaitCheckpoint, Unblock, Skip, taskQueue
<1>7. /\ skipped(t).todo = l.todo \ {t}
      /\ waiting(t).todo = l.todo \ {t} /\ waiting(t).at = t
      /\ unblocked(t).todo = l.todo \ {t}
  BY <1>2 DEF Resolver
<1> HIDE DEF skipped, waiting, unblocked
<1>8. CASE InHeap(x)
  <2>1. copies[x] \in Nat /\ copies[x] > 0
    BY <1>0, <1>8 DEF InHeap
  <2>2. copies'[x] = copies[x] \/ copies'[x] = copies[x] + 1
    BY <1>0, <1>6 DEF Enqueue
  <2>3. copies'[x] > 0
    BY <2>1, <2>2
  <2>4. QED
    BY <2>3 DEF Remembered, InHeap
<1>9. CASE x = t
  <2>1. CASE Enqueue(t)
    <3>1. copies'[t] > 0
      BY <1>0, <2>1 DEF Enqueue
    <3>2. QED
      BY <1>9, <3>1 DEF Remembered, InHeap
  <2>2. CASE resolvers' = Advance(l, waiting(t))
    <3>1. waiting(t) \in resolvers'
      BY <1>7, <2>2 DEF Advance
    <3>2. QED
      BY <1>7, <1>9, <3>1 DEF Remembered
  <2>3. QED
    BY <1>3, <1>6, <1>9, <2>1, <2>2 DEF Waits
<1>10. CASE x # t /\ ~ InHeap(x)
  <2>1. PICK k \in resolvers : x = k.at \/ x \in k.todo
    BY <1>4, <1>10 DEF Remembered
  <2>2. \E next : next.todo = l.todo \ {t} /\ resolvers' = Advance(l, next)
    BY <1>6, <1>7
  <2>3. \E j \in resolvers' : x = j.at \/ x \in j.todo
    BY <1>5, <1>10, <2>1, <2>2, AdvanceRemembers
  <2>4. QED
    BY <2>3 DEF Remembered
<1>11. QED
  BY <1>8, <1>9, <1>10

LEMMA RememberStep ==
  ASSUME TypeInv, NoneForgotten, ~ QueueIsFull, Next, ~ wedged'
  PROVE  NoneForgotten'
<1> DEFINE Goal == NoneForgotten'
<1> SUFFICES Goal
  OBVIOUS
<1>0. /\ copies \in [Tasks -> Nat]
      /\ status \in [Tasks -> {"none", "queued", "running"} \cup Terminal]
      /\ resolution \in [Tasks -> [Tasks -> {"none", "pending"} \cup Terminal]]
  BY DEF TypeInv, TypeOK
<1>1. ASSUME NEW t \in Tasks, NEW deps \in SUBSET Tasks, NEW from \in Tasks \cup {None},
             Delegate(t, deps, from)
      PROVE  Goal
  <2>1. \A x \in Tasks \ {t} : resolution'[x] = resolution[x]
    BY <1>0, <1>1 DEF Delegate
  <2>2. \A d \in deps : resolution'[t][d] = "pending"
    BY <1>0, <1>1 DEF Delegate
  <2>3. deps # {} => \E d \in Tasks : resolution'[t][d] = "pending" /\ UNCHANGED copies
    BY <1>1, <2>2 DEF Delegate
  <2>4. QED
    BY <1>1, <2>1, <2>3, NewTaskRemembered DEF Delegate
<1>2. ASSUME NEW t \in Tasks, NEW from \in Tasks \cup {None}, DelegateRefused(t, from)
      PROVE  Goal
  BY <1>2, NewTaskRemembered DEF DelegateRefused
<1>3. ASSUME NEW t \in Tasks, Cancel(t) PROVE Goal
  <2>1. \A x \in Tasks \ {t} : copies'[x] = copies[x]
    BY <1>0, <1>3 DEF Cancel, CancelFromQueue, RemoveCopy
  <2>2. QED
    BY <1>3, <2>1, EndRemembers DEF Cancel, Terminal
<1>4. ASSUME NEW t \in Tasks, NEW w \in WorkerIds, SpawnWorker(t, w) PROVE Goal
  <2>1. \A x \in Tasks \ {t} : copies'[x] = copies[x] /\ status'[x] = status[x]
    BY <1>0, <1>4 DEF SpawnWorker, RemoveCopy
  <2>2. status'[t] = "running" /\ UNCHANGED <<resolution, resolvers>>
    BY <1>0, <1>4 DEF SpawnWorker
  <2>3. QED
    BY <2>1, <2>2 DEF NoneForgotten, Waits, Remembered, InHeap, Blocked
<1>5. ASSUME UNCHANGED <<status, resolution, copies, resolvers>> PROVE Goal
  BY <1>5 DEF NoneForgotten, Waits, Remembered, InHeap, Blocked
<1>6. ASSUME NEW w \in WorkerIds, TimeoutFires(w) PROVE Goal
  <2>1. workers[w] \in Tasks
    BY <1>6 DEF TimeoutFires, TypeInv, TypeOK, TimerInv
  <2>2. CASE WorkerFor(workers[w]) # None
    BY <1>6, <2>1, <2>2, EndRemembers DEF TimeoutFires, Terminal, taskQueue
  <2>3. CASE WorkerFor(workers[w]) = None
    BY <1>5, <1>6, <2>3 DEF TimeoutFires, taskQueue
  <2>4. QED
    BY <2>2, <2>3
<1>7. ASSUME NEW w \in WorkerIds, NEW o \in {"completed", "failed"}, WorkerExits(w, o)
      PROVE  Goal
  <2>1. process[w] \in Tasks
    BY <1>7 DEF WorkerExits, TypeInv, TypeOK
  <2>2. CASE WorkerFor(process[w]) # None
    BY <1>7, <2>1, <2>2, EndRemembers DEF WorkerExits, Terminal, taskQueue
  <2>3. CASE WorkerFor(process[w]) = None
    BY <1>5, <1>7, <2>3 DEF WorkerExits, database, taskQueue
  <2>4. QED
    BY <2>2, <2>3
<1>8. CASE FindQueueEmpty \/ SpawnFails \/ \E t \in Tasks : CheckpointSaved(t)
  BY <1>5, <1>8 DEF FindQueueEmpty, SpawnFails, CheckpointSaved, database, taskQueue
<1>9. CASE Resolve
  BY <1>9, LoopRemembers
<1> HIDE DEF Goal
<1>10. QED
  BY <1>1, <1>2, <1>3, <1>4, <1>6, <1>7, <1>8, <1>9 DEF Next

(* The lock that a failed spawn has closed is never opened in the session.  *)
LEMMA WedgedStays == Next /\ ~ wedged' => ~ wedged
BY DEF Next, Delegate, DelegateRefused, Cancel, SpawnWorker, FindQueueEmpty, SpawnFails,
       TimeoutFires, WorkerExits, CheckpointSaved, Resolve, StopWaiting, ResolveNext,
       Skip, AwaitCheckpoint, Unblock, taskQueue

(* A queued task whose dependencies are resolved is in the queue, or a loop *)
(* of resolveDependencies has still to look at it, unless a spawn has left  *)
(* the lock closed or the queue was full.  The first part is the property   *)
(* of the runs; the second says the same without its condition, also when   *)
(* tasks continue from others and loops wait for checkpoints.               *)
THEOREM NothingForgotten ==
  Spec /\ [](~ QueueIsFull) => []NotForgotten /\ [](~ wedged => NoneForgotten)
<1> DEFINE Inv == TypeInv /\ (~ wedged => NoneForgotten)
<1>1. Init => Inv
  BY InitTypes DEF Init, NoneForgotten, Waits
<1>2. Inv /\ ~ QueueIsFull /\ [Next]_vars => Inv'
  <2> SUFFICES ASSUME Inv, ~ QueueIsFull, [Next]_vars PROVE Inv'
    OBVIOUS
  <2>1. TypeInv'
    BY TypeStep
  <2>2. CASE UNCHANGED vars
    BY <2>1, <2>2 DEF vars, database, taskQueue, NoneForgotten, Waits, Remembered, InHeap,
                      Blocked
  <2>3. CASE Next
    BY <2>1, <2>3, WedgedStays, RememberStep
  <2>4. QED
    BY <2>2, <2>3
<1>3. Inv => NotForgotten /\ (~ wedged => NoneForgotten)
  BY DEF NotForgotten, NoneForgotten
<1>4. QED
  BY <1>1, <1>2, <1>3, PTL DEF Spec

-----------------------------------------------------------------------------
(* The pool.  Entries come by SpawnWorker and go by Forget, and both move   *)
(* the count of the monitor with them.                                      *)

Registered == {w \in WorkerIds : workers[w] # None}

PoolInv ==
  /\ \A t \in Tasks : taskToWorker[t] # None => workers[taskToWorker[t]] = t
  /\ IsFiniteSet(Registered)
  /\ workerCount = Cardinality(Registered)

LEMMA PoolCases ==
  ASSUME TypeInv, Next
  PROVE  \/ \E w \in WorkerIds, also \in SUBSET WorkerIds :
              workers[w] \in Tasks /\ Forget(w, also)
         \/ \E t \in Tasks, w \in WorkerIds : SpawnWorker(t, w)
         \/ UNCHANGED <<workers, taskToWorker, workerCount>>
<1> DEFINE Forgets == \E w \in WorkerIds, also \in SUBSET WorkerIds :
                        workers[w] \in Tasks /\ Forget(w, also)
           Spawns == \E t \in Tasks, w \in WorkerIds : SpawnWorker(t, w)
           Same == UNCHANGED <<workers, taskToWorker, workerCount>>
<1> SUFFICES Forgets \/ Spawns \/ Same
  OBVIOUS
<1>0. ASSUME NEW t \in Tasks, WorkerFor(t) # None, NEW also \in SUBSET WorkerIds,
             Forget(WorkerFor(t), also)
      PROVE  Forgets
  BY <1>0, WorkerForType
<1>1. ASSUME NEW t \in Tasks, Cancel(t) PROVE Forgets \/ Same
  <2>1. CASE WorkerFor(t) # None
    BY <1>0, <1>1, <2>1 DEF Cancel
  <2>2. CASE WorkerFor(t) = None
    BY <1>1, <2>2 DEF Cancel
  <2>3. QED
    BY <2>1, <2>2
<1>2. ASSUME NEW w \in WorkerIds, TimeoutFires(w) PROVE Forgets \/ Same
  <2>1. workers[w] \in Tasks
    BY <1>2 DEF TimeoutFires, TimerInv, TypeInv, TypeOK
  <2>2. CASE WorkerFor(workers[w]) # None
    BY <1>0, <1>2, <2>1, <2>2 DEF TimeoutFires
  <2>3. CASE WorkerFor(workers[w]) = None
    BY <1>2, <2>3 DEF TimeoutFires
  <2>4. QED
    BY <2>2, <2>3
<1>3. ASSUME NEW w \in WorkerIds, NEW o \in {"completed", "failed"}, WorkerExits(w, o)
      PROVE  Forgets \/ Same
  <2>1. process[w] \in Tasks
    BY <1>3 DEF WorkerExits, TypeInv, TypeOK
  <2>2. CASE WorkerFor(process[w]) # None
    BY <1>0, <1>3, <2>1, <2>2 DEF WorkerExits
  <2>3. CASE WorkerFor(process[w]) = None
    BY <1>3, <2>3 DEF WorkerExits
  <2>4. QED
    BY <2>2, <2>3
<1>4. ASSUME UNCHANGED pool PROVE Same
  BY <1>4 DEF pool
<1>5. ASSUME NEW t \in Tasks, NEW w \in WorkerIds, SpawnWorker(t, w) PROVE Spawns
  BY <1>5
<1> HIDE DEF Forgets, Spawns, Same
<1>6. CASE \E t \in Tasks, deps \in SUBSET Tasks, from \in Tasks \cup {None} :
             Delegate(t, deps, from)
  BY <1>4, <1>6 DEF Delegate
<1>7. CASE \E t \in Tasks, from \in Tasks \cup {None} : DelegateRefused(t, from)
  BY <1>4, <1>7 DEF DelegateRefused
<1>8. CASE FindQueueEmpty \/ SpawnFails \/ Resolve \/ \E t \in Tasks : CheckpointSaved(t)
  BY <1>4, <1>8 DEF FindQueueEmpty, SpawnFails, Resolve, StopWaiting, ResolveNext,
                    CheckpointSaved
<1>9. QED
  BY <1>1, <1>2, <1>3, <1>5, <1>6, <1>7, <1>8 DEF Next

LEMMA ForgetKeepsPool ==
  ASSUME TypeInv, PoolInv, NEW w \in WorkerIds, workers[w] \in Tasks,
         NEW also, Forget(w, also)
  PROVE  PoolInv'
<1>1. \A t \in Tasks : taskToWorker'[t] # None => workers'[taskToWorker'[t]] = t
  BY DEF Forget, PoolInv, TypeInv, TypeOK
<1>2. Registered' = Registered \ {w} /\ w \in Registered
  BY DEF Registered, Forget, TypeInv, TypeOK
<1>3. IsFiniteSet(Registered') /\ Cardinality(Registered') = Cardinality(Registered) - 1
  BY <1>2, FS_RemoveElement DEF PoolInv
<1>4. Cardinality(Registered) \in Nat /\ Cardinality(Registered) # 0
  BY <1>2, FS_CardinalityType, FS_EmptySet DEF PoolInv
<1>5. workerCount' = Cardinality(Registered')
  BY <1>3, <1>4 DEF Forget, PoolInv
<1>6. QED
  BY <1>1, <1>3, <1>5 DEF PoolInv

LEMMA SpawnKeepsPool ==
  ASSUME TypeInv, PoolInv, NEW t \in Tasks, NEW w \in WorkerIds, SpawnWorker(t, w)
  PROVE  PoolInv'
<1>1. \A x \in Tasks : taskToWorker'[x] # None => workers'[taskToWorker'[x]] = x
  <2> SUFFICES ASSUME NEW x \in Tasks, taskToWorker'[x] # None
               PROVE  workers'[taskToWorker'[x]] = x
    OBVIOUS
  <2>1. CASE x = t
    BY <2>1 DEF SpawnWorker, TypeInv, TypeOK
  <2>2. CASE x # t
    <3>1. taskToWorker'[x] = taskToWorker[x]
      BY <2>2 DEF SpawnWorker, TypeInv, TypeOK
    <3>2. workers[taskToWorker[x]] = x /\ taskToWorker[x] # w
      BY <3>1 DEF PoolInv, SpawnWorker
    <3>3. QED
      BY <3>1, <3>2 DEF SpawnWorker, TypeInv, TypeOK
  <2>3. QED
    BY <2>1, <2>2
<1>2. Registered' = Registered \cup {w} /\ w \notin Registered
  BY DEF Registered, SpawnWorker, TypeInv, TypeOK
<1>3. IsFiniteSet(Registered') /\ Cardinality(Registered') = Cardinality(Registered) + 1
  BY <1>2, FS_AddElement DEF PoolInv
<1>4. workerCount' = Cardinality(Registered')
  BY <1>3 DEF SpawnWorker, PoolInv
<1>5. QED
  BY <1>1, <1>3, <1>4 DEF PoolInv

LEMMA PoolStep == TypeInv /\ PoolInv /\ [Next]_vars => PoolInv'
<1> SUFFICES ASSUME TypeInv, PoolInv, [Next]_vars PROVE PoolInv'
  OBVIOUS
<1>1. CASE UNCHANGED <<workers, taskToWorker, workerCount>>
  BY <1>1 DEF PoolInv, Registered
<1>2. CASE UNCHANGED vars
  BY <1>1, <1>2 DEF vars, pool
<1>3. CASE Next
  BY <1>1, <1>3, PoolCases, ForgetKeepsPool, SpawnKeepsPool
<1>4. QED
  BY <1>2, <1>3

-----------------------------------------------------------------------------
(* The records of a task while no task continues from another.  Then loops  *)
(* of resolveDependencies never wait, so there is at most one, it starts    *)
(* with dependents that are not in the queue, and takes each of them once.  *)

(* continueFrom is empty for tasks that do not exist yet, so NoneContinues  *)
(* can become false but not true.                                           *)
FromInv == \A t \in Tasks : ~ Exists(t) => continueFrom[t] = None

LoopInv ==
  /\ \A l, k \in resolvers : l = k
  /\ \A l \in resolvers : l.at = None
  /\ \A l \in resolvers : \A t \in l.todo : copies[t] = 0

QueueInv ==
  \A t \in Tasks : /\ copies[t] <= 1
                   /\ copies[t] > 0 => t \in indexed /\ status[t] = "queued"

WorkInv ==
  /\ \A t \in Tasks : taskToWorker[t] # None => status[t] = "running" /\ copies[t] = 0
  /\ \A w \in WorkerIds : workers[w] # None =>
       taskToWorker[workers[w]] = w /\ process[w] = workers[w]

SingleInv == LoopInv /\ QueueInv /\ WorkInv

(* What is known before a step in the lemmas below. *)
Before == KeyInv /\ PoolInv /\ SingleInv /\ NoneContinues

LEMMA BeforeTypes ==
  ASSUME Before
  PROVE  /\ TypeInv /\ PoolInv
         /\ copies \in [Tasks -> Nat]
         /\ status \in [Tasks -> {"none", "queued", "running"} \cup Terminal]
         /\ workers \in [WorkerIds -> Tasks \cup {None}]
         /\ process \in [WorkerIds -> Tasks \cup {None}]
         /\ taskToWorker \in [Tasks -> WorkerIds \cup {None}]
         /\ resolvers \in SUBSET Resolver
         /\ indexed \in SUBSET Tasks
  BY DEF Before, KeyInv, TypeInv, TypeOK

(* Nothing makes a loop wait, so external events find none. *)
LEMMA NobodyWaits ==
  ASSUME Before
  PROVE  /\ \A t \in Tasks : Ready(t)
         /\ Settled => resolvers = {}
<1>1. \A t \in Tasks : Ready(t)
  BY DEF Before, NoneContinues, Ready
<1>2. \A l \in resolvers : ~ MustWait(l)
  BY DEF Before, SingleInv, LoopInv, MustWait
<1>3. QED
  BY <1>1, <1>2 DEF Settled

(* The effect of an enqueue on a task that is not in the queue. *)
LEMMA EnqueueOnce ==
  ASSUME Before, NEW t \in Tasks, copies[t] = 0, Enqueue(t) \/ EnqueueFails
  PROVE  /\ \A x \in Tasks \ {t} : copies'[x] = copies[x]
         /\ copies'[t] \in {0, 1}
         /\ copies'[t] > 0 => t \in indexed'
         /\ indexed \subseteq indexed'
<1>0. copies \in [Tasks -> Nat]
  BY BeforeTypes
<1>1. CASE Enqueue(t)
  BY <1>0, <1>1 DEF Enqueue, Reindex
<1>2. CASE EnqueueFails
  BY <1>0, <1>2 DEF EnqueueFails
<1>3. QED
  BY <1>1, <1>2

(* Removing a task takes its only copy. *)
LEMMA RemoveOnce ==
  ASSUME Before, NEW t \in Tasks, RemoveCopy(t)
  PROVE  /\ copies'[t] = 0 /\ copies[t] > 0
         /\ \A x \in Tasks \ {t} : copies'[x] = copies[x]
         /\ indexed \ {t} \subseteq indexed'
<1>0. copies \in [Tasks -> Nat] /\ copies[t] <= 1
  BY BeforeTypes DEF Before, SingleInv, QueueInv
<1>1. QED
  BY <1>0 DEF RemoveCopy, Reindex

(* A new task, which has no copy and no worker yet. *)
LEMMA NewTaskKeeps ==
  ASSUME Before, NEW t \in Tasks, ~ Exists(t), Settled,
         status' = [status EXCEPT ![t] = "queued"],
         \/ Enqueue(t) \/ EnqueueFails
         \/ UNCHANGED <<copies, indexed>>,
         UNCHANGED <<pool, resolvers>>
  PROVE  SingleInv'
<1>1. copies[t] = 0 /\ taskToWorker[t] = None
  <2>1. ~ InHeap(t)
    BY DEF Before, KeyInv, TablesInv, EngagedInv, Engaged
  <2>2. QED
    BY <2>1, BeforeTypes DEF InHeap, Exists, Before, SingleInv, WorkInv
<1>2. /\ \A x \in Tasks \ {t} : copies'[x] = copies[x]
      /\ copies'[t] \in {0, 1} /\ (copies'[t] > 0 => t \in indexed')
      /\ indexed \subseteq indexed'
  <2>1. CASE Enqueue(t) \/ EnqueueFails
    BY <1>1, <2>1, EnqueueOnce
  <2>2. CASE UNCHANGED <<copies, indexed>>
    BY <1>1, <2>2
  <2>3. QED
    BY <2>1, <2>2
<1>3. status'[t] = "queued" /\ \A x \in Tasks \ {t} : status'[x] = status[x]
  BY BeforeTypes
<1>4. LoopInv'
  BY NobodyWaits DEF LoopInv
<1>5. QueueInv'
  BY <1>2, <1>3 DEF Before, SingleInv, QueueInv
<1>6. WorkInv'
  BY <1>1, <1>2, <1>3 DEF Before, SingleInv, WorkInv, pool
<1>7. QED
  BY <1>4, <1>5, <1>6 DEF SingleInv

(* The end of a task that leaves the queue and the pool with it. *)
LEMMA EndKeepsSingle ==
  ASSUME Before, NEW t \in Tasks, NEW o \in Terminal, TaskEnds(t, o), Settled,
         copies'[t] = 0, taskToWorker'[t] = None,
         \A x \in Tasks \ {t} : /\ copies'[x] = copies[x]
                                /\ x \in indexed => x \in indexed'
                                /\ taskToWorker'[x] = taskToWorker[x],
         \A v \in WorkerIds : workers'[v] # None =>
            workers'[v] = workers[v] /\ workers[v] # t /\ process'[v] = process[v]
  PROVE  SingleInv'
<1>1. \A x \in Tasks \ {t} : status'[x] = status[x]
  BY BeforeTypes DEF TaskEnds
<1>2. \A x \in Tasks : copies[x] = 0 => copies'[x] = 0
  OBVIOUS
<1>3. LoopInv'
  <2>1. resolvers = {}
    BY NobodyWaits
  <2>2. \A x \in PendingDependents(t) : x \in Tasks /\ copies[x] = 0
    <3>1. \A x \in PendingDependents(t) : x \in Tasks /\ Blocked(x)
      BY DEF PendingDependents, Blocked
    <3>2. \A x \in PendingDependents(t) : ~ InHeap(x)
      BY <3>1 DEF Before, KeyInv, TablesInv, EngagedInv, Engaged
    <3>3. QED
      BY <3>1, <3>2, BeforeTypes DEF InHeap
  <2>3. \/ resolvers' = {}
        \/ resolvers' = {[of |-> t, todo |-> PendingDependents(t), at |-> None]}
    BY <2>1 DEF TaskEnds
  <2>4. QED
    BY <1>2, <2>2, <2>3 DEF LoopInv
<1>4. QueueInv'
  BY <1>1 DEF Before, SingleInv, QueueInv
<1>5. WorkInv'
  <2>1. ASSUME NEW x \in Tasks, taskToWorker'[x] # None
        PROVE  status'[x] = "running" /\ copies'[x] = 0
    BY <1>1, <2>1 DEF Before, SingleInv, WorkInv
  <2>2. ASSUME NEW v \in WorkerIds, workers'[v] # None
        PROVE  taskToWorker'[workers'[v]] = v /\ process'[v] = workers'[v]
    <3>1. workers'[v] = workers[v] /\ workers[v] \in Tasks \ {t} /\ process'[v] = process[v]
      BY <2>2, BeforeTypes
    <3>2. taskToWorker[workers[v]] = v /\ process[v] = workers[v]
      BY <2>2, <3>1 DEF Before, SingleInv, WorkInv
    <3>3. QED
      BY <3>1, <3>2
  <2>3. QED
    BY <2>1, <2>2 DEF WorkInv
<1>6. QED
  BY <1>3, <1>4, <1>5 DEF SingleInv

(* The worker that the pool finds for a task is the one that works for it. *)
LEMMA WorkerIsOwn ==
  ASSUME Before, NEW t \in Tasks, WorkerFor(t) # None
  PROVE  /\ WorkerFor(t) \in WorkerIds
         /\ workers[WorkerFor(t)] = t
         /\ process[WorkerFor(t)] = t
         /\ taskToWorker[t] = WorkerFor(t)
         /\ status[t] = "running"
         /\ copies[t] = 0
<1>1. WorkerFor(t) \in WorkerIds /\ taskToWorker[t] = WorkerFor(t)
      /\ workers[WorkerFor(t)] # None
  BY BeforeTypes DEF WorkerFor
<1>2. workers[WorkerFor(t)] = t
  BY <1>1 DEF Before, PoolInv
<1>3. QED
  BY <1>1, <1>2 DEF Before, SingleInv, WorkInv

(* No worker of a task can be overlooked. *)
LEMMA NoWorkerNoEntry ==
  ASSUME Before, NEW t \in Tasks, WorkerFor(t) = None
  PROVE  taskToWorker[t] = None /\ \A v \in WorkerIds : workers[v] # t
<1>1. taskToWorker[t] = None
  BY BeforeTypes DEF WorkerFor, Before, PoolInv
<1>2. \A v \in WorkerIds : workers[v] # t
  BY <1>1 DEF Before, SingleInv, WorkInv
<1>3. QED
  BY <1>1, <1>2

(* Forgetting the worker of a task leaves the other entries alone. *)
LEMMA ForgetOwn ==
  ASSUME Before, NEW t \in Tasks, WorkerFor(t) # None, NEW also, Forget(WorkerFor(t), also)
  PROVE  /\ taskToWorker'[t] = None
         /\ \A x \in Tasks \ {t} : taskToWorker'[x] = taskToWorker[x]
         /\ \A v \in WorkerIds : workers'[v] # None =>
              workers'[v] = workers[v] /\ workers[v] # t /\ v # WorkerFor(t)
<1>1. workers[WorkerFor(t)] = t /\ taskToWorker[t] = WorkerFor(t)
      /\ WorkerFor(t) \in WorkerIds
  BY WorkerIsOwn
<1>2. /\ taskToWorker' = [taskToWorker EXCEPT ![t] = None]
      /\ workers' = [workers EXCEPT ![WorkerFor(t)] = None]
  BY <1>1 DEF Forget
<1>3. /\ taskToWorker'[t] = None
      /\ \A x \in Tasks \ {t} : taskToWorker'[x] = taskToWorker[x]
  BY <1>2, BeforeTypes
<1>4. \A v \in WorkerIds : workers'[v] # None => workers'[v] = workers[v] /\ v # WorkerFor(t)
  BY <1>2, BeforeTypes
<1>5. \A v \in WorkerIds : workers[v] = t => v = WorkerFor(t)
  BY <1>1 DEF Before, SingleInv, WorkInv
<1>6. QED
  BY <1>3, <1>4, <1>5

LEMMA CancelKeeps ==
  ASSUME Before, NEW t \in Tasks, Cancel(t)
  PROVE  SingleInv'
<1>1. /\ copies'[t] = 0
      /\ \A x \in Tasks \ {t} : copies'[x] = copies[x] /\ (x \in indexed => x \in indexed')
  <2>1. CASE t \in indexed
    BY <2>1, RemoveOnce DEF Cancel, CancelFromQueue
  <2>2. CASE t \notin indexed
    <3>1. UNCHANGED <<copies, indexed>>
      BY <2>2 DEF Cancel, CancelFromQueue
    <3>2. copies[t] = 0
      BY <2>2, BeforeTypes DEF Before, SingleInv, QueueInv
    <3>3. QED
      BY <3>1, <3>2
  <2>3. QED
    BY <2>1, <2>2
<1>2. /\ taskToWorker'[t] = None
      /\ \A x \in Tasks \ {t} : taskToWorker'[x] = taskToWorker[x]
      /\ \A v \in WorkerIds : workers'[v] # None => workers'[v] = workers[v] /\ workers[v] # t
  <2>1. CASE WorkerFor(t) # None
    BY <2>1, ForgetOwn DEF Cancel
  <2>2. CASE WorkerFor(t) = None
    BY <2>2, NoWorkerNoEntry DEF Cancel
  <2>3. QED
    BY <2>1, <2>2
<1>3. process' = process /\ Settled /\ TaskEnds(t, "cancelled")
  BY DEF Cancel
<1>4. "cancelled" \in Terminal
  BY DEF Terminal
<1>5. QED
  BY <1>1, <1>2, <1>3, <1>4, EndKeepsSingle

LEMMA ExitKeeps ==
  ASSUME Before, NEW w \in WorkerIds, NEW o \in {"completed", "failed"}, WorkerExits(w, o)
  PROVE  SingleInv'
<1> DEFINE t == process[w]
<1>1. t \in Tasks /\ Settled /\ UNCHANGED <<copies, indexed>>
  BY BeforeTypes DEF WorkerExits, taskQueue
<1>2. process' = [process EXCEPT ![w] = None]
  BY DEF WorkerExits
<1>3. CASE WorkerFor(t) # None
  <2>1. TaskEnds(t, o) /\ Forget(WorkerFor(t), {}) /\ o \in Terminal
    BY <1>3 DEF WorkerExits, Terminal
  <2>2. copies[t] = 0
    BY <1>1, <1>3, WorkerIsOwn
  <2>3. /\ taskToWorker'[t] = None
        /\ \A x \in Tasks \ {t} : taskToWorker'[x] = taskToWorker[x]
        /\ \A v \in WorkerIds : workers'[v] # None => workers'[v] = workers[v] /\ workers[v] # t
    BY <1>1, <1>3, <2>1, ForgetOwn
  <2>4. \A v \in WorkerIds : workers'[v] # None => process'[v] = process[v]
    <3>1. \A v \in WorkerIds : workers'[v] # None => process[v] # t
      BY <2>3 DEF Before, SingleInv, WorkInv
    <3>2. QED
      BY <1>2, <3>1, BeforeTypes
  <2> HIDE DEF t
  <2>5. QED
    BY <1>1, <2>1, <2>2, <2>3, <2>4, EndKeepsSingle
<1>4. CASE WorkerFor(t) = None
  <2>1. UNCHANGED <<workers, taskToWorker, status, resolvers>>
    BY <1>4 DEF WorkerExits, database
  <2>2. \A v \in WorkerIds : workers[v] # t
    BY <1>1, <1>4, NoWorkerNoEntry
  <2>3. workers[w] = None
    BY <2>2 DEF Before, SingleInv, WorkInv
  <2>4. \A v \in WorkerIds : workers[v] # None => process'[v] = process[v]
    BY <1>2, <2>3, BeforeTypes
  <2>5. QED
    BY <1>1, <2>1, <2>4 DEF Before, SingleInv, LoopInv, QueueInv, WorkInv
<1>5. QED
  BY <1>3, <1>4

LEMMA TimeoutKeeps ==
  ASSUME Before, NEW w \in WorkerIds, TimeoutFires(w)
  PROVE  SingleInv'
<1> DEFINE t == workers[w]
<1>1. t \in Tasks /\ Settled /\ UNCHANGED <<copies, indexed, process>>
  BY BeforeTypes DEF TimeoutFires, taskQueue, TypeInv, TimerInv
<1>2. CASE WorkerFor(t) # None
  <2>1. TaskEnds(t, "failed") /\ Forget(WorkerFor(t), {w}) /\ "failed" \in Terminal
    BY <1>2 DEF TimeoutFires, Terminal
  <2>2. copies[t] = 0
    BY <1>1, <1>2, WorkerIsOwn
  <2>3. /\ taskToWorker'[t] = None
        /\ \A x \in Tasks \ {t} : taskToWorker'[x] = taskToWorker[x]
        /\ \A v \in WorkerIds : workers'[v] # None => workers'[v] = workers[v] /\ workers[v] # t
    BY <1>1, <1>2, <2>1, ForgetOwn
  <2> HIDE DEF t
  <2>4. QED
    BY <1>1, <2>1, <2>2, <2>3, EndKeepsSingle
<1>3. CASE WorkerFor(t) = None
  BY <1>1, <1>3 DEF TimeoutFires, Before, SingleInv, LoopInv, QueueInv, WorkInv
<1>4. QED
  BY <1>2, <1>3

LEMMA SpawnKeeps ==
  ASSUME Before, NEW t \in Tasks, NEW w \in WorkerIds, SpawnWorker(t, w)
  PROVE  SingleInv' /\ status[t] = "queued"
<1>1. /\ copies'[t] = 0 /\ copies[t] > 0
      /\ \A x \in Tasks \ {t} : copies'[x] = copies[x]
      /\ indexed \ {t} \subseteq indexed'
  BY RemoveOnce DEF SpawnWorker
<1>2. status[t] = "queued" /\ taskToWorker[t] = None
  BY <1>1, BeforeTypes DEF Before, SingleInv, QueueInv, WorkInv
<1>3. \A v \in WorkerIds : workers[v] # t
  BY <1>2 DEF Before, SingleInv, WorkInv
<1>4. /\ status'[t] = "running" /\ \A x \in Tasks \ {t} : status'[x] = status[x]
      /\ taskToWorker'[t] = w /\ \A x \in Tasks \ {t} : taskToWorker'[x] = taskToWorker[x]
      /\ workers'[w] = t /\ process'[w] = t
      /\ \A v \in WorkerIds \ {w} : workers'[v] = workers[v] /\ process'[v] = process[v]
  BY BeforeTypes DEF SpawnWorker
<1>5. LoopInv'
  BY NobodyWaits DEF SpawnWorker, LoopInv
<1>6. QueueInv'
  BY <1>1, <1>4 DEF Before, SingleInv, QueueInv
<1>7. WorkInv'
  <2>1. \A x \in Tasks : taskToWorker'[x] # None => status'[x] = "running" /\ copies'[x] = 0
    BY <1>1, <1>4 DEF Before, SingleInv, WorkInv
  <2>2. ASSUME NEW v \in WorkerIds, workers'[v] # None
        PROVE  taskToWorker'[workers'[v]] = v /\ process'[v] = workers'[v]
    <3>1. CASE v = w
      BY <1>4, <3>1
    <3>2. CASE v # w
      <4>1. workers[v] \in Tasks \ {t} /\ workers'[v] = workers[v]
        BY <1>3, <1>4, <2>2, <3>2, BeforeTypes
      <4>2. taskToWorker[workers[v]] = v /\ process[v] = workers[v]
        BY <4>1, BeforeTypes DEF Before, SingleInv, WorkInv
      <4>3. QED
        BY <1>4, <3>2, <4>1, <4>2
    <3>3. QED
      BY <3>1, <3>2
  <2>3. QED
    BY <2>1, <2>2 DEF WorkInv
<1>8. QED
  BY <1>2, <1>5, <1>6, <1>7 DEF SingleInv

(* The only loop takes its next dependent, which is not in the queue. *)
LEMMA LoopKeeps ==
  ASSUME Before, Resolve
  PROVE  SingleInv'
<1>1. PICK l \in resolvers : StopWaiting(l) \/ \E t \in l.todo : ResolveNext(l, t)
  BY DEF Resolve
<1>2. l \in Resolver /\ l.at = None /\ resolvers = {l}
  BY <1>1, BeforeTypes DEF Before, SingleInv, LoopInv
<1>3. PICK t \in l.todo : ResolveNext(l, t)
  BY <1>1, <1>2 DEF StopWaiting
<1>4. t \in Tasks /\ copies[t] = 0
  BY <1>2, <1>3 DEF Resolver, Before, SingleInv, LoopInv
<1>5. UNCHANGED <<status, taskToWorker, workers, process>>
  BY <1>3 DEF ResolveNext, database, pool
<1> DEFINE skipped == [l EXCEPT !.todo = @ \ {t}]
           unblocked == [l EXCEPT !.todo = @ \ {t}, !.at = None]
<1>6. ASSUME NEW next \in {skipped, unblocked}
      PROVE  /\ next.todo = l.todo \ {t} /\ next.at = None
             /\ Advance(l, next) \subseteq {next}
  BY <1>2 DEF Resolver, Advance
<1> HIDE DEF skipped, unblocked
<1>7. resolvers' \subseteq {skipped} \/ resolvers' \subseteq {unblocked}
  <2>1. CASE Skip(l, t)
    BY <1>6, <2>1 DEF Skip, skipped
  <2>2. CASE Unblock(l, t)
    <3>1. resolvers' = Advance(l, unblocked) \/ resolvers' = resolvers \ {l}
      BY <2>2 DEF Unblock, unblocked
    <3>2. QED
      BY <1>2, <1>6, <3>1
  <2>3. QED
    BY <1>3, <1>4, <2>1, <2>2, NobodyWaits DEF ResolveNext, AwaitCheckpoint
<1>8. ASSUME \A x \in Tasks \ {t} : copies'[x] = copies[x]
      PROVE  LoopInv'
  <2>1. \A k \in resolvers' : k.todo = l.todo \ {t} /\ k.at = None
    BY <1>6, <1>7
  <2>2. \A x \in l.todo \ {t} : copies'[x] = 0
    BY <1>2, <1>8 DEF Resolver, Before, SingleInv, LoopInv
  <2>3. QED
    BY <1>7, <2>1, <2>2 DEF LoopInv
<1>9. CASE UNCHANGED <<copies, indexed>>
  <2>1. \A x \in Tasks \ {t} : copies'[x] = copies[x]
    BY <1>9
  <2>2. LoopInv'
    BY <1>8, <2>1
  <2>3. QED
    BY <1>5, <1>9, <2>2 DEF Before, SingleInv, QueueInv, WorkInv
<1>10. CASE Unblock(l, t) /\ status[t] = "queued" /\ Enqueue(t)
  <2>1. /\ \A x \in Tasks \ {t} : copies'[x] = copies[x]
        /\ copies'[t] \in {0, 1} /\ (copies'[t] > 0 => t \in indexed')
        /\ indexed \subseteq indexed'
    BY <1>4, <1>10, EnqueueOnce
  <2>2. LoopInv'
    BY <1>8, <2>1
  <2>3. QueueInv'
    BY <1>5, <1>10, <2>1 DEF Before, SingleInv, QueueInv
  <2>4. taskToWorker[t] = None
    BY <1>4, <1>10 DEF Before, SingleInv, WorkInv
  <2>5. WorkInv'
    BY <1>5, <2>1, <2>4 DEF Before, SingleInv, WorkInv
  <2>6. QED
    BY <2>2, <2>3, <2>5 DEF SingleInv
<1>11. QED
  <2>1. UNCHANGED taskQueue \/ (Unblock(l, t) /\ status[t] = "queued" /\ Enqueue(t))
    BY <1>3 DEF ResolveNext, Skip, AwaitCheckpoint, Unblock
  <2>2. QED
    BY <1>9, <1>10, <2>1 DEF taskQueue

LEMMA SingleStep ==
  ASSUME Before, Next
  PROVE  SingleInv'
<1> DEFINE Goal == SingleInv'
<1> SUFFICES Goal
  OBVIOUS
<1>1. CASE \E t \in Tasks, deps \in SUBSET Tasks, from \in Tasks \cup {None} :
             Delegate(t, deps, from)
  BY <1>1, NewTaskKeeps DEF Delegate
<1>2. CASE \E t \in Tasks, from \in Tasks \cup {None} : DelegateRefused(t, from)
  BY <1>2, NewTaskKeeps DEF DelegateRefused
<1>3. CASE \E t \in Tasks : Cancel(t)
  BY <1>3, CancelKeeps
<1>4. CASE \E t \in Tasks, w \in WorkerIds : SpawnWorker(t, w)
  BY <1>4, SpawnKeeps
<1>5. ASSUME NEW w \in WorkerIds, TimeoutFires(w) PROVE Goal
  BY <1>5, TimeoutKeeps
<1>6. ASSUME NEW w \in WorkerIds, NEW o \in {"completed", "failed"}, WorkerExits(w, o)
      PROVE  Goal
  BY <1>6, ExitKeeps
<1>7. CASE Resolve
  BY <1>7, LoopKeeps
<1>8. ASSUME UNCHANGED <<status, copies, indexed, pool, resolvers>> PROVE Goal
  BY <1>8 DEF Before, SingleInv, LoopInv, QueueInv, WorkInv, pool
<1>9. CASE FindQueueEmpty \/ \E t \in Tasks : CheckpointSaved(t)
  BY <1>8, <1>9 DEF FindQueueEmpty, CheckpointSaved, database, taskQueue
<1>10. CASE SpawnFails
  <2>1. UNCHANGED <<status, copies, pool, resolvers>> /\ indexed \subseteq indexed'
    BY <1>10 DEF SpawnFails, Reindex, database
  <2>2. QED
    BY <2>1 DEF Before, SingleInv, LoopInv, QueueInv, WorkInv, pool
<1> HIDE DEF Goal
<1>11. QED
  BY <1>1, <1>2, <1>3, <1>4, <1>5, <1>6, <1>7, <1>9, <1>10 DEF Next

LEMMA NoneContinuedBefore ==
  TypeInv /\ FromInv /\ [Next]_vars => FromInv' /\ (NoneContinues' => NoneContinues)
<1> SUFFICES ASSUME TypeInv, FromInv, [Next]_vars
             PROVE  FromInv' /\ (NoneContinues' => NoneContinues)
  OBVIOUS
<1>1. CASE UNCHANGED vars
  BY <1>1 DEF vars, database, FromInv, Exists, NoneContinues
<1>2. CASE Next
  BY <1>2, TasksStay DEF FromInv, NoneContinues
<1>3. QED
  BY <1>1, <1>2

(* The inductive invariant. *)
RecordsInv == KeyInv /\ PoolInv /\ FromInv /\ (NoneContinues => SingleInv)

LEMMA RecordsInvariant == Spec => []RecordsInv
<1>1. Init => RecordsInv
  <2> SUFFICES ASSUME Init PROVE PoolInv /\ FromInv /\ SingleInv /\ KeyInv
    BY DEF RecordsInv
  <2>1. KeyInv
    <3>1. EngagedInv
      BY DEF Init, EngagedInv, Engaged, InHeap, HasProcess
    <3>2. RowsInv /\ TodoInv
      BY DEF Init, RowsInv, TodoInv
    <3>3. QED
      BY <3>1, <3>2, InitTypes DEF KeyInv, TablesInv
  <2>2. PoolInv
    <3>1. Registered = {} /\ workerCount = 0
      BY DEF Init, Registered
    <3>2. QED
      BY <3>1, FS_EmptySet DEF Init, PoolInv
  <2>3. FromInv
    BY DEF Init, FromInv
  <2>4. SingleInv
    BY DEF Init, SingleInv, LoopInv, QueueInv, WorkInv
  <2>5. QED
    BY <2>1, <2>2, <2>3, <2>4
<1>2. RecordsInv /\ [Next]_vars => RecordsInv'
  <2> SUFFICES ASSUME RecordsInv, [Next]_vars PROVE RecordsInv'
    OBVIOUS
  <2>1. KeyInv' /\ PoolInv'
    BY TypeStep, KeyStep, PoolStep DEF RecordsInv, KeyInv
  <2>2. CASE UNCHANGED vars
    BY <2>1, <2>2 DEF vars, database, taskQueue, pool, RecordsInv, FromInv, Exists,
       NoneContinues, SingleInv, LoopInv, QueueInv, WorkInv
  <2>3. CASE Next
    <3>1. FromInv' /\ (NoneContinues' => NoneContinues)
      BY NoneContinuedBefore DEF RecordsInv, KeyInv
    <3>2. NoneContinues => SingleInv'
      BY <2>3, SingleStep DEF RecordsInv, Before
    <3>3. QED
      BY <2>1, <3>1, <3>2 DEF RecordsInv
  <2>4. QED
    BY <2>2, <2>3
<1>3. QED
  BY <1>1, <1>2, PTL DEF Spec

(* However exits, timeouts, cancellations and a second process of a task    *)
(* race, the monitor counts exactly the workers the pool knows, and while   *)
(* no task continues from another the two maps are inverse to each other    *)
(* and every entry has a live process.                                      *)
THEOREM PoolAgreesAlways == Spec => []PoolAgrees
<1>1. RecordsInv => PoolAgrees
  BY DEF RecordsInv, KeyInv, TypeInv, TypeOK, TimerInv, PoolInv, Registered, SingleInv,
         WorkInv, PoolAgrees
<1>2. QED
  BY <1>1, RecordsInvariant, PTL

(* "Prevents re-queuing already processed tasks" (docs/FEATURES.md:53): as  *)
(* long as no task continues from another, a task is in the queue at most   *)
(* once and not while a worker is registered for it, and it has at most one *)
(* worker.                                                                  *)
THEOREM NothingRunsTwice == Spec => []NoDuplicateProcessing
<1>1. ASSUME RecordsInv, NoneContinues, NEW t \in Tasks
      PROVE  /\ copies[t] <= 1
             /\ InHeap(t) => status[t] = "queued" /\ taskToWorker[t] = None
             /\ Cardinality({w \in WorkerIds : workers[w] = t}) <= 1
  <2> DEFINE own == {w \in WorkerIds : workers[w] = t}
  <2>1. copies[t] <= 1 /\ (InHeap(t) => status[t] = "queued" /\ taskToWorker[t] = None)
    BY <1>1 DEF RecordsInv, SingleInv, QueueInv, WorkInv, InHeap
  <2>2. \A w \in own : taskToWorker[t] = w
    BY <1>1 DEF RecordsInv, SingleInv, WorkInv
  <2>3. own = {} \/ own = {taskToWorker[t]}
    BY <2>2
  <2>4. Cardinality(own) \in {0, 1}
    BY <2>3, FS_EmptySet, FS_Singleton
  <2>5. QED
    BY <2>1, <2>4
<1>2. RecordsInv => NoDuplicateProcessing
  BY <1>1 DEF NoDuplicateProcessing
<1>3. QED
  BY <1>2, RecordsInvariant, PTL

-----------------------------------------------------------------------------
(* Outcomes.  Only a task that has not ended is ended, only a task that has *)
(* not been there is delegated, and nothing else writes outcomes or rows.   *)

LEMMA OutcomeCases ==
  ASSUME Before, Next
  PROVE  \/ \E t \in Tasks, o \in Terminal :
              TaskEnds(t, o) /\ status[t] \in {"queued", "running"}
         \/ \E t \in Tasks :
              /\ status[t] = "none"
              /\ status' = [status EXCEPT ![t] = "queued"]
              /\ \A x \in Tasks \ {t} : resolution'[x] = resolution[x]
              /\ \A d \in Tasks : resolution'[t][d] \notin Terminal
         \/ /\ UNCHANGED resolution
            /\ \A d \in Tasks : \/ status'[d] = status[d]
                                \/ status[d] = "queued" /\ status'[d] = "running"
<1> DEFINE Ended == \E t \in Tasks, o \in Terminal :
                      TaskEnds(t, o) /\ status[t] \in {"queued", "running"}
           Created == \E t \in Tasks :
                        /\ status[t] = "none"
                        /\ status' = [status EXCEPT ![t] = "queued"]
                        /\ \A x \in Tasks \ {t} : resolution'[x] = resolution[x]
                        /\ \A d \in Tasks : resolution'[t][d] \notin Terminal
           Moved == /\ UNCHANGED resolution
                    /\ \A d \in Tasks : \/ status'[d] = status[d]
                                        \/ status[d] = "queued" /\ status'[d] = "running"
<1> SUFFICES Ended \/ Created \/ Moved
  OBVIOUS
<1>1. ASSUME NEW t \in Tasks, NEW deps \in SUBSET Tasks, NEW from \in Tasks \cup {None},
             Delegate(t, deps, from)
      PROVE  Created
  <2>1. status[t] = "none" /\ status' = [status EXCEPT ![t] = "queued"]
    BY <1>1 DEF Delegate, Exists
  <2>2. \A x \in Tasks \ {t} : resolution'[x] = resolution[x]
    BY <1>1 DEF Delegate, Before, KeyInv, TypeInv, TypeOK
  <2>3. \A d \in Tasks : resolution'[t][d] \in {"pending", "none"}
    BY <1>1 DEF Delegate, Before, KeyInv, TypeInv, TypeOK
  <2>4. QED
    BY <2>1, <2>2, <2>3 DEF Terminal
<1>2. ASSUME NEW t \in Tasks, NEW from \in Tasks \cup {None}, DelegateRefused(t, from)
      PROVE  Created
  BY <1>2 DEF DelegateRefused, Exists, Terminal, Before, KeyInv, TablesInv, RowsInv
<1>3. ASSUME NEW t \in Tasks, Cancel(t) PROVE Ended
  BY <1>3 DEF Cancel, Terminal
<1>4. ASSUME NEW t \in Tasks, NEW w \in WorkerIds, SpawnWorker(t, w) PROVE Moved
  <2>1. status[t] = "queued"
    BY <1>4, SpawnKeeps
  <2>2. QED
    BY <1>4, <2>1, BeforeTypes DEF SpawnWorker
<1>5. ASSUME NEW w \in WorkerIds, TimeoutFires(w) PROVE Ended \/ Moved
  <2>1. workers[w] \in Tasks
    BY <1>5, BeforeTypes DEF TimeoutFires, TypeInv, TimerInv
  <2>2. CASE WorkerFor(workers[w]) # None
    BY <1>5, <2>1, <2>2, WorkerIsOwn DEF TimeoutFires, Terminal
  <2>3. CASE WorkerFor(workers[w]) = None
    BY <1>5, <2>3 DEF TimeoutFires
  <2>4. QED
    BY <2>2, <2>3
<1>6. ASSUME NEW w \in WorkerIds, NEW o \in {"completed", "failed"}, WorkerExits(w, o)
      PROVE  Ended \/ Moved
  <2>1. process[w] \in Tasks
    BY <1>6, BeforeTypes DEF WorkerExits
  <2>2. CASE WorkerFor(process[w]) # None
    BY <1>6, <2>1, <2>2, WorkerIsOwn DEF WorkerExits, Terminal
  <2>3. CASE WorkerFor(process[w]) = None
    BY <1>6, <2>3 DEF WorkerExits, database
  <2>4. QED
    BY <2>2, <2>3
<1>7. CASE FindQueueEmpty \/ SpawnFails \/ Resolve \/ \E t \in Tasks : CheckpointSaved(t)
  BY <1>7 DEF FindQueueEmpty, SpawnFails, Resolve, StopWaiting, ResolveNext,
              CheckpointSaved, database
<1> HIDE DEF Ended, Created, Moved
<1>8. QED
  BY <1>1, <1>2, <1>3, <1>4, <1>5, <1>6, <1>7 DEF Next

(* No late exit, timeout or cancellation overwrites the end of a task, as   *)
(* long as no task continues from another.                                  *)
THEOREM OutcomesAreFinal == Spec => TerminalIsFinal
<1>1. RecordsInv /\ [Next]_vars =>
        [NoneContinues =>
           \A t \in Tasks : status[t] \in Terminal => status'[t] = status[t]]_vars
  <2> SUFFICES ASSUME RecordsInv, Next, NoneContinues, NEW t \in Tasks, status[t] \in Terminal
               PROVE  status'[t] = status[t]
    OBVIOUS
  <2>1. Before
    BY DEF RecordsInv, Before
  <2>2. ASSUME NEW x \in Tasks, NEW o \in Terminal, TaskEnds(x, o),
               status[x] \in {"queued", "running"}
        PROVE  status'[t] = status[t]
    BY <2>1, <2>2, BeforeTypes DEF TaskEnds, Terminal
  <2>3. ASSUME NEW x \in Tasks, status[x] = "none", status' = [status EXCEPT ![x] = "queued"]
        PROVE  status'[t] = status[t]
    BY <2>1, <2>3, BeforeTypes DEF Terminal
  <2>4. QED
    BY <2>1, <2>2, <2>3, OutcomeCases DEF Terminal
<1>2. QED
  BY <1>1, RecordsInvariant, PTL DEF Spec, TerminalIsFinal

LEMMA MatchStep ==
  ASSUME Before, Next, ResolutionMatchesOutcome,
         NEW t \in Tasks, NEW d \in Tasks, resolution'[t][d] \in Terminal
  PROVE  status'[d] = resolution'[t][d]
<1>0. resolution[t][d] \in Terminal => status[d] = resolution[t][d]
  BY DEF ResolutionMatchesOutcome, Before
<1>1. ASSUME NEW x \in Tasks, NEW o \in Terminal, TaskEnds(x, o),
             status[x] \in {"queued", "running"}
      PROVE  status'[d] = resolution'[t][d]
  <2>1. CASE resolution'[t][d] = resolution[t][d]
    <3>1. d # x
      BY <1>0, <1>1, <2>1 DEF Terminal
    <3>2. status'[d] = status[d]
      BY <1>1, <3>1, TaskEndsFrame, BeforeTypes
    <3>3. QED
      BY <1>0, <2>1, <3>2
  <2>2. CASE resolution'[t][d] # resolution[t][d]
    BY <1>1, <2>2, TaskEndsFrame, BeforeTypes
  <2>3. QED
    BY <2>1, <2>2
<1>2. ASSUME NEW x \in Tasks, status[x] = "none", status' = [status EXCEPT ![x] = "queued"],
             \A y \in Tasks \ {x} : resolution'[y] = resolution[y],
             \A y \in Tasks : resolution'[x][y] \notin Terminal
      PROVE  status'[d] = resolution'[t][d]
  <2>1. t # x /\ resolution'[t][d] = resolution[t][d]
    BY <1>2
  <2>2. d # x
    BY <1>0, <1>2, <2>1 DEF Terminal
  <2>3. QED
    BY <1>0, <1>2, <2>1, <2>2, BeforeTypes
<1>3. CASE /\ UNCHANGED resolution
           /\ \A y \in Tasks : \/ status'[y] = status[y]
                               \/ status[y] = "queued" /\ status'[y] = "running"
  BY <1>0, <1>3 DEF Terminal
<1>4. QED
  BY <1>1, <1>2, <1>3, OutcomeCases

(* The rows of a task say how the task ended, as soon as it has and for     *)
(* ever: a failed or cancelled dependency is never taken for a completed    *)
(* one, nor overlooked.  (docs/FEATURES.md:172)                             *)
THEOREM RowsTellOutcomes == ~ DependOnFinished /\ Spec => []RowsMatchOutcome
<1>1. Init => ResolutionMatchesOutcome
  BY DEF Init, ResolutionMatchesOutcome, Terminal
<1>2. RecordsInv /\ ResolutionMatchesOutcome /\ [Next]_vars => ResolutionMatchesOutcome'
  <2> SUFFICES ASSUME RecordsInv, ResolutionMatchesOutcome, [Next]_vars
               PROVE  ResolutionMatchesOutcome'
    OBVIOUS
  <2>1. CASE UNCHANGED vars
    BY <2>1 DEF vars, database, ResolutionMatchesOutcome, NoneContinues
  <2>2. CASE Next
    <3>1. NoneContinues' => NoneContinues
      BY NoneContinuedBefore DEF RecordsInv, KeyInv
    <3>2. NoneContinues => Before
      BY DEF RecordsInv, Before
    <3>3. QED
      BY <2>2, <3>1, <3>2, MatchStep DEF ResolutionMatchesOutcome
  <2>3. QED
    BY <2>1, <2>2
<1>3. Spec => []ResolutionMatchesOutcome
  BY <1>1, <1>2, RecordsInvariant, PTL DEF Spec
<1>4. RowsMatchOutcome <=> ResolutionMatchesOutcome /\ TerminalIsResolved
  BY DEF RowsMatchOutcome
<1>5. QED
  BY <1>3, <1>4, EndsAreResolved, PTL
-----------------------------------------------------------------------------
(* TaskRecovery, for any number of tasks, workers and stops.  The key        *)
(* principle does not survive a restart (recovery enqueues blocked tasks),   *)
(* so what is proved of rows here rests on less: types, and that a task that *)
(* is not there has no rows.  The last theorem says that no task is lost     *)
(* while the queue has room.                                                 *)
USE RecoveryAssumption

RowsTypeInv == TypeInv /\ RowsInv

LEMMA StopTypes ==
  ASSUME TypeInv, Stop
  PROVE  TypeInv'
<1> USE DEF TypeInv, TypeOK, Stop
<1>1. checkpoint' \in [Tasks -> {"none", "capturing", "saved"}]
  OBVIOUS
<1>2. TimerInv'
  BY DEF TimerInv
<1>3. QED
  BY <1>1, <1>2

LEMMA BootTypes ==
  ASSUME TypeInv, NEW aged \in SUBSET Tasks, Boot(aged)
  PROVE  TypeInv'
<1> USE DEF TypeInv, TypeOK
<1>1. status' \in [Tasks -> {"none", "queued", "running"} \cup Terminal]
  BY DEF Boot
<1>2. /\ resolution' \in [Tasks -> [Tasks -> {"none", "pending"} \cup Terminal]]
      /\ checkpoint' \in [Tasks -> {"none", "capturing", "saved"}]
      /\ continueFrom' \in [Tasks -> Tasks \cup {None}]
  BY DEF Boot, CleanUp
<1>3. UNCHANGED <<taskQueue, pool, resolvers>>
  BY DEF Boot
<1>4. QED
  BY <1>1, <1>2, <1>3 DEF taskQueue, pool, TimerInv

(* recover() touches the queue, the lock and the status of stale tasks. *)
LEMMA RecoverCases ==
  ASSUME NEW t \in Tasks, RecoverQueued(t) \/ RecoverRunning(t)
  PROVE  /\ UNCHANGED <<resolution, continueFrom, checkpoint, pool, resolvers, deleted>>
         /\ UNCHANGED status \/ status' = [status EXCEPT ![t] = "failed"]
         /\ \/ UNCHANGED taskQueue
            \/ Enqueue(t) /\ wedged' \in {wedged, SpawnCanFail}
BY DEF RecoverQueued, RecoverRunning, Requeue, FailStale, database

LEMMA RecoverTypes ==
  ASSUME TypeInv, NEW t \in Tasks, RecoverQueued(t) \/ RecoverRunning(t)
  PROVE  TypeInv'
<1>1. QueueTypes' /\ wakeups' \in Nat /\ wedged' \in BOOLEAN
  <2>1. CASE UNCHANGED taskQueue
    BY <2>1 DEF taskQueue, QueueTypes, TypeInv, TypeOK
  <2>2. CASE Enqueue(t) /\ wedged' \in {wedged, SpawnCanFail}
    BY <2>2, EnqueueTypes DEF TypeInv, TypeOK
  <2>3. QED
    BY <2>1, <2>2, RecoverCases
<1>2. status' \in [Tasks -> {"none", "queued", "running"} \cup Terminal]
  BY RecoverCases DEF TypeInv, TypeOK, Terminal
<1>3. UNCHANGED <<resolution, continueFrom, checkpoint, pool, resolvers>>
  BY RecoverCases
<1>4. QED
  BY <1>1, <1>2, <1>3 DEF TypeInv, TypeOK, QueueTypes, TimerInv, pool

LEMMA SessionIsNext == Session => Next
BY DEF Session, Next

(* What a session does to rows: the row of an existing task that is decided *)
(* stays, and a task without rows gets some only by being delegated.        *)
LEMMA SessionKeepsRows ==
  ASSUME RowsTypeInv, Next
  PROVE  /\ RowsInv'
         /\ \A t, d \in Tasks :
              resolution[t][d] \in Terminal => resolution'[t][d] = resolution[t][d]
<1> DEFINE Goal == /\ RowsInv'
                   /\ \A t, d \in Tasks :
                        resolution[t][d] \in Terminal => resolution'[t][d] = resolution[t][d]
<1> SUFFICES Goal
  OBVIOUS
<1>0. \A t \in Tasks : ~ Exists(t)' => ~ Exists(t)
  BY TasksStay DEF RowsTypeInv
<1>1. ASSUME NEW x \in Tasks, NEW deps \in SUBSET Tasks, NEW from \in Tasks \cup {None},
             Delegate(x, deps, from)
      PROVE  Goal
  <2>1. Exists(x)' /\ ~ Exists(x) /\ \A t \in Tasks \ {x} : resolution'[t] = resolution[t]
    BY <1>1 DEF Delegate, Exists, RowsTypeInv, TypeInv, TypeOK
  <2>2. \A d \in Tasks : resolution[x][d] \notin Terminal
    BY <2>1 DEF RowsTypeInv, RowsInv, Terminal
  <2>3. QED
    BY <1>0, <2>1, <2>2 DEF RowsTypeInv, RowsInv
<1>2. ASSUME NEW x \in Tasks, NEW o \in Terminal, TaskEnds(x, o) PROVE Goal
  <2>1. \A t, d \in Tasks : resolution[t][d] # "pending" => resolution'[t][d] = resolution[t][d]
    BY <1>2, TaskEndsFrame DEF RowsTypeInv
  <2>2. QED
    BY <1>0, <2>1 DEF RowsTypeInv, RowsInv, Terminal
<1>3. CASE UNCHANGED resolution
  BY <1>0, <1>3 DEF RowsTypeInv, RowsInv
<1> HIDE DEF Goal
<1>4. \/ \E t \in Tasks, deps \in SUBSET Tasks, from \in Tasks \cup {None} :
           Delegate(t, deps, from)
      \/ \E t \in Tasks, o \in Terminal : TaskEnds(t, o)
      \/ UNCHANGED resolution
  BY StepCases DEF RowsTypeInv
<1>5. QED
  BY <1>1, <1>2, <1>3, <1>4

LEMMA BootKeepsRows ==
  ASSUME RowsTypeInv, NEW aged \in SUBSET Tasks, Boot(aged)
  PROVE  /\ RowsInv'
         /\ \A t, d \in Tasks :
              resolution'[t][d] = resolution[t][d] \/ {t, d} \cap deleted' # {}
<1>1. \A t, d \in Tasks :
        resolution'[t][d] = IF t \in aged \/ d \in aged THEN "none" ELSE resolution[t][d]
  BY DEF Boot, CleanUp
<1>2. \A t \in Tasks : ~ Exists(t)' => t \in aged \/ ~ Exists(t)
  BY DEF Boot, Exists
<1>3. aged \subseteq deleted'
  BY DEF Boot, CleanUp
<1>4. RowsInv'
  BY <1>1, <1>2 DEF RowsTypeInv, RowsInv
<1>5. QED
  BY <1>1, <1>3, <1>4

LEMMA RecoveryInvariant == RSpec => []RowsTypeInv
<1>1. RInit => RowsTypeInv
  BY InitTypes DEF RInit, Init, RowsTypeInv, RowsInv
<1>2. RowsTypeInv /\ [RNext]_allVars => RowsTypeInv'
  <2> SUFFICES ASSUME RowsTypeInv, [RNext]_allVars PROVE TypeInv' /\ RowsInv'
    BY DEF RowsTypeInv
  <2>1. CASE UNCHANGED allVars
    <3>1. UNCHANGED vars
      BY <2>1 DEF allVars
    <3>2. TypeInv'
      BY <3>1, TypeStep DEF RowsTypeInv
    <3>3. RowsInv'
      BY <3>1 DEF vars, database, RowsTypeInv, RowsInv, Exists
    <3>4. QED
      BY <3>2, <3>3
  <2>2. CASE Session
    BY <2>2, SessionIsNext, TypeStep, SessionKeepsRows DEF RowsTypeInv
  <2>3. CASE Stop
    BY <2>3, StopTypes DEF Stop, RowsTypeInv, RowsInv, Exists
  <2>4. CASE Start
    BY <2>4, BootTypes, BootKeepsRows DEF Start, RowsTypeInv
  <2>5. CASE Recover
    <3>1. PICK t \in Tasks : RecoverQueued(t) \/ RecoverRunning(t)
      BY <2>5 DEF Recover
    <3>2. UNCHANGED resolution /\ \A x \in Tasks : ~ Exists(x)' => ~ Exists(x)
      BY <3>1, RecoverCases DEF Exists, RowsTypeInv, TypeInv, TypeOK
    <3>3. QED
      BY <3>1, <3>2, RecoverTypes DEF RowsTypeInv, RowsInv
  <2>6. QED
    BY <2>1, <2>2, <2>3, <2>4, <2>5 DEF RNext
<1>3. QED
  BY <1>1, <1>2, PTL DEF RSpec

(* Memory and database are well typed after any number of stops: recovery   *)
(* leaves no entry of the old session behind that the new one trips over.   *)
THEOREM TypesSurviveRestarts == RSpec => []TypeOK
<1>1. RowsTypeInv => TypeOK
  BY DEF RowsTypeInv, TypeInv
<1>2. QED
  BY <1>1, RecoveryInvariant, PTL

(* A decided dependency row keeps its resolution over any number of stops   *)
(* and recoveries, until one of its tasks is deleted.                       *)
(* (docs/TASK-DEPENDENCIES.md:667)                                          *)
THEOREM RestartsReopenNothing == RSpec => RowsNeverReopen
<1>1. RowsTypeInv /\ [RNext]_allVars =>
        [\A t, d \in Tasks :
           resolution[t][d] \in Terminal =>
             resolution'[t][d] = resolution[t][d] \/ {t, d} \cap deleted' # {}]_allVars
  <2> SUFFICES ASSUME RowsTypeInv, RNext, NEW t \in Tasks, NEW d \in Tasks,
                      resolution[t][d] \in Terminal
               PROVE  resolution'[t][d] = resolution[t][d] \/ {t, d} \cap deleted' # {}
    OBVIOUS
  <2>1. CASE Session
    BY <2>1, SessionIsNext, SessionKeepsRows
  <2>2. CASE Stop
    BY <2>2 DEF Stop
  <2>3. CASE Start
    BY <2>3, BootKeepsRows DEF Start
  <2>4. CASE Recover
    BY <2>4, RecoverCases DEF Recover
  <2>5. QED
    BY <2>1, <2>2, <2>3, <2>4 DEF RNext
<1>2. QED
  BY <1>1, RecoveryInvariant, PTL DEF RSpec, RowsNeverReopen
-----------------------------------------------------------------------------
(* Nothing is lost.  That tasks are enqueued once, which the theorems of a  *)
(* session rest on, fails after a restart.  What is left: the pool agrees   *)
(* with itself, so only the end of a task takes its worker from it, and no  *)
(* task that may run is forgotten.                                          *)

HasWorker(t) == taskToWorker[t] # None
RunsOn(t) == InHeap(t) \/ HasWorker(t)
NoneAbandoned == \A t \in Tasks : status[t] = "running" => RunsOn(t)

LEMMA WorkerIsFound ==
  ASSUME TypeInv, PoolInv, NEW t \in Tasks
  PROVE  /\ WorkerFor(t) = taskToWorker[t]
         /\ HasWorker(t) => workers[taskToWorker[t]] = t
  BY DEF TypeInv, TypeOK, PoolInv, HasWorker, WorkerFor

(* Forgetting the worker of t takes no other task's worker. *)
LEMMA ForgetOnlyOwn ==
  ASSUME TypeInv, PoolInv, NEW t \in Tasks, WorkerFor(t) # None, NEW also,
         Forget(WorkerFor(t), also)
  PROVE  \A x \in Tasks \ {t} : taskToWorker'[x] = taskToWorker[x]
<1>1. workers[WorkerFor(t)] = t
  BY WorkerIsFound DEF HasWorker
<1>2. QED
  BY <1>1 DEF Forget, TypeInv, TypeOK

LEMMA EndAbandonsNone ==
  ASSUME TypeInv, NoneAbandoned, NEW t \in Tasks, NEW o \in Terminal, TaskEnds(t, o),
         \A x \in Tasks \ {t} : /\ copies'[x] = copies[x]
                                /\ taskToWorker'[x] = taskToWorker[x]
  PROVE  NoneAbandoned'
<1>1. status'[t] = o /\ \A x \in Tasks \ {t} : status'[x] = status[x]
  BY TaskEndsFrame
<1>2. QED
  BY <1>1 DEF NoneAbandoned, RunsOn, InHeap, HasWorker, Terminal

LEMMA GrowthAbandonsNone ==
  ASSUME NoneAbandoned, UNCHANGED pool,
         \A x \in Tasks : /\ status'[x] = "running" => status[x] = "running"
                          /\ InHeap(x) => InHeap(x)'
  PROVE  NoneAbandoned'
BY DEF NoneAbandoned, RunsOn, HasWorker, pool

LEMMA EnqueueKeepsHeap ==
  ASSUME TypeInv, NEW t \in Tasks,
         Enqueue(t) \/ EnqueueFails \/ UNCHANGED copies
  PROVE  \A x \in Tasks : InHeap(x) => InHeap(x)'
<1>0. copies \in [Tasks -> Nat]
  BY DEF TypeInv, TypeOK
<1>1. \A x \in Tasks : copies'[x] = copies[x] \/ copies'[x] = copies[x] + 1
  BY <1>0 DEF Enqueue, EnqueueFails
<1>2. QED
  BY <1>0, <1>1 DEF InHeap

LEMMA AbandonStep ==
  ASSUME TypeInv, PoolInv, NoneAbandoned, Next
  PROVE  NoneAbandoned'
<1> DEFINE Goal == NoneAbandoned'
<1> SUFFICES Goal
  OBVIOUS
<1>0. /\ copies \in [Tasks -> Nat]
      /\ status \in [Tasks -> {"none", "queued", "running"} \cup Terminal]
      /\ taskToWorker \in [Tasks -> WorkerIds \cup {None}]
  BY DEF TypeInv, TypeOK
<1>1. ASSUME NEW t \in Tasks, status' = [status EXCEPT ![t] = "queued"], UNCHANGED pool,
             Enqueue(t) \/ EnqueueFails \/ UNCHANGED copies
      PROVE  Goal
  <2>1. \A x \in Tasks : status'[x] = "running" => status[x] = "running"
    BY <1>0, <1>1
  <2>2. QED
    BY <1>1, <2>1, EnqueueKeepsHeap, GrowthAbandonsNone
<1>2. ASSUME NEW t \in Tasks, NEW deps \in SUBSET Tasks, NEW from \in Tasks \cup {None},
             Delegate(t, deps, from)
      PROVE  Goal
  BY <1>1, <1>2 DEF Delegate
<1>3. ASSUME NEW t \in Tasks, NEW from \in Tasks \cup {None}, DelegateRefused(t, from)
      PROVE  Goal
  BY <1>1, <1>3 DEF DelegateRefused
<1>4. ASSUME NEW t \in Tasks, NEW o \in Terminal, TaskEnds(t, o),
             \A x \in Tasks \ {t} : copies'[x] = copies[x],
             \/ WorkerFor(t) # None /\ \E also : Forget(WorkerFor(t), also)
             \/ UNCHANGED taskToWorker
      PROVE  Goal
  <2>1. \A x \in Tasks \ {t} : taskToWorker'[x] = taskToWorker[x]
    BY <1>4, ForgetOnlyOwn
  <2>2. QED
    BY <1>4, <2>1, EndAbandonsNone
<1>5. ASSUME NEW t \in Tasks, Cancel(t) PROVE Goal
  <2>1. \A x \in Tasks \ {t} : copies'[x] = copies[x]
    BY <1>0, <1>5 DEF Cancel, CancelFromQueue, RemoveCopy
  <2>2. QED
    BY <1>4, <1>5, <2>1 DEF Cancel, Terminal
<1>6. ASSUME NEW t \in Tasks, NEW w \in WorkerIds, SpawnWorker(t, w) PROVE Goal
  <2>1. \A x \in Tasks \ {t} : /\ copies'[x] = copies[x] /\ status'[x] = status[x]
                               /\ taskToWorker'[x] = taskToWorker[x]
    BY <1>0, <1>6 DEF SpawnWorker, RemoveCopy
  <2>2. taskToWorker'[t] = w /\ w # None
    BY <1>0, <1>6 DEF SpawnWorker
  <2>3. QED
    BY <2>1, <2>2 DEF NoneAbandoned, RunsOn, InHeap, HasWorker
<1>7. ASSUME UNCHANGED <<status, copies, taskToWorker>> PROVE Goal
  BY <1>7 DEF NoneAbandoned, RunsOn, InHeap, HasWorker
<1>8. ASSUME NEW w \in WorkerIds, TimeoutFires(w) PROVE Goal
  <2>1. workers[w] \in Tasks
    BY <1>8 DEF TimeoutFires, TypeInv, TypeOK, TimerInv
  <2>2. CASE WorkerFor(workers[w]) # None
    BY <1>4, <1>8, <2>1, <2>2 DEF TimeoutFires, Terminal, taskQueue
  <2>3. CASE WorkerFor(workers[w]) = None
    BY <1>7, <1>8, <2>3 DEF TimeoutFires, taskQueue
  <2>4. QED
    BY <2>2, <2>3
<1>9. ASSUME NEW w \in WorkerIds, NEW o \in {"completed", "failed"}, WorkerExits(w, o)
      PROVE  Goal
  <2>1. process[w] \in Tasks
    BY <1>9 DEF WorkerExits, TypeInv, TypeOK
  <2>2. CASE WorkerFor(process[w]) # None
    BY <1>4, <1>9, <2>1, <2>2 DEF WorkerExits, Terminal, taskQueue
  <2>3. CASE WorkerFor(process[w]) = None
    BY <1>7, <1>9, <2>3 DEF WorkerExits, database, taskQueue
  <2>4. QED
    BY <2>2, <2>3
<1>10. CASE FindQueueEmpty \/ SpawnFails \/ \E t \in Tasks : CheckpointSaved(t)
  BY <1>7, <1>10 DEF FindQueueEmpty, SpawnFails, CheckpointSaved, database, taskQueue, pool
<1>11. CASE Resolve
  <2>1. PICK l \in resolvers : StopWaiting(l) \/ \E t \in l.todo : ResolveNext(l, t)
    BY <1>11 DEF Resolve
  <2>2. l \in Resolver
    BY <2>1 DEF TypeInv, TypeOK
  <2>3. UNCHANGED <<status, pool>>
    BY <2>1 DEF StopWaiting, ResolveNext, database
  <2>4. UNCHANGED copies \/ \E t \in Tasks : Enqueue(t)
    BY <2>1, <2>2 DEF StopWaiting, ResolveNext, Skip, AwaitCheckpoint, Unblock, taskQueue,
                      Resolver
  <2>5. \A x \in Tasks : InHeap(x) => InHeap(x)'
    BY <2>4, EnqueueKeepsHeap DEF InHeap
  <2>6. QED
    BY <2>3, <2>5, GrowthAbandonsNone
<1> HIDE DEF Goal
<1>12. QED
  BY <1>2, <1>3, <1>5, <1>6, <1>8, <1>9, <1>10, <1>11 DEF Next

(* The keys of taskIndex are tasks in the heap, so a task that recover()    *)
(* finds there will be run.                                                 *)
IndexInv == \A t \in indexed : InHeap(t)

LEMMA ReindexKeeps ==
  ASSUME NEW sure, Reindex(sure) PROVE IndexInv'
BY DEF Reindex, IndexInv, InHeap

LEMMA IndexStep ==
  ASSUME IndexInv, Next
  PROVE  IndexInv'
<1> DEFINE Goal == IndexInv'
<1> SUFFICES Goal
  OBVIOUS
<1>1. CASE UNCHANGED <<copies, indexed>>
  BY <1>1 DEF IndexInv, InHeap
<1>2. ASSUME NEW t \in Tasks, Enqueue(t) \/ EnqueueFails \/ RemoveCopy(t)
      PROVE  Goal
  BY <1>1, <1>2, ReindexKeeps DEF Enqueue, EnqueueFails, RemoveCopy
<1>3. ASSUME NEW t \in Tasks, NEW deps \in SUBSET Tasks, NEW from \in Tasks \cup {None},
             Delegate(t, deps, from)
      PROVE  Goal
  BY <1>1, <1>2, <1>3 DEF Delegate
<1>4. ASSUME NEW t \in Tasks, NEW from \in Tasks \cup {None}, DelegateRefused(t, from)
      PROVE  Goal
  BY <1>2, <1>4 DEF DelegateRefused
<1>5. ASSUME NEW t \in Tasks, Cancel(t) PROVE Goal
  BY <1>1, <1>2, <1>5 DEF Cancel, CancelFromQueue
<1>6. ASSUME NEW t \in Tasks, NEW w \in WorkerIds, SpawnWorker(t, w) PROVE Goal
  BY <1>2, <1>6 DEF SpawnWorker
<1>7. CASE SpawnFails
  BY <1>7, ReindexKeeps DEF SpawnFails
<1>8. CASE \/ FindQueueEmpty
           \/ \E t \in Tasks : CheckpointSaved(t)
           \/ \E w \in WorkerIds : TimeoutFires(w) \/ \E o \in {"completed", "failed"} :
                                                        WorkerExits(w, o)
  BY <1>1, <1>8 DEF FindQueueEmpty, CheckpointSaved, TimeoutFires, WorkerExits, taskQueue
<1>9. CASE Resolve
  <2>1. PICK l \in resolvers : StopWaiting(l) \/ \E t \in l.todo : ResolveNext(l, t)
    BY <1>9 DEF Resolve
  <2>2. UNCHANGED <<copies, indexed>> \/ \E sure : Reindex(sure)
    BY <2>1 DEF StopWaiting, ResolveNext, Skip, AwaitCheckpoint, Unblock, Enqueue, taskQueue
  <2>3. QED
    BY <1>1, <2>2, ReindexKeeps
<1> HIDE DEF Goal
<1>10. QED
  BY <1>3, <1>4, <1>5, <1>6, <1>7, <1>8, <1>9 DEF Next

(* What recover() has still to come to, besides queue, pool and loops. *)
QueuedKept == \A t \in Tasks : Waits(t) => Remembered(t) \/ t \in queuedResult
RunningKept == \A t \in Tasks : status[t] = "running" => RunsOn(t) \/ t \in runningResult
Kept == QueuedKept /\ RunningKept

(* A start leaves the statuses of queued and running tasks alone, and both  *)
(* lists name all of them.                                                  *)
LEMMA BootKeeps ==
  ASSUME NEW aged \in SUBSET Tasks, Boot(aged)
  PROVE  Kept'
<1>1. \A t \in Tasks : status'[t] \in {"queued", "running"} => status'[t] = status[t]
  BY DEF Boot
<1>2. QED
  BY <1>1 DEF Boot, Kept, QueuedKept, RunningKept, Waits

(* A run that starts during recovery gives a worker to the task it takes.   *)
LEMMA SpawnKeepsLists ==
  ASSUME TypeInv, Kept, UNCHANGED lists,
         NEW t \in Tasks, NEW w \in WorkerIds, SpawnWorker(t, w)
  PROVE  Kept'
<1>0. /\ copies \in [Tasks -> Nat]
      /\ status \in [Tasks -> {"none", "queued", "running"} \cup Terminal]
      /\ taskToWorker \in [Tasks -> WorkerIds \cup {None}]
  BY DEF TypeInv, TypeOK
<1>1. \A x \in Tasks \ {t} : /\ copies'[x] = copies[x] /\ status'[x] = status[x]
                             /\ taskToWorker'[x] = taskToWorker[x]
  BY <1>0 DEF SpawnWorker, RemoveCopy
<1>2. /\ status'[t] = "running" /\ taskToWorker'[t] = w /\ w # None
      /\ UNCHANGED <<resolution, resolvers>>
  BY <1>0 DEF SpawnWorker
<1>3. QueuedKept'
  BY <1>1, <1>2 DEF Kept, QueuedKept, Waits, Blocked, Remembered, InHeap, lists
<1>4. RunningKept'
  BY <1>1, <1>2 DEF Kept, RunningKept, RunsOn, InHeap, HasWorker, lists
<1>5. QED
  BY <1>3, <1>4 DEF Kept

(* recover() strikes a task off its list when the task is in the queue or   *)
(* has been failed.                                                         *)
LEMMA RecoverKeeps ==
  ASSUME TypeInv, IndexInv, Kept, ~ QueueIsFull,
         NEW t \in Tasks, RecoverQueued(t) \/ RecoverRunning(t)
  PROVE  Kept'
<1>0. /\ copies \in [Tasks -> Nat]
      /\ status \in [Tasks -> {"none", "queued", "running"} \cup Terminal]
  BY DEF TypeInv, TypeOK
<1>1. /\ UNCHANGED <<resolution, pool, resolvers>>
      /\ UNCHANGED copies \/ Enqueue(t)
      /\ UNCHANGED status \/ status' = [status EXCEPT ![t] = "failed"]
  BY RecoverCases DEF taskQueue
<1>2. \A x \in Tasks : InHeap(x) => InHeap(x)'
  BY <1>1, EnqueueKeepsHeap
<1>3. InHeap(t)' \/ status'[t] = "failed"
  <2>1. CASE Requeue(t)
    <3>1. CASE t \in indexed
      BY <1>2, <3>1 DEF IndexInv
    <3>2. CASE Enqueue(t)
      BY <1>0, <3>2 DEF Enqueue, InHeap
    <3>3. QED
      BY <2>1, <3>1, <3>2 DEF Requeue
  <2>2. CASE FailStale(t)
    BY <1>0, <2>2 DEF FailStale
  <2>3. QED
    BY <2>1, <2>2 DEF RecoverQueued, RecoverRunning
<1>4. \A x \in Tasks \ {t} : /\ x \in queuedResult => x \in queuedResult'
                             /\ x \in runningResult => x \in runningResult'
                             /\ status'[x] = status[x]
  BY <1>0, <1>1 DEF RecoverQueued, RecoverRunning
<1>5. QueuedKept'
  <2> SUFFICES ASSUME NEW x \in Tasks, Waits(x)'
               PROVE  Remembered(x)' \/ x \in queuedResult'
    BY DEF QueuedKept
  <2>1. CASE x = t
    BY <1>3, <2>1 DEF Waits, Remembered
  <2>2. CASE x # t
    <3>1. Remembered(x) \/ x \in queuedResult
      BY <1>1, <1>4, <2>2 DEF Waits, Blocked, Kept, QueuedKept
    <3>2. QED
      BY <1>1, <1>2, <1>4, <2>2, <3>1 DEF Remembered
  <2>3. QED
    BY <2>1, <2>2
<1>6. RunningKept'
  <2> SUFFICES ASSUME NEW x \in Tasks, status'[x] = "running"
               PROVE  RunsOn(x)' \/ x \in runningResult'
    BY DEF RunningKept
  <2>1. CASE x = t
    BY <1>3, <2>1 DEF RunsOn
  <2>2. CASE x # t
    <3>1. RunsOn(x) \/ x \in runningResult
      BY <1>4, <2>2 DEF Kept, RunningKept
    <3>2. QED
      BY <1>1, <1>2, <1>4, <2>2, <3>1 DEF RunsOn, HasWorker, pool
  <2>3. QED
    BY <2>1, <2>2
<1>7. QED
  BY <1>5, <1>6 DEF Kept

(* When recovery is over, or would be if the lock were not lost, both lists *)
(* are empty and a step of the session keeps what there is.                 *)
LEMMA SessionKeeps ==
  ASSUME TypeInv, PoolInv, Kept, ~ wedged, ~ QueueIsFull, Session, ~ wedged'
  PROVE  Kept'
<1>1. UNCHANGED lists
  BY DEF Session, recoveryVars
<1>2. CASE \E t \in Tasks, w \in WorkerIds : SpawnWorker(t, w)
  BY <1>1, <1>2, SpawnKeepsLists
<1>3. CASE ~ Recovering /\ Next
  <2>1. queuedResult = {} /\ runningResult = {}
    BY <1>3 DEF Recovering
  <2>2. NoneForgotten /\ NoneAbandoned
    BY <2>1 DEF Kept, QueuedKept, RunningKept, NoneForgotten, NoneAbandoned
  <2>3. NoneForgotten' /\ NoneAbandoned'
    BY <1>3, <2>2, RememberStep, AbandonStep
  <2>4. QED
    BY <2>3 DEF Kept, QueuedKept, RunningKept, NoneForgotten, NoneAbandoned
<1>4. QED
  BY <1>2, <1>3 DEF Session

LostInv == TypeInv /\ PoolInv /\ IndexInv /\ (up /\ ~ wedged => Kept)

(* Over any number of stops, also during recovery, and whatever continues   *)
(* from what, as long as the queue is never full: while the server is up    *)
(* and no failed spawn has left the lock closed, a queued task that is not  *)
(* blocked is in the queue or in a loop of resolveDependencies, a running   *)
(* task has a worker or waits in the queue for one, or recover() has still  *)
(* to come to the task.  (docs/FEATURES.md:48)                              *)
THEOREM NothingLostEver == RSpec /\ [](~ QueueIsFull) => []NothingLost
<1>1. RInit => LostInv
  <2> SUFFICES ASSUME RInit PROVE LostInv
    OBVIOUS
  <2>1. Registered = {} /\ workerCount = 0
    BY DEF RInit, Init, Registered
  <2>2. PoolInv
    BY <2>1, FS_EmptySet DEF RInit, Init, PoolInv
  <2>3. QED
    BY <2>2, InitTypes DEF RInit, Init, LostInv, IndexInv, Kept, QueuedKept, RunningKept, Waits
<1>2. LostInv /\ ~ QueueIsFull /\ [RNext]_allVars => LostInv'
  <2> SUFFICES ASSUME LostInv, ~ QueueIsFull, [RNext]_allVars PROVE LostInv'
    OBVIOUS
  <2>1. CASE UNCHANGED allVars
    <3>1. UNCHANGED vars /\ UNCHANGED <<up, queuedResult, runningResult>>
      BY <2>1 DEF allVars, recoveryVars, lists
    <3>2. TypeInv' /\ PoolInv'
      BY <3>1, TypeStep, PoolStep DEF LostInv
    <3>3. QED
      BY <3>1, <3>2 DEF vars, database, taskQueue, pool, LostInv, IndexInv, Kept, QueuedKept,
         RunningKept, Waits, Remembered, InHeap, Blocked, RunsOn, HasWorker
  <2>2. CASE Session
    <3>1. TypeInv' /\ PoolInv' /\ IndexInv'
      BY <2>2, SessionIsNext, TypeStep, PoolStep, IndexStep DEF LostInv
    <3>2. ~ wedged' => ~ wedged
      BY <2>2, SessionIsNext, WedgedStays
    <3>3. UNCHANGED up
      BY <2>2 DEF Session, recoveryVars
    <3>4. up' /\ ~ wedged' => Kept'
      BY <2>2, <3>2, <3>3, SessionKeeps DEF LostInv
    <3>5. QED
      BY <3>1, <3>4 DEF LostInv
  <2>3. CASE Stop
    <3>1. Registered' = {} /\ workerCount' = 0
      BY <2>3 DEF Stop, Registered
    <3>2. PoolInv'
      BY <2>3, <3>1, FS_EmptySet DEF Stop, PoolInv
    <3>3. IndexInv' /\ ~ up'
      BY <2>3 DEF Stop, IndexInv
    <3>4. QED
      BY <2>3, <3>2, <3>3, StopTypes DEF LostInv
  <2>4. CASE Start
    <3>1. PICK aged \in SUBSET Tasks : Boot(aged)
      BY <2>4 DEF Start
    <3>2. PoolInv' /\ IndexInv'
      BY <3>1 DEF Boot, taskQueue, pool, PoolInv, Registered, IndexInv, InHeap, LostInv
    <3>3. QED
      BY <3>1, <3>2, BootTypes, BootKeeps DEF LostInv
  <2>5. CASE Recover
    <3>1. PICK t \in Tasks : RecoverQueued(t) \/ RecoverRunning(t)
      BY <2>5 DEF Recover
    <3>2. UNCHANGED pool /\ (UNCHANGED taskQueue \/ Enqueue(t))
      BY <3>1, RecoverCases
    <3>3. PoolInv'
      BY <3>2 DEF pool, PoolInv, Registered, LostInv
    <3>4. IndexInv'
      BY <3>2, ReindexKeeps DEF Enqueue, taskQueue, IndexInv, InHeap, LostInv
    <3>5. up /\ ~ wedged
      BY <3>1 DEF RecoverQueued, RecoverRunning, Recovering
    <3>6. QED
      BY <3>1, <3>3, <3>4, <3>5, RecoverTypes, RecoverKeeps DEF LostInv
  <2>6. QED
    BY <2>1, <2>2, <2>3, <2>4, <2>5 DEF RNext
<1>3. LostInv => NothingLost
  <2> SUFFICES ASSUME LostInv, up, ~ wedged PROVE NothingLost
    BY DEF NothingLost
  <2>1. \A t \in Tasks : HasWorker(t) => WorkerFor(t) # None
    BY WorkerIsFound DEF LostInv, HasWorker
  <2>2. QED
    BY <2>1 DEF NothingLost, LostInv, Kept, QueuedKept, RunningKept, RunsOn
<1>4. QED
  BY <1>1, <1>2, <1>3, PTL DEF RSpec
=============================================================================
