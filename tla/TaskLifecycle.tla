--------------------------- MODULE TaskLifecycle ---------------------------
(***************************************************************************)
(* The life of tasks in one server session: delegation with dependencies,  *)
(* the queue, the spawning of workers, their exits, timeouts and           *)
(* cancellations, and the resolution of dependencies that unblocks tasks.  *)
(*                                                                         *)
(* One action is what the event loop does for one external event: a user   *)
(* request, a process exit, a timer, the end of a git command.  Database   *)
(* and queue operations are synchronous, so the chain of events that such  *)
(* an event sets off (TaskCompleted, TaskDependencyResolved, TaskUnblocked,*)
(* TaskQueued, ...) runs to its end before the next external event, with   *)
(* one exception: resolveDependencies may stop in the middle of its loop   *)
(* to wait for the checkpoint of a task that a dependent continues from.   *)
(* `resolvers' holds the loops in progress, and the actions that start     *)
(* with an external event are guarded by Settled.                          *)
(*                                                                         *)
(* Abstractions: priorities (a run of processNextTask takes any task of    *)
(* the queue), prompts and outputs, and the answer of the resource monitor *)
(* beyond its worker count.  A run that is refused by the monitor or the   *)
(* spawn delay leaves its wake-up pending (see WorkerSpawning).            *)
(***************************************************************************)
EXTENDS Naturals, FiniteSets, Functions

CONSTANTS
  Tasks,             \* task ids (a retry or a resumption is a new task)
  WorkerIds,         \* process ids, taken afresh by every spawn
  None,              \* no task / no worker
  MaxWorkers,        \* maxWorkers of the resource monitor
  MaxQueueSize,      \* maxQueueSize of the task queue
  Continuing,        \* tasks that may be delegated with continueFrom
  DependOnFinished,  \* may a dependency name a task that has already ended?
  SpawnCanFail       \* may workerPool.spawn return an error?

ASSUME ConstantsAssumption ==
  /\ None \notin Tasks
  /\ None \notin WorkerIds
  /\ MaxWorkers \in Nat
  /\ MaxQueueSize \in Nat
  /\ Continuing \subseteq Tasks
  /\ DependOnFinished \in BOOLEAN
  /\ SpawnCanFail \in BOOLEAN

VARIABLES
  (* the database *)
  status,        \* status[t]: column status of t, or "none" if t has no row
  resolution,    \* resolution[t][d]: the row "t depends on d", or "none"
  continueFrom,  \* continueFrom[t]: the task t continues from, or None
  checkpoint,    \* checkpoint[t]: "none", "capturing" or "saved"
  (* the queue and the spawn path *)
  copies,        \* copies[t]: how often t is in the heap
  indexed,       \* the keys of taskIndex
  wakeups,       \* runs of processNextTask that are still to happen
  wedged,        \* a failed spawn has left the spawn lock closed for ever
  (* the worker pool *)
  process,       \* process[w]: the task that live process w works for
  workers,       \* workers[w]: the task of the pool's entry for w
  taskToWorker,  \* taskToWorker[t]: the pool's worker for t
  timers,        \* workers whose timeout timer is armed
  workerCount,   \* workerCount of the resource monitor
  (* the dependency handler *)
  resolvers      \* the loops of resolveDependencies in progress

database == <<status, resolution, continueFrom, checkpoint>>
taskQueue == <<copies, indexed, wakeups, wedged>>
pool == <<process, workers, taskToWorker, timers, workerCount>>
vars == <<database, taskQueue, pool, resolvers>>

Terminal == {"completed", "failed", "cancelled"}
Resolver == [of : Tasks, todo : SUBSET Tasks, at : Tasks \cup {None}]

TypeOK ==
  /\ status \in [Tasks -> {"none", "queued", "running"} \cup Terminal]
  /\ resolution \in [Tasks -> [Tasks -> {"none", "pending"} \cup Terminal]]
  /\ continueFrom \in [Tasks -> Tasks \cup {None}]
  /\ checkpoint \in [Tasks -> {"none", "capturing", "saved"}]
  /\ copies \in [Tasks -> Nat]
  /\ indexed \in SUBSET Tasks
  /\ wakeups \in Nat
  /\ wedged \in BOOLEAN
  /\ process \in [WorkerIds -> Tasks \cup {None}]
  /\ workers \in [WorkerIds -> Tasks \cup {None}]
  /\ taskToWorker \in [Tasks -> WorkerIds \cup {None}]
  /\ timers \in SUBSET WorkerIds
  /\ workerCount \in Nat
  /\ resolvers \in SUBSET Resolver

Init ==
  /\ status = [t \in Tasks |-> "none"]
  /\ resolution = [t \in Tasks |-> [d \in Tasks |-> "none"]]
  /\ continueFrom = [t \in Tasks |-> None]
  /\ checkpoint = [t \in Tasks |-> "none"]
  /\ copies = [t \in Tasks |-> 0]
  /\ indexed = {}
  /\ wakeups = 0
  /\ wedged = FALSE
  /\ process = [w \in WorkerIds |-> None]
  /\ workers = [w \in WorkerIds |-> None]
  /\ taskToWorker = [t \in Tasks |-> None]
  /\ timers = {}
  /\ workerCount = 0
  /\ resolvers = {}

-----------------------------------------------------------------------------
(* The dependency table. *)

(* Mutant: one resolved dependency is enough. *)
BlockedByAll(t) ==
  /\ \E d \in Tasks : resolution[t][d] = "pending"
  /\ \A d \in Tasks : resolution[t][d] \in {"none", "pending"}

(* isBlocked *)
Blocked(t) == \E d \in Tasks : resolution[t][d] = "pending"

PendingDependents(d) == {t \in Tasks : resolution[t][d] = "pending"}

(* Mutant: the resolution is always 'completed'. *)
ResolveAsCompleted(d, outcome) ==
  resolution' = [t \in Tasks |->
    IF resolution[t][d] = "pending"
    THEN [resolution[t] EXCEPT ![d] = "completed"] ELSE resolution[t]]

(* Mutant: the update names the dependents but not the dependency. *)
ResolveByDependent(d, outcome) ==
  resolution' = [t \in Tasks |->
    IF resolution[t][d] # "none"
    THEN [x \in Tasks |-> IF resolution[t][x] = "none" THEN "none" ELSE outcome]
    ELSE resolution[t]]

(* resolveDependenciesBatch *)
ResolveBatch(d, outcome) ==
  resolution' = [t \in Tasks |->
    IF resolution[t][d] = "pending"
    THEN [resolution[t] EXCEPT ![d] = outcome] ELSE resolution[t]]

-----------------------------------------------------------------------------
(* The queue. *)

QueueIsFull == SumFunctionOnSet(copies, Tasks) >= MaxQueueSize

(* The keys of taskIndex after an operation that certainly leaves `sure'.   *)
(* A task that is in the heap more than once loses its key when one copy    *)
(* leaves; the swaps that restore the heap order may write it anew.         *)
Reindex(sure) ==
  indexed' \in {keys \in SUBSET {t \in Tasks : copies'[t] > 0} : sure \subseteq keys}

(* enqueue, and the run of processNextTask that TaskQueued starts.  The     *)
(* queue does not look for another copy of the task.                        *)
Enqueue(t) ==
  /\ ~ QueueIsFull
  /\ copies' = [copies EXCEPT ![t] = @ + 1]
  /\ Reindex(indexed \cup {t})
  /\ wakeups' = wakeups + 1

EnqueueFails == QueueIsFull /\ UNCHANGED <<copies, indexed, wakeups>>

(* One copy of t leaves the heap. *)
RemoveCopy(t) ==
  /\ copies[t] > 0
  /\ copies' = [copies EXCEPT ![t] = @ - 1]
  /\ Reindex(indexed \ {t})

-----------------------------------------------------------------------------
(* Events that end a task. *)

(* The handlers of TaskCompleted, TaskFailed, TaskCancelled and TaskTimeout: *)
(* the status is stored, the rows of the dependents are resolved, and the   *)
(* loop over the dependents starts.                                         *)
TaskEnds(t, outcome) ==
  /\ status' = [status EXCEPT ![t] = outcome]
  /\ ResolveBatch(t, outcome)
  /\ resolvers' = IF PendingDependents(t) = {} THEN resolvers
                  ELSE resolvers \cup
                         {[of |-> t, todo |-> PendingDependents(t), at |-> None]}
  /\ UNCHANGED continueFrom

(* CheckpointHandler starts to capture (not after TaskTimeout). *)
CaptureCheckpoint(t) ==
  checkpoint' = [checkpoint EXCEPT ![t] = IF @ = "saved" THEN "saved" ELSE "capturing"]

(* waitForCheckpoint finds the checkpoint, or is not called. *)
Ready(t) == continueFrom[t] # None => checkpoint[continueFrom[t]] = "saved"

(* No resolver loop can run on before the next external event. *)
MustWait(l) == l.at # None /\ ~ Ready(l.at)
Settled == \A l \in resolvers : MustWait(l)

-----------------------------------------------------------------------------
(* Requests of the user. *)

Exists(t) == status[t] # "none"

(* TaskManager.delegate: PersistenceHandler saves the task,                 *)
(* DependencyHandler adds the rows, QueueHandler enqueues it if it has none *)
(* that is pending.  A queue that is full loses the task.                   *)
Delegate(t, deps, from) ==
  /\ Settled
  /\ ~ Exists(t)
  /\ \A d \in deps : Exists(d) /\ (status[d] \in Terminal => DependOnFinished)
  /\ from # None => t \in Continuing /\ from \in deps
  /\ status' = [status EXCEPT ![t] = "queued"]
  /\ continueFrom' = [continueFrom EXCEPT ![t] = from]
  /\ resolution' = [resolution EXCEPT ![t] =
                      [d \in Tasks |-> IF d \in deps THEN "pending" ELSE "none"]]
  /\ IF deps # {} THEN UNCHANGED <<copies, indexed, wakeups>>
                  ELSE Enqueue(t) \/ EnqueueFails
  /\ UNCHANGED <<checkpoint, wedged, pool, resolvers>>

(* delegate with dependencies that are refused (a missing target, the chain *)
(* too long, a database error): the task is saved and, having no rows, is   *)
(* enqueued at once.                                                        *)
DelegateRefused(t, from) ==
  /\ Settled
  /\ ~ Exists(t)
  /\ from # None => t \in Continuing /\ Exists(from)
  /\ status' = [status EXCEPT ![t] = "queued"]
  /\ continueFrom' = [continueFrom EXCEPT ![t] = from]
  /\ Enqueue(t) \/ EnqueueFails
  /\ UNCHANGED <<resolution, checkpoint, wedged, pool, resolvers>>

(* Mutant: the monitor's count is decremented twice. *)
ForgetTwice(w, alsoDisarmed) ==
  /\ workers' = [workers EXCEPT ![w] = None]
  /\ taskToWorker' = [taskToWorker EXCEPT ![workers[w]] = None]
  /\ timers' = timers \ ({w} \cup alsoDisarmed)
  /\ workerCount' = IF workerCount > 2 THEN workerCount - 2 ELSE 0

(* The pool forgets worker w: the common part of kill and                   *)
(* handleWorkerCompletion.  A timer that has just fired is disarmed too.    *)
Forget(w, alsoDisarmed) ==
  /\ workers' = [workers EXCEPT ![w] = None]
  /\ taskToWorker' = [taskToWorker EXCEPT ![workers[w]] = None]
  /\ timers' = timers \ ({w} \cup alsoDisarmed)
  /\ workerCount' = IF workerCount > 0 THEN workerCount - 1 ELSE 0

(* The pool's worker for task t, or None. *)
WorkerFor(t) ==
  IF taskToWorker[t] # None /\ workers[taskToWorker[t]] # None
  THEN taskToWorker[t] ELSE None

(* TaskCancellationRequested: QueueHandler takes the task out of the queue, *)
(* WorkerHandler checks the status, kills the worker (which gets a SIGTERM  *)
(* and exits later) and emits TaskCancelled.                                *)
CancelFromQueue(t) ==
  IF t \in indexed THEN RemoveCopy(t) ELSE UNCHANGED <<copies, indexed>>

Cancel(t) ==
  /\ Settled
  /\ status[t] \in {"queued", "running"}
  /\ CancelFromQueue(t)
  /\ IF WorkerFor(t) # None
     THEN Forget(WorkerFor(t), {})
     ELSE UNCHANGED <<workers, taskToWorker, timers, workerCount>>
  /\ TaskEnds(t, "cancelled")
  /\ CaptureCheckpoint(t)
  /\ UNCHANGED <<wakeups, wedged, process>>

-----------------------------------------------------------------------------
(* Runs of processNextTask. *)

(* A run takes a task and spawns a worker for it. *)
SpawnWorker(t, w) ==
  /\ Settled
  /\ ~ wedged
  /\ wakeups > 0
  /\ workerCount < MaxWorkers
  /\ process[w] = None /\ workers[w] = None
  /\ RemoveCopy(t)
  /\ wakeups' = wakeups - 1
  /\ process' = [process EXCEPT ![w] = t]
  /\ workers' = [workers EXCEPT ![w] = t]
  /\ taskToWorker' = [taskToWorker EXCEPT ![t] = w]
  /\ timers' \in {timers, timers \cup {w}}
  /\ workerCount' = workerCount + 1
  /\ status' = [status EXCEPT ![t] = "running"]
  /\ UNCHANGED <<resolution, continueFrom, checkpoint, wedged, resolvers>>

(* Mutant: the run is not used up. *)
FindQueueEmptyAgain ==
  /\ Settled
  /\ ~ wedged
  /\ \A t \in Tasks : copies[t] = 0
  /\ wakeups' = wakeups - 1
  /\ UNCHANGED <<database, copies, indexed, wedged, pool, resolvers>>

(* A run finds the queue empty (after a cancellation). *)
FindQueueEmpty ==
  /\ Settled
  /\ ~ wedged
  /\ wakeups > 0
  /\ \A t \in Tasks : copies[t] = 0
  /\ wakeups' = wakeups - 1
  /\ UNCHANGED <<database, copies, indexed, wedged, pool, resolvers>>

(* A run takes a task, spawning fails, and the task is put back by the      *)
(* RequeueTask that the run awaits inside the spawn lock: no run gets past  *)
(* the lock again (WorkerSpawning, LockAlwaysReleased).                     *)
SpawnFails ==
  /\ Settled
  /\ SpawnCanFail
  /\ ~ wedged
  /\ wakeups > 0
  /\ UNCHANGED copies
  /\ \E t \in Tasks : copies[t] > 0 /\ Reindex(indexed \cup {t})
  /\ wedged' = TRUE
  /\ UNCHANGED <<wakeups, database, pool, resolvers>>

-----------------------------------------------------------------------------
(* Worker processes. *)

(* The process of w exits and handleWorkerCompletion runs for its task.     *)
(* A process ended by a signal counts as successful: its exit code is null, *)
(* which becomes 0.  The worker is looked up by task, so it need not be w.  *)
WorkerExits(w, outcome) ==
  /\ Settled
  /\ process[w] # None
  /\ process' = [process EXCEPT ![w] = None]
  /\ IF WorkerFor(process[w]) # None
     THEN /\ Forget(WorkerFor(process[w]), {})
          /\ TaskEnds(process[w], outcome)
          /\ CaptureCheckpoint(process[w])
     ELSE UNCHANGED <<workers, taskToWorker, timers, workerCount, database, resolvers>>
  /\ UNCHANGED taskQueue

(* The timeout timer of worker w fires and handleWorkerTimeout runs for its *)
(* task.  TaskTimeout captures no checkpoint.                               *)
TimeoutFires(w) ==
  /\ Settled
  /\ w \in timers
  /\ IF WorkerFor(workers[w]) # None
     THEN /\ Forget(WorkerFor(workers[w]), {w})
          /\ TaskEnds(workers[w], "failed")
     ELSE /\ timers' = timers \ {w}
          /\ UNCHANGED <<workers, taskToWorker, workerCount, status, resolution,
                         continueFrom, resolvers>>
  /\ UNCHANGED <<checkpoint, process, taskQueue>>

(* The git commands have ended: the checkpoint is stored and                *)
(* CheckpointCreated emitted, or an error is logged.                        *)
CheckpointSaved(t) ==
  /\ Settled
  /\ checkpoint[t] = "capturing"
  /\ checkpoint' \in {[checkpoint EXCEPT ![t] = c] : c \in {"saved", "none"}}
  /\ UNCHANGED <<status, resolution, continueFrom, taskQueue, pool, resolvers>>

-----------------------------------------------------------------------------
(* The loop of resolveDependencies. *)

Advance(l, next) == (resolvers \ {l}) \cup (IF next.todo = {} /\ next.at = None
                                           THEN {} ELSE {next})

(* Mutant: the first dependent that is still blocked ends the loop. *)
SkipAll(l, t) ==
  /\ Blocked(t)
  /\ resolvers' = resolvers \ {l}
  /\ UNCHANGED taskQueue

(* t has other pending dependencies: go on with the next dependent. *)
Skip(l, t) ==
  /\ Blocked(t)
  /\ resolvers' = Advance(l, [l EXCEPT !.todo = @ \ {t}])
  /\ UNCHANGED taskQueue

(* t continues from a task whose checkpoint is not there yet. *)
AwaitCheckpoint(l, t) ==
  /\ ~ Blocked(t) /\ ~ Ready(t)
  /\ resolvers' = Advance(l, [l EXCEPT !.todo = @ \ {t}, !.at = t])
  /\ UNCHANGED taskQueue

(* Mutant: the status is not checked again before the task is enqueued. *)
UnblockStale(l, t) ==
  /\ ~ wedged /\ Enqueue(t)
  /\ resolvers' = Advance(l, [l EXCEPT !.todo = @ \ {t}, !.at = None])
  /\ UNCHANGED wedged

(* TaskUnblocked: QueueHandler reads the task again and enqueues it if it   *)
(* is still queued.  The loop awaits TaskQueued, so a spawn lock that is    *)
(* closed for ever, or that this very run leaves closed, ends the loop.     *)
Unblock(l, t) ==
  \/ /\ status[t] # "queued" \/ QueueIsFull
     /\ resolvers' = Advance(l, [l EXCEPT !.todo = @ \ {t}, !.at = None])
     /\ UNCHANGED taskQueue
  \/ /\ status[t] = "queued" /\ ~ wedged /\ Enqueue(t)
     /\ resolvers' = Advance(l, [l EXCEPT !.todo = @ \ {t}, !.at = None])
     /\ UNCHANGED wedged
  \/ /\ status[t] = "queued" /\ (wedged \/ SpawnCanFail) /\ Enqueue(t)
     /\ resolvers' = resolvers \ {l}
     /\ wedged' = TRUE

(* The next dependent of a loop that is running. *)
ResolveNext(l, t) ==
  /\ l.at = None
  /\ t \in l.todo
  /\ \/ Skip(l, t)
     \/ AwaitCheckpoint(l, t)
     \/ ~ Blocked(t) /\ Ready(t) /\ Unblock(l, t)
  /\ UNCHANGED <<database, pool>>

(* A loop goes on when the checkpoint it waits for is stored, or, as an     *)
(* external event, when it has waited for five seconds.                     *)
StopWaiting(l) ==
  /\ l.at # None
  /\ ~ MustWait(l) \/ Settled
  /\ Unblock(l, l.at)
  /\ UNCHANGED <<database, pool>>

Resolve == \E l \in resolvers : StopWaiting(l) \/ \E t \in l.todo : ResolveNext(l, t)

-----------------------------------------------------------------------------
Next ==
  \/ \E t \in Tasks, deps \in SUBSET Tasks, from \in Tasks \cup {None} :
       Delegate(t, deps, from)
  \/ \E t \in Tasks, from \in Tasks \cup {None} : DelegateRefused(t, from)
  \/ \E t \in Tasks : Cancel(t) \/ CheckpointSaved(t)
  \/ \E t \in Tasks, w \in WorkerIds : SpawnWorker(t, w)
  \/ FindQueueEmpty
  \/ SpawnFails
  \/ \E w \in WorkerIds : \/ TimeoutFires(w)
                          \/ \E o \in {"completed", "failed"} : WorkerExits(w, o)
  \/ Resolve

Spec == Init /\ [][Next]_vars

-----------------------------------------------------------------------------
InHeap(t) == copies[t] > 0
HasProcess(t) == \E w \in WorkerIds : process[w] = t

(* "Tasks are only enqueued when all dependencies are resolved": a task     *)
(* that waits in the queue, that a process works on or that is running has  *)
(* no pending dependency.  (docs/TASK-DEPENDENCIES.md:47)                    *)
KeyPrinciple ==
  \A t, d \in Tasks :
    InHeap(t) \/ HasProcess(t) \/ status[t] = "running" => resolution[t][d] # "pending"

(* A dependency row that has been resolved keeps its resolution, whatever   *)
(* happens to the two tasks afterwards.  (docs/TASK-DEPENDENCIES.md:667)     *)
ResolutionIsFinal ==
  [][\A t, d \in Tasks :
       resolution[t][d] \in Terminal => resolution'[t][d] = resolution[t][d]]_vars

(* What is said of single tasks below holds as long as no task continues    *)
(* from another.  A loop that waits for a checkpoint looks at its other     *)
(* dependents late, when the loop of another dependency has enqueued them   *)
(* already; TaskUnblocked enqueues them again, and they run and end twice.  *)
NoneContinues == \A t \in Tasks : continueFrom[t] = None

(* A resolution tells how the dependency ended. *)
ResolutionMatchesOutcome ==
  NoneContinues => \A t, d \in Tasks :
    resolution[t][d] \in Terminal => status[d] = resolution[t][d]

(* The end of a task resolves every row that names it, however it ended.    *)
(* (docs/FEATURES.md:172)                                                   *)
TerminalIsResolved ==
  \A t, d \in Tasks : status[d] \in Terminal => resolution[t][d] # "pending"

(* The rows of a task say how it ended, as soon as it has: a failed or      *)
(* cancelled dependency is not taken for a completed one, nor overlooked.   *)
RowsMatchOutcome == ResolutionMatchesOutcome /\ TerminalIsResolved

(* A task that has ended stays as it ended: no late exit, timeout or second *)
(* run of a process overwrites it.                                          *)
TerminalIsFinal ==
  [][NoneContinues =>
       \A t \in Tasks : status[t] \in Terminal => status'[t] = status[t]]_vars

(* "Prevents re-queuing already processed tasks": a task is in the queue at *)
(* most once, and not while a worker is registered for it or after it has   *)
(* ended.  (docs/FEATURES.md:53)                                            *)
NoDuplicateProcessing ==
  NoneContinues => \A t \in Tasks :
    /\ copies[t] <= 1
    /\ InHeap(t) => status[t] = "queued" /\ taskToWorker[t] = None
    /\ Cardinality({w \in WorkerIds : workers[w] = t}) <= 1

(* The three records of the workers agree: the pool's two maps are inverse  *)
(* to each other, every entry has a live process that works for its task,   *)
(* and the monitor counts the entries, which no double exit, timeout or     *)
(* second process of a task can upset: double accounting would make the     *)
(* worker limit wrong for the rest of the session.                          *)
PoolAgrees ==
  /\ \A w \in WorkerIds : workers[w] # None /\ NoneContinues =>
       taskToWorker[workers[w]] = w /\ process[w] = workers[w]
  /\ \A t \in Tasks : taskToWorker[t] # None => workers[taskToWorker[t]] = t
  /\ timers \subseteq {w \in WorkerIds : workers[w] # None}
  /\ workerCount = Cardinality({w \in WorkerIds : workers[w] # None})

Waits(t) == status[t] = "queued" /\ ~ Blocked(t)
Remembered(t) == InHeap(t) \/ \E l \in resolvers : t = l.at \/ t \in l.todo

(* A queued task whose dependencies are resolved is not forgotten: it is in *)
(* the queue or a loop of resolveDependencies has still to look at it.      *)
(* Two things forget a task: a spawn that fails, which stops every loop,    *)
(* and a queue that is full, which copies of a task can make of any queue.  *)
NotForgotten ==
  ~ wedged /\ NoneContinues => \A t \in Tasks : Waits(t) => Remembered(t)
=============================================================================
