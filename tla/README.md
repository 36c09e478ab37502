# A TLA+ model of Delegate

Delegate (package `claudine`) is a server that queues tasks given to it over
MCP or on the command line and runs each in a `claude` process of its own. This
directory holds its specification in TLA+: modules translated from `src/src/`,
TLC configurations that check them on small instances, and proofs that TLAPS
checks for every size. `PROJECT.json` maps every definition to the lines of
code it stands for and lists runs, mutants, findings, hazards and theorems.

## The system

One Node.js process holds all components; they call each other through an
in-process `EventBus` and share one SQLite file.

| Component | State | Operations | What is hard |
|---|---|---|---|
| TaskManager | none | delegate, cancel, retry, resume: checks, then one event | order of the handlers of that event |
| PersistenceHandler, TaskRepository | table `tasks` | save, update the status on each event | late events over terminal states |
| QueueHandler, PriorityTaskQueue | heap, `taskIndex` | enqueue when not blocked, dequeue, requeue, remove | duplicates, full queue, index after swaps |
| WorkerHandler | `spawnLock`, `lastSpawnTime`, timers | processNextTask, cancel | overlapping runs, back-off, failed spawns inside the lock |
| EventDrivenWorkerPool, ProcessSpawner | `workers`, `taskToWorker`, timers, processes | spawn, kill, exit, timeout | races of exit, timeout and kill; double accounting |
| ResourceMonitor | worker count, recent spawns | canSpawnWorker, increment, decrement | settling workers, limits |
| DependencyHandler, DependencyRepository | table `task_dependencies` | add rows, resolve rows, unblock dependents | a loop suspended for up to 5 s while the world changes |
| DependencyGraph | two adjacency lists, two caches | add, remove, transitive queries, searches | cache invalidation, cycles, cleaned-up nodes |
| CheckpointHandler, git-state | table `task_checkpoints` | capture after a task ends | asynchronous git commands |
| ScheduleHandler, ScheduleExecutor, ScheduleManager | tables `schedules`, `schedule_executions`, set of running schedules | create, pause, trigger, missed-run policies | non-atomic triggers, restart, overlapping executions |
| RecoveryManager, bootstrap, shutdown | the two lists `recover()` goes through | cleanup, fail stale tasks, requeue | what only memory knew, a recovery that is suspended |
| EventBus, QueryHandler | subscriptions, pending requests | subscribe, request, respond, clean-up, dispose | time-outs and late answers |
| Bootstrap, container, MCP adapter, CLI | which services exist, calls under way, exit code | set-up, calls, SIGINT, shutdown | a set-up that fails in the middle, a command that waits for an event |
| Output capture and storage, autoscaler, configuration, logger | | buffers, metrics, checks | |

Interaction, for a task with a dependency: `TaskManager.delegate` emits
`TaskDelegated`; Persistence stores the task and emits `TaskPersisted`,
DependencyHandler inserts the rows, QueueHandler enqueues the task only if
`isBlocked` says no, and emits `TaskQueued`; WorkerHandler runs
`processNextTask` under its lock and spawns a process; its exit makes the pool
emit `TaskCompleted` or `TaskFailed`; Persistence stores the status,
DependencyHandler resolves the rows and emits `TaskUnblocked` for each dependent
that has become free, which QueueHandler answers by enqueueing it. All database
and queue operations are synchronous underneath their promises. `emit` starts
the handlers in the order of subscription and awaits them all.

Correctness, per component: the queue and spawn path lose no wake-up and respect
the minimum delay; no task runs before its dependencies have ended; the end of a
task is decided once and resolves every row that names it; the records of
workers agree and the memory reserve is kept; no task is forgotten, in a session
or over restarts; graph and caches tell the truth about the rows; a schedule runs
once at a time and as often as it should; a request is answered or refused once,
and a command of the command line returns.

## Modules

| Module | Models | Role |
|---|---|---|
| `WorkerSpawning` | `services/handlers/worker-handler.ts`, spawn path | runs of `processNextTask`, await by await |
| `FifoLock` | | what the spawn lock promises; `WorkerSpawning` implements it |
| `WorkerSpawningProofs` | | proofs |
| `TaskLifecycle` | the handlers around a task, the pool, the dependency table | one session |
| `TaskRecovery` | `recovery-manager.ts`, bootstrap, shutdown, cleanup | extends `TaskLifecycle` over restarts |
| `TaskLifecycleProofs` | | proofs about `TaskLifecycle` and `TaskRecovery` |
| `WorkerPool` | `event-driven-worker-pool.ts`, `resource-monitor.ts`, `process-spawner.ts`, `process-connector.ts` | pool and monitor beside the processes |
| `WorkerPoolProofs` | | proofs |
| `DependencyGraph` | `core/dependency-graph.ts`, state | adjacency lists and caches |
| `DependencySearch` | the same, searches | algorithms against definitions |
| `DependencyGraphProofs` | | proofs about both |
| `TaskQueue` | `implementations/task-queue.ts`, PriorityTaskQueue | heap and index |
| `PriorityFifo` | the same, FIFOTaskQueue generalised | what the queue promises; `TaskQueue` implements it |
| `TaskQueueProofs` | | proofs |
| `SetInduction` | | induction and loops, for the proofs about algorithms |
| `Scheduling` | `schedule-executor.ts`, `schedule-handler.ts`, `schedule-manager.ts`, `schedule-repository.ts` | ticks, triggers and requests, write by write |
| `SchedulingProofs` | | proofs |
| `EventBus` | `core/events/event-bus.ts` | state and operations of the bus, used by `Services` |
| `Services` | `bootstrap.ts`, `handler-setup.ts`, `container.ts`, `task-manager.ts`, `query-handler.ts`, `mcp-adapter.ts`, `cli/` | a process from its start to its exit |
| `RequestReply` | | what `request()` promises; `Services` implements it |
| `ServicesProofs` | | proofs |
| `MC...` | | instances for TLC (symmetry sets, templates) |

### WorkerSpawning

`pc[r]` is where run `r` of `processNextTask` stands between two awaits, from
`"waiting"` for the lock to `"requeue"` after a failed spawn. `withSpawnLock`
is a chain of promises: `Chain` reads `spawnLock` and installs the run's own
promise in the same synchronous piece of code, `EnterLock` needs the awaited
promise to be resolved, `ReleaseLock` is the `finally` block. `DelayCheck`,
`ResourcesAvailable`/`ResourcesConstrained`, `DequeueTask`/`DequeueNothing`,
`SpawnWorker`, `RecordSpawn` and `SpawnReported` are the steps of the protected
function, and `SpawnFails` the nested wait that `RequeueTask` leads to. Time is
counted only up to the minimum delay. `arrival` and `sinceSpawn` are history
variables; the lock refines `FifoLock` under
`line <- arrival, inside <- {r : Inside(r)}`.

### TaskLifecycle

An action is the reaction of the event loop to one external event: `Delegate`,
`DelegateRefused`, `Cancel`, `SpawnWorker` (a run of `processNextTask` that
gets through), `FindQueueEmpty`, `SpawnFails`, `WorkerExits`, `TimeoutFires`,
`CheckpointSaved`. Only `resolveDependencies` is split: `TaskEnds` resolves the
rows and puts a loop into `resolvers`; `ResolveNext` is one dependent of the loop
(still blocked: `Skip`; its checkpoint missing: `AwaitCheckpoint`; else `Unblock`);
`StopWaiting` continues a loop, at the event or after five seconds. External
events wait until every loop has ended or waits (`Settled`), so overlaps are
exactly those an `await` of real length allows. Choices of the environment
(outcomes, refused dependencies, who is run next) are open. `indexed` keeps the
keys of `taskIndex` apart from the heap, since with two copies of a task they
differ.

### TaskRecovery

`Stop` erases memory and keeps the database; a graceful shutdown writes nothing
either, so it is the same step. `recover()` is taken task by task: `Boot` deletes
old tasks (with their rows, by cascade) and reads the lists of queued and running
ones, `RecoverQueued` enqueues a task of the first and, after all of these,
`RecoverRunning` enqueues one of the second or, if it is stale, fails it in the
database only. Enqueueing emits `TaskQueued` and awaits the run it starts: a spawn
that fails leaves the spawn lock closed and `recover()` waiting for it, so the rest
of the lists is not gone through in this session (`Recovering` needs `~ wedged`).
Between two tasks of the lists only promises are awaited, so nothing but runs of
`processNextTask` comes between them (`Session`); the process may stop, and a
suspended recovery lets everything else go on. Ids of deleted tasks are not used
again.

### WorkerPool

`TaskLifecycle` takes the monitor's answer as given; here it is computed.
`serves[w]` is the task a live process works for, `workers[w]` the pool's entry:
`Kill` removes the entry at once, the process ends when it likes (`Exit`), or
never. `CanSpawnWorker` has the tests of the worker count and of free memory,
from which it subtracts an estimate for every spawn in the settling window
(`recent`); `grown` are the processes that have come to use their memory. A
process grows, at the latest, before its settling window ends: this is what the
window's length means, and the assumption under which the reserve is kept. A
spawn is one action, since between `canSpawnWorker` and `recordSpawn` only
promises are awaited under the spawn lock. `doubled` remembers tasks that got a
second worker, for which looking workers up by task mixes the two up. A pid is
not used again while anything remembers it. `ForceTimerFires` is the SIGKILL of
`kill()` after five seconds: it asks `process.killed`, which the SIGTERM has set,
so the signal is never sent (`ForcedKillNeverComes`).

### DependencyGraph and DependencySearch

A JavaScript `Map` is a function on some tasks, so keys with empty sets are
visible. `CollectTransitiveNodes` is defined as a least closed set, which proofs
can use; `DependencySearch` performs the code's searches and compares them with
such definitions in every reachable graph. A recursive function is a loop over its
stack: `path` has the nodes whose calls are under way (the `recursionStack` of
`detectCycleDFS`), and a round makes the next call of the last one or returns from
it. A node is called and returned from once, so `MaxRounds` is twice the number of
tasks. The order of a JavaScript `Set` is left open (`CHOOSE`). `Validated` says
whether callers ask `wouldCreateCycle` first, as DependencyHandler does.

### TaskQueue

`heap` is the array, one element a node of task, priority and insertion number;
`taskIndex` the map, with `Absent` for a key that is not in it. `UpRound` and
`DownRound` are one round of the loops of `bubbleUp` and `bubbleDown`; a round that
changes nothing is the `break`, and `BubbleUp` and `BubbleDown` are as many rounds
as there are nodes, which is enough since each round changes the level. `Swap`
updates heap and index. `RemoveTask` moves the last node
into the gap and lets it go up, then down. Under `line <- GetAll` the heap
refines `PriorityFifo`, a sequence from which the oldest task of the highest
priority leaves. `doubled` remembers tasks enqueued while in the heap: for these
one index entry stands for two places, and the promises are weaker. `GetAll` finds
the k-th node as the one that k - 1 others leave before, which is what sorting gives
since no two nodes are equal.

### Scheduling

`tick` is what the executor and the trigger handler are doing: `Tick` takes the
due rows, `Take` one of them, and then a trigger is `SaveTask`, `RecordExecution`
(with the first half of `update`), `TickWrites`, `Delegate`; a missed run is
`SkipMissed` or `FailMissed`, `TickReads`, `TickWrites`, `RecordMissed`. `client[c]`
is a request to pause, resume or cancel in the same steps. `update` merges fields
into a row read a step earlier, so activities can overwrite each other; `raced`
collects the schedules for which a decision or a write relied on a row that had
changed, and what is promised of rows is promised for the others. `Stop` may come
between any two steps. Tasks have only four states, and `recovered` holds those of
earlier sessions. A unit of time is the grace period: due now is on time, a unit
later is missed.

### EventBus and Services

`EventBus` has the tables of `InMemoryEventBus` (`handlers` in order, `subscriptions`,
`pendingRequests` with `timers` and `age`) and one operator for each operation;
`outcome[r]` is what the caller of request `r` learns. `Services` uses it in one
process, a server or one command (`mode`), through `stage`: `Bootstrap`,
`SetUpNext` for each handler in the order of `setupEventHandlers`, `SetUpFails`
(the container then keeps the error where the task manager should be),
`Shutdown` and `ServerExits`, or for a command `CommandEnds`, `DisposeContainer` and
`DisposeEnds`. A call of a tool or command is `DelegateTask` or one of
`TaskStatus` ... `ContinueTask`, which ask the query handler and wait;
`QueryAnswers` is the handler, `Continue` what the task manager does with the
answer. The read happens at the call and the answer comes at any later time or
never: the handlers of the code answer within promises, but the bus's interface
allows any asynchronous function, so this admits more than the code does.
`EmitTaskDelegated` includes the handlers that save the task, or fail to, and the command
line's wait for the end of the task, which starts one promise later, when no
process can have exited yet; a call whose handlers wait for a lost spawn lock `hangs`.
What happens between delegation and end is `TaskLifecycle`; two things that keep a
task from ending are kept here. `pending[t]` are the rows of `task_dependencies` that
are not resolved: a delegated task that continues another gets one whether or not the
other has ended. `dropped` are the tasks that a cancellation has taken out of the queue
(`TakeFromQueue`, at the call) while the query that decides on it may still fail or time
out. `TaskEnds` needs a task to have no such row and to be in the queue or running.
`Tick` lets time pass up to
the next timer; cleaning may happen at any time.

## Runs

Passing runs:

- `Spawning`: 4 overlapping runs, 3 tasks, queue limit 2, spawns that may fail.
  Four runs are one inside, one waiting, one just arrived and one nested. Checks
  `TypeOK`, `OneSpawnAtATime`, `NoLostWakeup` (each queued task has a run
  or timer that has not yet looked), `SpawnGap`, the refinement `LockSpec`, and
  `EveryTaskSpawned` under fairness as long as no spawn has failed.
- `Lifecycle`: 3 tasks, any dependencies, one task that may continue from another,
  2 process ids that are used again (a late exit can meet a new worker), spawns that
  may fail, timeouts and cancellations at any moment. Checks `TypeOK`,
  `KeyPrinciple`, `RowsMatchOutcome`, `NoDuplicateProcessing`, `PoolAgrees`,
  `NotForgotten`, `ResolutionIsFinal`, `TerminalIsFinal`. Three tasks give chains,
  forks and joins of dependencies, and two loops that overlap. A task that continues
  from one of its two dependencies is enqueued twice when both end while two loops
  wait for the checkpoint, so what is said of single tasks is said for the histories
  in which none continues from another.
- `Recovery`: 2 tasks, one of which may continue from the other, 2 stops at any
  moment, also during a recovery, and spawns that may fail, also those that recovery
  waits for. Two tasks are one that suspends recovery and one that it does not come to.
  `NothingLost`, `RowsNeverReopen` and, however often it stops, `EveryTaskEnds`; a task
  is lost, or does not end, only when a failed spawn has left the lock closed.
- `DependencyGraphSafety`: 4 tasks (chains of three edges, diamonds), all 543
  acyclic graphs as initial database, all additions that validation accepts, all
  removals, all cache contents. `Mirror`, `CachesFresh`, `ValidatedIsAcyclic`, and
  `SearchesExact`: the walk, the search for cycles, the depth and the sort.
- `TaskQueue`: up to 6 insertions into a heap of up to 6 nodes. Only with six
  nodes can the last one be smaller than the parent of the gap it is moved to, so
  that `remove` has to move it up. Entries of the index for different tasks do not
  touch each other: one task among copies of another suffices. `HeapSound` (order
  and index) and the refinement `QueueSpec`.
- `Scheduling`: 2 schedules, 3 tasks, times 1 to 3, one stop, one pause or
  cancellation (resumptions follow pauses and are not counted). Templates: a cron
  schedule that catches up and expires, one that fails on a missed run, is limited
  to one run and follows the first, a one-time schedule that skips and follows the
  first. Three tasks are two of the predecessor, of which the chained one must
  find the later. Checks `TypeOK`, `OneExecutionAtATime` (within a session),
  `RunsCounted`, `TimeMatchesStatus`, `EndedIsFinal`, `ChainRespected`,
  `EveryDueScheduleIsHandled`.
- `Workers`: 3 processes for 2 tasks (one may be spawned twice), a limit of 3
  workers and memory for 2, so that limit, projection and reserve each decide in
  some states. Checks `TypeOK`, `MemoryReserved`, `LimitHolds`, `NoStrayProcess` and
  `SlotReturns`: a timeout frees the place of a process that ignores SIGTERM.
- `Services`: 2 calls of any kind, 3 tasks of which one is left by an earlier
  process, the request timeout and the age of cleaning both 1. Two calls are a request
  and another that crosses it, or a waiting command and its Ctrl-C. Checks `TypeOK`,
  `BusConsistent`, `AcceptedCalls`, the refinement `RequestsSettle`, and `CliReturns`.
  A command of the code really waits for ever in four cases, which `CliReturns` names
  and excepts: its task was never saved, a failed spawn holds it up, its task depends on
  one that had ended before it came (`LifecycleLateDependency`), or Ctrl-C has taken its
  task out of the queue and the status query has failed or timed out (both `Stranded`).
  The run reaches each of them.

Runs that find a violation, each a disagreement of the code with a document:

- `SpawnLockLeak`: a failed spawn awaits `RequeueTask` inside the lock; the
  requeue awaits a nested run that waits for the same lock. It is never released
  again and nothing is spawned until a restart.
- `LifecycleLateDependency`: a dependency on a task that has already ended is
  stored as pending, and nothing will ever resolve it.
- `ScheduleOverlap`: the set of running schedules is lost on a restart, and the
  first tick triggers a schedule whose last task recovery has just requeued.
- `RecoveryKeyPrinciple`: recovery enqueues queued tasks without asking whether
  they are blocked.

Deadlock checking is off everywhere: when all tasks of the instance are
delegated and ended the server is idle, as it should be, and the process of
`Services` exits. Symmetry is used in `DependencyGraphSafety` and `TaskQueue`, runs
without liveness.

### Bounds

Tasks, runs, workers and stops are bounded by the sets and `MaxStops` in the
`.cfg` files; queues by `MaxQueueSize`; time by `MinSpawnDelay`. A task is
delegated once: a retry or a resumption is a new task in the code too.
`MaxInsertions` bounds the insertion counter; `MaxTasks`, `MaxTime`, `MaxStops` and
`MaxRequests` bound `Scheduling`. In `WorkerPool` memory is counted in
units of which the estimate for a worker is two. In `Services` a call is made once,
and ages are counted up to the timeout.

### Fairness

- Continuations of promises and due timers run: weak fairness of `Process(r)`,
  `RetryTimer`, `Resolve`; in `WorkerPool` of `TimeoutFires`, alone, since a process
  need not end; in `Services` of `SetUpStep`, `Timers`, `Continue(c)` and `Ends`. This
  is Node's event loop.
- In `Services` a task that is in the queue or running ends, since every task has a
  timeout: weak fairness of `TaskEnds(t)`. Calls, answers of the query handler and shutdown are not fair.
- In `TaskRecovery` processes end: weak fairness of `WorkerExits`; `claude --print` answers one
  prompt and exits, and a task with a timeout is killed. `CheckpointSaved` is the
  end of git commands that run with a time limit.
- The resource monitor does not refuse for ever: strong fairness of
  `ResourcesAvailable` and `SpawnWorker`. It is strong because load and the worker
  count come and go between attempts, and the code tries again every few seconds
  for as long as a task waits.
- A stopped server is started again, and promises of its recovery are continued: weak
  fairness of `Start` and `Recover`.
- The tick timer fires and a tick goes on: weak fairness of `TickStep`. Tasks of
  schedules end between ticks: strong fairness of "some `TaskEnds`", because in the
  model ticks may follow each other without a pause, and one of the tasks, because
  each ends once.

Cancellation and stops are never fair, and timeouts of tasks only in `WorkerPool`:
nothing else relies on them.

## Proofs

All theorems hold for any sets of tasks, runs, workers, schedules and calls and any
limits, from the named assumptions on the constants, and the conditions that a
theorem states itself.

- `WorkerSpawningProofs`: `TypeCorrect`, `ChainCorrect`, `MutualExclusion`,
  `SpawnsAreSpaced`, `WakeupsSuffice`, `LockRefinement`. `OneSpawnAtATime` is not
  inductive: that only the first in line is inside follows from `ChainInv`, which
  ties `awaited`, `spawnLock` and `pc` to `arrival`. `SpawnGap` needs besides that
  the delay has passed in every stage after its test, which holds because only the
  run inside can reset the clock. `WakeupsSuffice` counts: the queue never holds more
  tasks than there are timers and runs that have not yet dequeued (`WakeInv`).
- `TaskLifecycleProofs`: `TypeCorrect` needs `TimerInv` (a timer belongs to a
  worker), since the timeout reads the worker's task. `KeyPrincipleHolds` needs
  `KeyInv`: tasks engaged in queue, pool or status have no pending row
  (`EngagedInv`), tasks without a row in `tasks` have no dependency rows
  (`RowsInv`), and what a loop waits for is unblocked and stays so (`TodoInv`).
  `ResolutionsAreFinal` follows for the steps; `EndsAreResolved` holds under
  `~ DependOnFinished`, the precondition whose absence `LifecycleLateDependency`
  exhibits. `NothingForgotten` rests on types only, and assumes that the queue is never
  full: the code gives a task up that it cannot enqueue. Its first half is the property
  of the runs, which speaks of histories in which no task continues from another; its
  second half does without that, since only the lost lock stops a loop.
- `TaskLifecycleProofs`, of single tasks: `PoolAgreesAlways`, `NothingRunsTwice`,
  `OutcomesAreFinal`, `RowsTellOutcomes`. The invariant `RecordsInv` adds to `KeyInv`
  that the monitor counts the entries of the pool (`PoolInv`), which always holds, and
  what holds while no task continues from another: there is at most one loop, it
  waits for nothing, and its dependents are not in the queue (`LoopInv`), a task
  is in the queue at most once and with its index entry (`QueueInv`), and a
  worker belongs to a running task (`WorkInv`). That no task continues from another
  can become false and never true again (`FromInv`), so the condition refers to the
  history.
- `TaskLifecycleProofs`, of `TaskRecovery`: `TypesSurviveRestarts`,
  `RestartsReopenNothing`, `NothingLostEver`. The key principle does not survive a restart, so the first two
  rest on types and `RowsInv` only. `NothingLostEver` assumes, like `NothingForgotten`,
  that the queue is never full. Its invariant `LostInv` says of a server that is up
  with an open lock that every task is `Kept`: by the queue, a loop or a worker, or by
  the list that recovery has still to go through. A step of recovery hands a task from
  the list to the queue; that a task skipped because `contains()` finds it is really
  there needs `IndexInv` (an index entry stands for a copy in the heap). Afterwards
  only the end of a task takes its worker away, since the pool agrees with itself
  (`PoolInv`). Recovery may enqueue a task twice, so `RecordsInv` is of no use here.
- `WorkerPoolProofs`: `TypeCorrect`, `ReserveKept`, `LimitKeptAlways`,
  `NoProcessForgotten`, `ForcedKillNeverComes`. The reserve follows from
  `SettlingInv`: a live process that has not grown is in the settling window, so the
  projection has counted it. `StrayInv` says of a task spawned once that one worker
  concerns it, alive or registered, and `ForceInv` that a process with a forced kill
  to come counts as killed.
- `DependencyGraphProofs`: `MirrorHolds`, `CachesAreFresh`,
  `ValidationPreventsCycles`, `TypeCorrect`. One invariant carries all: `Mirror`
  makes a walk of the reverse graph find exactly the tasks whose forward answers
  change (`NodesInverse`, `Untouched`), and `NewEdgeAcyclic` shows that an edge
  whose end does not reach its start closes no cycle. They hold for graphs with
  cycles too, which the run does not reach.
- `DependencyGraphProofs`, of the searches: `WalksAreExact`, `SearchesAreExact`. Each
  search keeps a set of states (`CollectLoop`, `DetectLoop`, `DepthLoop`,
  `SortLoop`), and every round that changes something brings it nearer to its end
  (`Left`: nodes to call and to return from). The walk has collected the neighbours of
  what it has returned from; in the search for cycles, finished nodes lead only to
  finished nodes and to no cycle or target; the memo has the right depth of
  what it holds, and a path under way is a chain, which in a graph without cycles
  never meets itself; the in-degree of a task counts its dependencies not yet listed.
  That a chain has fewer edges than there are tasks (`ChainsAreShort`) ends the depth
  and shows that the sort leaves nothing out: what it left out would start chains of
  any length. Both hold for any finite set of tasks,
  `WalksAreExact` for every graph. `SearchesAreExact` assumes `Validated`, as the run
  does: on a cycle `getMaxDepth` would not end, and `topologicalSort` refuses.
- `SetInduction`: the library's induction theorems take an operator, which the provers
  cannot instantiate; `LeastNumber` and `Induction` are the same for a set of numbers
  and follow from the well-foundedness of strict subsets of a finite set. `Rounds`
  says that the rounds of a loop exist, `LoopEnds` that a measure bounds them.
- `TaskQueueProofs`: `HeapStaysSound`, `QueueRefinement`. The loops are proved about
  as they are: in every round of `bubbleUp` the heap is one but for the node that
  rises, and its parent leaves before its children (`Rising`), in every round of `bubbleDown` but
  for the node that sinks (`Sinking`); both only rearrange (`Rearranged`), and the
  number of rounds suffices (`LoopEnds`). `HeapInv` adds what the index needs:
  numbers of insertion are different and below the counter, and a task never doubled
  has one node and its entry. For the refinement, a node's rank is the number of nodes
  that leave before it; ranks are the numbers below the size of the set (`NthNodes`),
  so a set of nodes has one order, and a node that goes or comes moves the ones behind
  it by one place (`NodeGone`, `PlaceGone`). The root has rank 0 (`RootLeavesFirst`).
- `SchedulingProofs`: `TypeCorrect`, `OneExecution`, `EndsAreFinal`, `TimesMatch`,
  `RunsAreCounted`, `ChainsAreRespected`. The invariant says that `running` names every delegated task of
  the session (`RunInv`), that a trigger under way has a saved task and a schedule
  that runs nothing (`TriggerInv`), that a server that is down does nothing
  (`DownInv`), and that an activity which saw an ended schedule writes an ended
  status (`ActivityInv`). For the times, what an activity will write fits the row it
  will find (`Fit`, `TimeInv`); for the counts, the number of runs it has read is the
  one it will find, and below the limit while there is a run to come (`Steady`,
  `CountInv`). Both speak of rows on which no two activities have crossed.
  A chained task waits for the latest record of the schedule before it. That this is
  the record of its running task needs `ChainInv`: the time a row has, and any time
  that a pending request would give it, are later than all its records (`Ordered`,
  `Later`); that no trigger has come since the request read the row is told by the
  number of runs. It holds until the first stop, as the property says: recovery
  leaves two tasks of one schedule.
- `ServicesProofs`: `TypeCorrect`, `BusStaysConsistent`, `CallsAccepted`,
  `SettledOnce`. A request is in the table exactly while its timer runs (`PendingInv`),
  under `CleaningIsLate`: the timeout is not longer than the interval of cleaning,
  which the default configuration observes and others need not. `CallsAccepted` rests on what
  an answer seen in the past says of the present (`SeenInv`): rows never go and ended
  tasks stay ended. `SettledOnce` is the safety half of the refinement of
  `RequestReply`.

Only model-checked: all liveness, and with it the fair half of the refinements.
Every invariant and every action property that a passing run checks is proved.

## Not modelled

- Contents: prompts, output, checkpoints' git state, log lines, priorities in
  `TaskLifecycle` (any queued task may be next, so every order of the heap is
  included).
- Output capture: the bytes of one task go to one buffer, which no other activity
  touches and which decides nothing. The autoscaler starts no worker; it emits
  metrics and log lines.
- Two requests that arrive in one read of standard input interleave at
  microtasks; `TaskLifecycle` handles them one after the other.
- Processes that outlive the server, and a second process on the same database (a
  command beside the server, whose recovery requeues what the server runs): two
  sessions on one database have more states than TLC can visit.
- In `EventBus`: `subscribeAll`, which nobody calls, and the limit on subscriptions,
  which cannot be reached.
- In `TaskRecovery`: database errors while recovery reads or writes.
- In `Services`: the schedule tools (their operations are in `Scheduling`), pipeline,
  config and help commands, the detached mode, validation and formatting.
- In `WorkerPool`: the CPU and load tests, which only refuse more.
- In `Scheduling`: database errors, cron expressions that stop being valid,
  `ScheduleUpdated` (nothing emits it), deletion (nothing calls it), a first tick
  that starts before recovery has read the table, and a trigger whose
  `TaskDelegated` meets the lock that `SpawnLockLeak` shows to be lost.
- Read but covered by no property: recovery enqueues tasks that ran less than 30
  minutes ago, although `docs/FEATURES.md:54` says that crashed running tasks are
  marked as failed; a task that continues from another can be enqueued twice, run twice
  and end twice; a task refused by a full queue is not offered again; dependents of a
  task that recovery has failed as stale wait until the next start; a recovery suspended
  by a failed spawn; a command that waits for a task that nothing will end; a process
  ended by a signal counts as completed; a command `retry` exits while its task runs in
  the same process.

## Plan

Done, in this order: `WorkerSpawning`, `TaskLifecycle`, `TaskRecovery`,
`DependencyGraph`, `TaskQueue`, `Scheduling`, `WorkerPool`, `EventBus` with
`Services`, and their proofs.

Left: an abstraction of `TaskLifecycle` small enough to be taken twice, for two
processes on one database.
