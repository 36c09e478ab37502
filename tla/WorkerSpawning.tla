--------------------------- MODULE WorkerSpawning ---------------------------
(***************************************************************************)
(* The spawn path of WorkerHandler (services/handlers/worker-handler.ts):  *)
(* every TaskQueued event and every retry timer starts one run of          *)
(* processNextTask, and withSpawnLock serialises the runs with a chain of  *)
(* promises.  One step of this module is what a run does between two       *)
(* awaits, so runs interleave here wherever they may interleave in the     *)
(* event loop.                                                             *)
(*                                                                         *)
(* A run that cannot spawn a worker emits RequeueTask and awaits it.       *)
(* QueueHandler answers by enqueueing the task and emitting TaskQueued,    *)
(* which WorkerHandler answers by awaiting a nested run: `nested' records  *)
(* which run a run is waiting for.                                         *)
(*                                                                         *)
(* Time is counted in units since lastSpawnTime was last assigned and is   *)
(* not counted beyond MinSpawnDelay, which decides every test the code     *)
(* makes.  The answer of the resource monitor is left open.                *)
(***************************************************************************)
EXTENDS Naturals, Sequences, FiniteSets

CONSTANTS
  Runs,            \* identities of processNextTask calls (reused when done)
  Tasks,           \* tasks that may be queued
  None,            \* no run / no task
  MinSpawnDelay,   \* minSpawnDelayMs, in time units
  MaxQueueSize,    \* maxQueueSize of the task queue
  SpawnCanFail     \* may workerPool.spawn return an error?

ASSUME ConstantsAssumption ==
  /\ None \notin Runs
  /\ None \notin Tasks
  /\ MinSpawnDelay \in Nat
  /\ MaxQueueSize \in Nat
  /\ SpawnCanFail \in BOOLEAN

VARIABLES
  pc,          \* pc[r]: where run r is in processNextTask
  awaited,     \* awaited[r]: the run whose lock promise r awaits, or None
  spawnLock,   \* the run that owns the newest unresolved lock promise, or None
  nested,      \* nested[r]: the run that r awaits through RequeueTask
  job,         \* job[r]: the task r has dequeued
  queue,       \* the task queue (priorities are the matter of the TaskQueue)
  unseen,      \* tasks not yet submitted
  timers,      \* pending setTimeout(processNextTask)
  sinceLast,   \* time since lastSpawnTime, up to MinSpawnDelay
  spawned,     \* tasks for which a process was started
  failed,      \* tasks for which TaskFailed was emitted after a failed spawn
  cancelled,   \* tasks taken out of the queue by a cancellation
  arrival,     \* history: the active runs in order of arrival at the lock
  sinceSpawn   \* history: time since a process was last started

lockVars == <<pc, awaited, spawnLock, arrival>>
timeVars == <<sinceLast, sinceSpawn>>
outcomes == <<spawned, failed, cancelled>>
vars == <<lockVars, timeVars, nested, job, queue, unseen, timers, outcomes>>

Stages == {"idle", "waiting", "delay", "resources", "dequeue", "spawn",
           "record", "emit", "requeue"}

(* The stages inside the function that withSpawnLock protects. *)
Protected == Stages \ {"idle", "waiting"}

TypeOK ==
  /\ pc \in [Runs -> Stages]
  /\ awaited \in [Runs -> Runs \cup {None}]
  /\ spawnLock \in Runs \cup {None}
  /\ nested \in [Runs -> Runs \cup {None}]
  /\ job \in [Runs -> Tasks \cup {None}]
  /\ queue \in Seq(Tasks)
  /\ unseen \in SUBSET Tasks
  /\ timers \in Nat
  /\ sinceLast \in 0..MinSpawnDelay
  /\ sinceSpawn \in 0..MinSpawnDelay
  /\ spawned \in SUBSET Tasks
  /\ failed \in SUBSET Tasks
  /\ cancelled \in SUBSET Tasks
  /\ arrival \in Seq(Runs)

Init ==
  /\ pc = [r \in Runs |-> "idle"]
  /\ awaited = [r \in Runs |-> None]
  /\ spawnLock = None
  /\ nested = [r \in Runs |-> None]
  /\ job = [r \in Runs |-> None]
  /\ queue = << >>
  /\ unseen = Tasks
  /\ timers = 0
  /\ sinceLast = MinSpawnDelay       \* lastSpawnTime = 0 is long ago
  /\ sinceSpawn = MinSpawnDelay
  /\ spawned = {}
  /\ failed = {}
  /\ cancelled = {}
  /\ arrival = << >>

-----------------------------------------------------------------------------
(* The spawn lock. *)

(* Mutant: the new promise is not installed in spawnLock. *)
ChainWithoutInstalling(r) ==
  /\ pc[r] = "idle"
  /\ awaited' = [awaited EXCEPT ![r] = spawnLock]
  /\ spawnLock' = IF spawnLock = None THEN r ELSE spawnLock
  /\ arrival' = Append(arrival, r)

(* withSpawnLock up to its await: the run remembers the newest promise and *)
(* makes its own the newest.                                               *)
Chain(r) ==
  /\ pc[r] = "idle"
  /\ awaited' = [awaited EXCEPT ![r] = spawnLock]
  /\ spawnLock' = r
  /\ arrival' = Append(arrival, r)

(* Mutant: the await of the previous promise is lost. *)
EnterLockAtOnce(r) ==
  /\ pc[r] = "waiting"
  /\ pc' = [pc EXCEPT ![r] = "delay"]
  /\ UNCHANGED <<awaited, spawnLock, arrival, timeVars, nested, job, queue,
                 unseen, timers, outcomes>>

(* The promise awaited is resolved: the protected function starts. *)
EnterLock(r) ==
  /\ pc[r] = "waiting"
  /\ awaited[r] = None
  /\ pc' = [pc EXCEPT ![r] = "delay"]
  /\ UNCHANGED <<awaited, spawnLock, arrival, timeVars, nested, job, queue,
                 unseen, timers, outcomes>>

(* releaseLock() in the finally block: whoever awaits the promise of r     *)
(* awaits a resolved promise from now on.                                  *)
ReleaseLock(r) ==
  /\ pc' = [pc EXCEPT ![r] = "idle"]
  /\ awaited' = [q \in Runs |-> IF awaited[q] = r THEN None ELSE awaited[q]]
  /\ spawnLock' = IF spawnLock = r THEN None ELSE spawnLock
  /\ arrival' = Tail(arrival)
  /\ job' = [job EXCEPT ![r] = None]

-----------------------------------------------------------------------------
(* Events that start a run. *)

QueueIsFull == Len(queue) >= MaxQueueSize

(* A handler enqueues a new task and emits TaskQueued. *)
TaskQueued(r, t) ==
  /\ t \in unseen
  /\ ~ QueueIsFull
  /\ unseen' = unseen \ {t}
  /\ queue' = Append(queue, t)
  /\ Chain(r)
  /\ pc' = [pc EXCEPT ![r] = "waiting"]
  /\ UNCHANGED <<timeVars, nested, job, timers, outcomes>>

(* The queue refuses the task: the handler logs the error and emits nothing. *)
TaskRefused(t) ==
  /\ t \in unseen
  /\ QueueIsFull
  /\ unseen' = unseen \ {t}
  /\ UNCHANGED <<lockVars, timeVars, nested, job, queue, timers, outcomes>>

(* Mutant: the guard of the retry timer is lost. *)
RetryTimerUnguarded(r) ==
  /\ timers' = timers - 1
  /\ Chain(r)
  /\ pc' = [pc EXCEPT ![r] = "waiting"]
  /\ UNCHANGED <<timeVars, nested, job, queue, unseen, outcomes>>

(* A retry timer fires. *)
RetryTimer(r) ==
  /\ timers > 0
  /\ timers' = timers - 1
  /\ Chain(r)
  /\ pc' = [pc EXCEPT ![r] = "waiting"]
  /\ UNCHANGED <<timeVars, nested, job, queue, unseen, outcomes>>

(* A cancellation takes a waiting task out of the queue. *)
CancelQueued(t) ==
  /\ \E i \in DOMAIN queue :
       /\ queue[i] = t
       /\ queue' = SubSeq(queue, 1, i-1) \o SubSeq(queue, i+1, Len(queue))
  /\ cancelled' = cancelled \cup {t}
  /\ UNCHANGED <<lockVars, timeVars, nested, job, unseen, timers, spawned, failed>>

(* Time passes between awaits as well as between runs. *)
Tick ==
  /\ sinceLast < MinSpawnDelay \/ sinceSpawn < MinSpawnDelay
  /\ sinceLast' = IF sinceLast < MinSpawnDelay THEN sinceLast + 1 ELSE sinceLast
  /\ sinceSpawn' = IF sinceSpawn < MinSpawnDelay THEN sinceSpawn + 1 ELSE sinceSpawn
  /\ UNCHANGED <<lockVars, nested, job, queue, unseen, timers, outcomes>>

-----------------------------------------------------------------------------
(* processNextTask inside the lock. *)

(* Mutant: return without a timer. *)
ReturnWithoutRetry(r) ==
  /\ ReleaseLock(r)
  /\ UNCHANGED <<timeVars, nested, queue, unseen, timers, outcomes>>

(* setTimeout(() => this.processNextTask(), ...) and return. *)
ScheduleRetry(r) ==
  /\ timers' = timers + 1
  /\ ReleaseLock(r)
  /\ UNCHANGED <<timeVars, nested, queue, unseen, outcomes>>

(* Steps 1 and 2 pass on to the next test. *)
GoOn(r, stage) ==
  /\ pc' = [pc EXCEPT ![r] = stage]
  /\ UNCHANGED <<awaited, spawnLock, arrival, timeVars, nested, job, queue,
                 unseen, timers, outcomes>>

(* Mutant: the comparison is off by one. *)
SpawnDelayRequiredOffByOne == sinceLast + 1 < MinSpawnDelay

SpawnDelayRequired == sinceLast < MinSpawnDelay

DelayCheck(r) ==
  /\ pc[r] = "delay"
  /\ \/ SpawnDelayRequired /\ ScheduleRetry(r)
     \/ ~ SpawnDelayRequired /\ GoOn(r, "resources")

ResourcesAvailable(r) ==
  /\ pc[r] = "resources"
  /\ GoOn(r, "dequeue")

ResourcesConstrained(r) ==
  /\ pc[r] = "resources"
  /\ ScheduleRetry(r)

(* NextTaskQuery: the head of the queue, or null and the run is over. *)
DequeueTask(r) ==
  /\ pc[r] = "dequeue"
  /\ queue # << >>
  /\ job' = [job EXCEPT ![r] = Head(queue)]
  /\ queue' = Tail(queue)
  /\ pc' = [pc EXCEPT ![r] = "spawn"]
  /\ UNCHANGED <<awaited, spawnLock, arrival, timeVars, nested, unseen, timers, outcomes>>

DequeueNothing(r) ==
  /\ pc[r] = "dequeue"
  /\ queue = << >>
  /\ ReleaseLock(r)
  /\ UNCHANGED <<timeVars, nested, queue, unseen, timers, outcomes>>

(* workerPool.spawn succeeds: the process exists from here on. *)
SpawnWorker(r) ==
  /\ pc[r] = "spawn"
  /\ spawned' = spawned \cup {job[r]}
  /\ sinceSpawn' = 0
  /\ pc' = [pc EXCEPT ![r] = "record"]
  /\ UNCHANGED <<awaited, spawnLock, arrival, sinceLast, nested, job, queue,
                 unseen, timers, failed, cancelled>>

(* lastSpawnTime = Date.now() and the counters of the resource monitor. *)
RecordSpawn(r) ==
  /\ pc[r] = "record"
  /\ sinceLast' = 0
  /\ pc' = [pc EXCEPT ![r] = "emit"]
  /\ UNCHANGED <<awaited, spawnLock, arrival, sinceSpawn, nested, job, queue,
                 unseen, timers, outcomes>>

(* WorkerSpawned and TaskStarted have been handled: return. *)
SpawnReported(r) ==
  /\ pc[r] = "emit"
  /\ ReleaseLock(r)
  /\ UNCHANGED <<timeVars, nested, queue, unseen, timers, outcomes>>

(* workerPool.spawn fails: RequeueTask is emitted and awaited.  Its handler *)
(* enqueues the task and awaits TaskQueued, whose handler awaits run n.     *)
SpawnFails(r, n) ==
  /\ SpawnCanFail
  /\ pc[r] = "spawn"
  /\ ~ QueueIsFull
  /\ queue' = Append(queue, job[r])
  /\ nested' = [nested EXCEPT ![r] = n]
  /\ Chain(n)
  /\ pc' = [pc EXCEPT ![r] = "requeue", ![n] = "waiting"]
  /\ UNCHANGED <<timeVars, job, unseen, timers, outcomes>>

(* The same when the queue refuses the task: no run is started. *)
SpawnFailsUnqueued(r) ==
  /\ SpawnCanFail
  /\ pc[r] = "spawn"
  /\ QueueIsFull
  /\ GoOn(r, "requeue")

(* RequeueTask has been handled: emit TaskFailed and return. *)
ReportSpawnFailure(r) ==
  /\ pc[r] = "requeue"
  /\ nested[r] # None => pc[nested[r]] = "idle"
  /\ failed' = failed \cup {job[r]}
  /\ nested' = [nested EXCEPT ![r] = None]
  /\ ReleaseLock(r)
  /\ UNCHANGED <<timeVars, queue, unseen, timers, spawned, cancelled>>

-----------------------------------------------------------------------------
Process(r) ==
  \/ EnterLock(r)
  \/ DelayCheck(r)
  \/ ResourcesAvailable(r)
  \/ ResourcesConstrained(r)
  \/ DequeueTask(r)
  \/ DequeueNothing(r)
  \/ SpawnWorker(r)
  \/ RecordSpawn(r)
  \/ SpawnReported(r)
  \/ SpawnFailsUnqueued(r)
  \/ ReportSpawnFailure(r)
  \/ \E n \in Runs \ {r} : SpawnFails(r, n)

Next ==
  \/ Tick
  \/ \E r \in Runs : Process(r) \/ RetryTimer(r)
  \/ \E t \in Tasks : \/ TaskRefused(t)
                     \/ CancelQueued(t)
                     \/ \E r \in Runs : TaskQueued(r, t)

Spec == Init /\ [][Next]_vars

(* The event loop runs every continuation and every timer that is due, time *)
(* passes, and the monitor does not refuse for ever: it measures load that  *)
(* other workers give back when they exit.                                  *)
Fairness ==
  /\ WF_vars(Tick)
  /\ \A r \in Runs : WF_vars(Process(r))
  /\ WF_vars(\E r \in Runs : RetryTimer(r))
  /\ SF_vars(\E r \in Runs : ResourcesAvailable(r))

FairSpec == Spec /\ Fairness

-----------------------------------------------------------------------------
Inside(r) == pc[r] \in Protected

(* At most one run is between entering and leaving the lock: two runs never *)
(* test the spawn delay against the same lastSpawnTime.  (worker-handler.ts *)
(* "Only one spawn operation runs at a time")                               *)
OneSpawnAtATime == \A r, q \in Runs : Inside(r) /\ Inside(q) => r = q

(* Two processes are never started less than the minimum delay apart,       *)
(* although the delay is tested long before lastSpawnTime is assigned.      *)
SpawnGap == [][spawned' # spawned => sinceSpawn >= MinSpawnDelay]_vars

(* The chain of promises is the line of the runs in order of arrival: each  *)
(* run awaits its predecessor, the newest one owns spawnLock, and only the  *)
(* first can be inside.                                                     *)
ChainInv ==
  /\ \A i, j \in DOMAIN arrival : arrival[i] = arrival[j] => i = j
  /\ \A r \in Runs : pc[r] # "idle" <=> \E i \in DOMAIN arrival : arrival[i] = r
  /\ \A i \in DOMAIN arrival :
       awaited[arrival[i]] = IF i = 1 THEN None ELSE arrival[i-1]
  /\ spawnLock = IF arrival = << >> THEN None ELSE arrival[Len(arrival)]
  /\ \A r \in Runs : Inside(r) => arrival[1] = r

(* No wake-up is lost: for every task in the queue there is a run that has  *)
(* not yet looked at the queue, or a timer that will start one.             *)
Wakeups ==
  timers + Cardinality({r \in Runs :
                          pc[r] \in {"waiting", "delay", "resources", "dequeue"}})
NoLostWakeup == Len(queue) <= Wakeups

(* Every task that gets into the queue gets its process unless it is        *)
(* cancelled there: neither back-off timers nor the order of the runs can   *)
(* strand one.  Only a failed spawn can, which never gives the lock back    *)
(* (see LockAlwaysReleased).                                                *)
InQueue(t) == \E i \in DOMAIN queue : queue[i] = t
SpawnHasFailed == failed # {} \/ \E r \in Runs : pc[r] = "requeue"
EveryTaskSpawned ==
  \A t \in Tasks : InQueue(t) ~> t \in spawned \cup cancelled \/ SpawnHasFailed

(* A run that got the lock gives it back.  (HANDLER-DECOMPOSITION-          *)
(* INVARIANTS.md "Lock is ALWAYS released, even on errors")                  *)
LockAlwaysReleased == \A r \in Runs : Inside(r) ~> ~ Inside(r)

(* The promise chain implements a first-come first-served lock. *)
Lock == INSTANCE FifoLock WITH
          Clients <- Runs,
          line <- arrival,
          inside <- {r \in Runs : Inside(r)}
LockSpec == Lock!Spec
=============================================================================
