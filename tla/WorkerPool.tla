----------------------------- MODULE WorkerPool -----------------------------
(***************************************************************************)
(* The worker pool and the resource monitor beside the processes that they *)
(* account for: EventDrivenWorkerPool, ClaudeProcessSpawner,               *)
(* ProcessConnector and SystemResourceMonitor.                             *)
(*                                                                         *)
(* TaskLifecycle takes the monitor's answer as given.  Here it is computed:*)
(* a worker that has just been started is not yet visible in the free      *)
(* memory, so canSpawnWorker subtracts an estimate for every spawn of the  *)
(* settling window.  And here a process and its entry in the pool have     *)
(* lives of their own: kill() removes the entry at once, the process ends  *)
(* when it likes, or never.                                                *)
(*                                                                         *)
(* Between canSpawnWorker and recordSpawn no other run can spawn (the spawn*)
(* lock, see WorkerSpawning) and no process can exit (only promises are    *)
(* awaited), so a spawn is one action.  Memory is counted in units of a    *)
(* few hundred megabytes.  The CPU and load tests only refuse more; a      *)
(* refusal is a spawn that does not happen.                                *)
(***************************************************************************)
EXTENDS Integers, FiniteSets

CONSTANTS
  Tasks,
  WorkerIds,        \* worker-<pid>; a pid is not reused while it is remembered
  None,
  MaxWorkers,       \* maxWorkers
  TotalMemory,      \* what the programs that are not workers leave free
  MemoryPerWorker,  \* MEMORY_PER_WORKER_MB
  MemoryReserve     \* memoryReserve

ASSUME PoolAssumption ==
  /\ None \notin Tasks \cup WorkerIds
  /\ IsFiniteSet(WorkerIds)
  /\ {MaxWorkers, TotalMemory, MemoryPerWorker, MemoryReserve} \subseteq Nat

VARIABLES
  (* the operating system *)
  serves,       \* serves[w]: the task of the live process w, or None
  grown,        \* live processes that use as much memory as the estimate
  signalled,    \* live processes that were sent SIGTERM (ChildProcess.killed)
  (* EventDrivenWorkerPool *)
  workers,      \* workers[w]: the task of the pool's entry for w, or None
  taskToWorker,
  timers,       \* workers with an armed timeout timer
  forceTimers,  \* killed workers whose five-second timer is armed
  (* SystemResourceMonitor *)
  workerCount,
  recent,       \* recentSpawnTimestamps, by the worker spawned
  (* history *)
  doubled       \* tasks that were spawned while they had a worker

processes == <<serves, grown, signalled>>
pool == <<workers, taskToWorker, timers, forceTimers>>
monitor == <<workerCount, recent>>
vars == <<processes, pool, monitor, doubled>>

Live == {w \in WorkerIds : serves[w] # None}
Registered == {w \in WorkerIds : workers[w] # None}

TypeOK ==
  /\ serves \in [WorkerIds -> Tasks \cup {None}]
  /\ signalled \subseteq Live /\ grown \subseteq Live
  /\ workers \in [WorkerIds -> Tasks \cup {None}]
  /\ taskToWorker \in [Tasks -> WorkerIds \cup {None}]
  /\ timers \subseteq Registered
  /\ forceTimers \subseteq WorkerIds
  /\ workerCount \in Nat
  /\ recent \subseteq WorkerIds
  /\ doubled \subseteq Tasks

Init ==
  /\ serves = [w \in WorkerIds |-> None]
  /\ grown = {} /\ signalled = {}
  /\ workers = [w \in WorkerIds |-> None]
  /\ taskToWorker = [t \in Tasks |-> None]
  /\ timers = {} /\ forceTimers = {}
  /\ workerCount = 0 /\ recent = {}
  /\ doubled = {}

-----------------------------------------------------------------------------
(* The resource monitor. *)

(* os.freemem(): only what a process really uses is missing. *)
FreeMemory == TotalMemory - MemoryPerWorker * Cardinality(grown)

(* Mutant: the projection leaves the settling workers out. *)
CanSpawnByFreeMemory ==
  /\ workerCount + Cardinality(recent) < MaxWorkers
  /\ FreeMemory > MemoryReserve + MemoryPerWorker

(* canSpawnWorker: the worker limit and the free memory, both with the      *)
(* workers that are still settling.                                         *)
CanSpawnWorker ==
  /\ workerCount + Cardinality(recent) < MaxWorkers
  /\ FreeMemory - MemoryPerWorker * Cardinality(recent)
       > MemoryReserve + MemoryPerWorker

(* incrementWorkerCount and recordSpawn, called together. *)
RecordSpawn(w) ==
  /\ workerCount' = workerCount + 1
  /\ recent' = recent \cup {w}

(* Mutant: killAll counts as one worker less. *)
DecrementOnce(n) == workerCount' = IF workerCount > n THEN workerCount - 1 ELSE 0

(* decrementWorkerCount, n times *)
DecrementWorkerCount(n) ==
  workerCount' = IF workerCount > n THEN workerCount - n ELSE 0

-----------------------------------------------------------------------------
(* The pool. *)

(* getWorkerForTask *)
WorkerForTask(t) ==
  IF taskToWorker[t] # None /\ workers[taskToWorker[t]] # None
  THEN taskToWorker[t] ELSE None

(* A process with a pid that nothing remembers. *)
Fresh(w) ==
  /\ serves[w] = None /\ workers[w] = None
  /\ w \notin recent \cup forceTimers

(* ClaudeProcessSpawner.spawn: the process starts small. *)
StartProcess(t, w) ==
  /\ serves' = [serves EXCEPT ![w] = t]
  /\ UNCHANGED <<grown, signalled>>

(* spawn, and recordSpawnSuccessAndEmitEvents.  The pool does not ask       *)
(* whether the task has a worker already; tasks may have no timeout.        *)
Spawn(t, w) ==
  /\ CanSpawnWorker
  /\ Fresh(w)
  /\ StartProcess(t, w)
  /\ workers' = [workers EXCEPT ![w] = t]
  /\ taskToWorker' = [taskToWorker EXCEPT ![t] = w]
  /\ timers' \in {timers, timers \cup {w}}
  /\ RecordSpawn(w)
  /\ doubled' = IF \E x \in Live \cup Registered : t \in {serves[x], workers[x]}
                THEN doubled \cup {t} ELSE doubled
  /\ UNCHANGED forceTimers

(* The entries `gone' are deleted, with the mapping of their tasks. *)
Forget(gone) ==
  /\ workers' = [w \in WorkerIds |-> IF w \in gone THEN None ELSE workers[w]]
  /\ taskToWorker' = [t \in Tasks |-> IF \E w \in gone : workers[w] = t
                                      THEN None ELSE taskToWorker[t]]
  /\ DecrementWorkerCount(Cardinality(gone))

(* Mutant: the entry is deleted without a signal to the process. *)
KillEntriesOnly(gone, fired) ==
  /\ Forget(gone)
  /\ timers' = timers \ (gone \cup fired)
  /\ forceTimers' = forceTimers \cup gone
  /\ UNCHANGED <<processes, recent, doubled>>

(* Mutant: the timeout timer of a killed worker stays armed. *)
KillKeepsTimer(gone, fired) ==
  /\ signalled' = signalled \cup (gone \cap Live)
  /\ Forget(gone)
  /\ timers' = timers \ fired
  /\ forceTimers' = forceTimers \cup gone
  /\ UNCHANGED <<serves, grown, recent, doubled>>

(* kill, for all of `gone' (`fired' are timers that have just fired).  A    *)
(* live process gets SIGTERM, and so counts as `killed' from now on.        *)
Kill(gone, fired) ==
  /\ signalled' = signalled \cup (gone \cap Live)
  /\ Forget(gone)
  /\ timers' = timers \ (gone \cup fired)
  /\ forceTimers' = forceTimers \cup gone
  /\ UNCHANGED <<serves, grown, recent, doubled>>

(* A cancellation kills the worker that the pool knows for the task. *)
Cancel(t) == WorkerForTask(t) # None /\ Kill({WorkerForTask(t)}, {})

(* killAll, at shutdown *)
KillAll == Registered # {} /\ Kill(Registered, {})

(* Mutant: a timeout waits for the process to end by itself. *)
TimeoutAgain(w) ==
  /\ w \in timers
  /\ WorkerForTask(workers[w]) = None
  /\ Kill({}, {w})

(* handleWorkerTimeout looks the worker up by its task, so for a task that  *)
(* was spawned twice it may kill another worker than the one whose timer    *)
(* has fired.                                                               *)
TimeoutFires(w) ==
  /\ w \in timers
  /\ Kill(IF WorkerForTask(workers[w]) = None THEN {}
          ELSE {WorkerForTask(workers[w])}, {w})

(* The process has ended. *)
Gone(w) ==
  /\ serves' = [serves EXCEPT ![w] = None]
  /\ grown' = grown \ {w}
  /\ signalled' = signalled \ {w}

(* The process of w ends, by itself or by a signal.  ProcessConnector calls *)
(* handleWorkerCompletion once, for 'exit' or for 'error'; it looks the     *)
(* worker up by task, and does nothing if kill() has removed it.            *)
Exit(w) ==
  /\ w \in Live
  /\ Gone(w)
  /\ LET found == WorkerForTask(serves[w])
     IN IF found # None
        THEN Forget({found}) /\ timers' = timers \ {found}
        ELSE UNCHANGED <<workers, taskToWorker, timers, workerCount>>
  /\ UNCHANGED <<forceTimers, recent, doubled>>

(* Five seconds after kill(): SIGKILL, but only if the process is not yet   *)
(* `killed', and it has been since the SIGTERM.                             *)
ForceTimerFires(w) ==
  /\ w \in forceTimers
  /\ forceTimers' = forceTimers \ {w}
  /\ IF w \in Live \ signalled THEN Gone(w) ELSE UNCHANGED processes
  /\ UNCHANGED <<workers, taskToWorker, timers, monitor, doubled>>

-----------------------------------------------------------------------------
(* The environment. *)

(* A process reaches the memory that the estimate allows it. *)
Grow(w) ==
  /\ w \in Live \ grown
  /\ grown' = grown \cup {w}
  /\ UNCHANGED <<serves, signalled, pool, monitor, doubled>>

(* The settling window of a spawn is over.  Within it the process has       *)
(* reached its memory or has ended: what the window is chosen for.          *)
Settle(w) ==
  /\ w \in recent
  /\ w \in grown \/ w \notin Live
  /\ recent' = recent \ {w}
  /\ UNCHANGED <<processes, pool, workerCount, doubled>>

Next ==
  \/ \E t \in Tasks : Cancel(t) \/ \E w \in WorkerIds : Spawn(t, w)
  \/ KillAll
  \/ \E w \in WorkerIds : \/ TimeoutFires(w) \/ Exit(w) \/ ForceTimerFires(w)
                          \/ Grow(w) \/ Settle(w)

Spec == Init /\ [][Next]_vars

(* Timers fire.  Nothing is assumed of the processes, which may ignore      *)
(* SIGTERM and hang for ever.                                               *)
FairSpec == Spec /\ \A w \in WorkerIds : WF_vars(TimeoutFires(w))
-----------------------------------------------------------------------------
(* The settling projection is enough: when every process has grown to its   *)
(* estimate, the reserve is still free, although each was admitted by what  *)
(* the others used before they had grown, although killed processes linger, *)
(* and whatever order spawns, exits and windows come in.                    *)
(* (resource-monitor.ts:27)                                                 *)
MemoryReserved ==
  Live # {} => TotalMemory - MemoryPerWorker * Cardinality(Live) > MemoryReserve

(* The worker limit holds, and the monitor counts what the pool holds, also *)
(* when a task has two workers.  A fresh worker counts twice, as a worker   *)
(* and as a settling one, so the sum the limit is tested against may exceed *)
(* it by one.                                                               *)
LimitHolds ==
  /\ workerCount = Cardinality(Registered)
  /\ workerCount <= MaxWorkers
  /\ workerCount + Cardinality(recent) <= MaxWorkers + 1

(* A process that the pool has forgotten was sent SIGTERM, and the pool     *)
(* holds no entry of a process that has ended: unless its task was spawned  *)
(* twice, when looking workers up by task mixes the two up.                 *)
NoStrayProcess ==
  \A w \in WorkerIds :
    /\ serves[w] \notin doubled \cup {None} => workers[w] = serves[w] \/ w \in signalled
    /\ workers[w] \notin doubled \cup {None} =>
         serves[w] = workers[w] /\ taskToWorker[workers[w]] = w

(* A worker with a timeout gives its place back, even if its process hangs  *)
(* and ignores SIGTERM.  (event-driven-worker-pool.ts:199)                  *)
SlotReturns ==
  \A w \in WorkerIds : w \in timers ~> workers[w] \in doubled \cup {None}
=============================================================================
