---------------------------- MODULE TaskRecovery ----------------------------
(***************************************************************************)
(* TaskLifecycle over several sessions of the server: it stops (a crash, a *)
(* signal or the end of its client), and the next start runs recover() of  *)
(* RecoveryManager on the database that is left.                           *)
(*                                                                         *)
(* What is in memory is lost by a stop: queue, pending runs, pool, monitor,*)
(* loops of resolveDependencies.  A graceful shutdown kills the workers    *)
(* and writes nothing to the database, so it is the same step.  Processes  *)
(* that outlive the server are not followed: no session listens to them.   *)
(***************************************************************************)
EXTENDS TaskLifecycle

CONSTANT MaxStops   \* bound: how often the server stops

ASSUME RecoveryAssumption ==
  /\ MaxStops \in Nat
  /\ IsFiniteSet(Tasks)
  /\ Cardinality(Tasks) <= MaxQueueSize   \* the queue takes every recovered task

VARIABLES
  up,             \* a session is running
  queuedResult,   \* the queued tasks that recover() has read and not come to
  runningResult,  \* the running tasks that it has read and not come to
  deleted,        \* tasks that cleanupOldTasks has deleted (ids are not used again)
  stops           \* stops so far

lists == <<queuedResult, runningResult>>
recoveryVars == <<up, lists, deleted, stops>>
allVars == <<vars, recoveryVars>>

RInit ==
  /\ Init
  /\ up = TRUE /\ queuedResult = {} /\ runningResult = {}
  /\ deleted = {} /\ stops = 0

(* recover() has tasks to come to.  It awaits TaskQueued for each of them,  *)
(* so a spawn lock that is closed for ever suspends it for ever.            *)
Recovering == ~ wedged /\ queuedResult \cup runningResult # {}

-----------------------------------------------------------------------------
(* The session ends, during recovery too: everything in memory is lost, and *)
(* so are the git commands under way.                                       *)
Stop ==
  /\ up
  /\ stops < MaxStops
  /\ up' = FALSE
  /\ stops' = stops + 1
  /\ queuedResult' = {} /\ runningResult' = {}
  /\ checkpoint' = [t \in Tasks |-> IF checkpoint[t] = "saved" THEN "saved" ELSE "none"]
  /\ copies' = [t \in Tasks |-> 0]
  /\ indexed' = {}
  /\ wakeups' = 0
  /\ wedged' = FALSE
  /\ process' = [w \in WorkerIds |-> None]
  /\ workers' = [w \in WorkerIds |-> None]
  /\ taskToWorker' = [t \in Tasks |-> None]
  /\ timers' = {}
  /\ workerCount' = 0
  /\ resolvers' = {}
  /\ UNCHANGED <<status, resolution, continueFrom, deleted>>

(* Mutant: rows that have been resolved are cleaned up as well. *)
CleanUpResolved(aged) ==
  /\ resolution' = [t \in Tasks |-> [d \in Tasks |->
                      IF resolution[t][d] = "pending" THEN "pending" ELSE "none"]]
  /\ checkpoint' = [t \in Tasks |-> IF t \in aged THEN "none" ELSE checkpoint[t]]
  /\ continueFrom' = [t \in Tasks |-> IF t \in aged THEN None ELSE continueFrom[t]]
  /\ deleted' = deleted \cup aged

(* cleanupOldTasks deletes the tasks `aged', which ended seven days ago,    *)
(* and with them (ON DELETE CASCADE) their checkpoints and every dependency *)
(* row that names them on either side.                                      *)
CleanUp(aged) ==
  /\ resolution' = [t \in Tasks |-> [d \in Tasks |->
                      IF t \in aged \/ d \in aged THEN "none" ELSE resolution[t][d]]]
  /\ checkpoint' = [t \in Tasks |-> IF t \in aged THEN "none" ELSE checkpoint[t]]
  /\ continueFrom' = [t \in Tasks |-> IF t \in aged THEN None ELSE continueFrom[t]]
  /\ deleted' = deleted \cup aged

(* Mutant: recent running tasks are left to the database. *)
BootQueuedOnly(aged) ==
  /\ ~ up
  /\ aged \subseteq {t \in Tasks : status[t] \in Terminal}
  /\ up' = TRUE
  /\ CleanUp(aged)
  /\ status' = [t \in Tasks |-> IF t \in aged THEN "none" ELSE status[t]]
  /\ queuedResult' = {t \in Tasks : status[t] = "queued"}
  /\ runningResult' = {}
  /\ UNCHANGED <<taskQueue, pool, resolvers, stops>>

(* The next session starts, and recover() deletes old tasks and reads both  *)
(* lists of tasks that it will go through.                                  *)
Boot(aged) ==
  /\ ~ up
  /\ aged \subseteq {t \in Tasks : status[t] \in Terminal}
  /\ up' = TRUE
  /\ CleanUp(aged)
  /\ status' = [t \in Tasks |-> IF t \in aged THEN "none" ELSE status[t]]
  /\ queuedResult' = {t \in Tasks : status[t] = "queued"}
  /\ runningResult' = {t \in Tasks : status[t] = "running"}
  /\ UNCHANGED <<taskQueue, pool, resolvers, stops>>

(* Mutant: TaskQueued is not emitted for recovered tasks. *)
RequeueSilently(t) ==
  /\ copies' = [copies EXCEPT ![t] = @ + 1]
  /\ Reindex(indexed \cup {t})
  /\ UNCHANGED <<wakeups, wedged>>

(* A task of either list is enqueued, whatever it depends on, unless it is  *)
(* in the queue or the queue is full.  The run that TaskQueued starts may   *)
(* fail to spawn, which leaves the lock closed and recover() waiting.       *)
Requeue(t) ==
  \/ (t \in indexed \/ QueueIsFull) /\ UNCHANGED taskQueue
  \/ /\ t \notin indexed
     /\ Enqueue(t)
     /\ wedged' \in {wedged, SpawnCanFail}

RecoverQueued(t) ==
  /\ up /\ Recovering
  /\ t \in queuedResult
  /\ queuedResult' = queuedResult \ {t}
  /\ Requeue(t)
  /\ UNCHANGED <<database, pool, resolvers, up, runningResult, deleted, stops>>

(* A task that has been running for more than 30 minutes is failed in the   *)
(* database; no event tells its dependents.                                 *)
FailStale(t) ==
  /\ status' = [status EXCEPT ![t] = "failed"]
  /\ UNCHANGED taskQueue

(* The running tasks come after all queued ones. *)
RecoverRunning(t) ==
  /\ up /\ Recovering
  /\ queuedResult = {}
  /\ t \in runningResult
  /\ runningResult' = runningResult \ {t}
  /\ FailStale(t) \/ (Requeue(t) /\ UNCHANGED status)
  /\ UNCHANGED <<resolution, continueFrom, checkpoint, pool, resolvers,
                 up, queuedResult, deleted, stops>>

(* Steps of a session.  recover() waits for promises only: while it is      *)
(* under way nothing happens but the runs that its own events have started. *)
Session ==
  /\ up
  /\ \/ \E t \in Tasks, w \in WorkerIds : SpawnWorker(t, w)
     \/ ~ Recovering /\ Next
  /\ \A t \in deleted : status'[t] = "none"
  /\ UNCHANGED recoveryVars

Start == \E aged \in SUBSET Tasks : Boot(aged)
Recover == \E t \in Tasks : RecoverQueued(t) \/ RecoverRunning(t)

RNext == Session \/ Stop \/ Start \/ Recover

RSpec == RInit /\ [][RNext]_allVars

(* A stopped server is started again and goes through its lists.  Then      *)
(* pending promises are continued, git commands end, a run of               *)
(* processNextTask that is refused comes back, and worker processes end     *)
(* (claude --print answers one prompt and exits).                           *)
InSession(A) == up /\ ~ Recovering /\ A /\ UNCHANGED recoveryVars

RFairness ==
  /\ WF_allVars(Start)
  /\ WF_allVars(Recover)
  /\ WF_allVars(InSession(Resolve))
  /\ \A t \in Tasks : WF_allVars(InSession(CheckpointSaved(t)))
  /\ SF_allVars(InSession(\E t \in Tasks, w \in WorkerIds : SpawnWorker(t, w)))
  /\ \A w \in WorkerIds :
       WF_allVars(InSession(\E o \in {"completed", "failed"} : WorkerExits(w, o)))

RFairSpec == RSpec /\ RFairness
-----------------------------------------------------------------------------
(* A resolved dependency row keeps its resolution over restarts, until one  *)
(* of its tasks is deleted.  (docs/TASK-DEPENDENCIES.md:667)                 *)
RowsNeverReopen ==
  [][\A t, d \in Tasks :
       resolution[t][d] \in Terminal =>
         resolution'[t][d] = resolution[t][d] \/ {t, d} \cap deleted' # {}]_allVars

(* "Restores QUEUED/RUNNING tasks on startup": while the server is up, a    *)
(* queued task with no pending dependency is in the queue or in a loop of   *)
(* resolveDependencies, a running task has a worker or waits in the queue   *)
(* for one, or recovery has still to come to the task.  Only a failed spawn *)
(* that has left the lock closed loses tasks: recovery does not come to the *)
(* rest of its lists then.  (docs/FEATURES.md:48)                           *)
NothingLost ==
  up /\ ~ wedged => \A t \in Tasks :
    /\ Waits(t) => Remembered(t) \/ t \in queuedResult
    /\ status[t] = "running" =>
         InHeap(t) \/ WorkerFor(t) # None \/ t \in runningResult

(* However often the server stops, every queued or running task ends: it is *)
(* not forgotten between recovery, the rows of its dependencies and the     *)
(* queue, unless a failed spawn leaves the lock closed in the last session. *)
(* (docs/FEATURES.md:48)                                                    *)
EveryTaskEnds ==
  \A t \in Tasks :
    status[t] \in {"queued", "running"} ~>
      status[t] \notin {"queued", "running"} \/ wedged
=============================================================================
