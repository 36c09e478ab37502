-------------------------- MODULE WorkerPoolProofs --------------------------
(***************************************************************************)
(* Theorems about WorkerPool for any number of tasks, processes and any    *)
(* sizes of memory: types, the memory reserve, the worker limit, and that  *)
(* no process is forgotten.                                                *)
(***************************************************************************)
EXTENDS WorkerPool, FiniteSetTheorems, TLAPS

USE PoolAssumption

-----------------------------------------------------------------------------
(* Finite sets of workers. *)

LEMMA WorkerSets ==
  ASSUME NEW S \in SUBSET WorkerIds
  PROVE  IsFiniteSet(S) /\ Cardinality(S) \in Nat
  BY FS_Subset, FS_CardinalityType

LEMMA SmallerSet ==
  ASSUME NEW S \in SUBSET WorkerIds, NEW T \in SUBSET S
  PROVE  Cardinality(T) <= Cardinality(S)
  BY FS_Subset, WorkerSets

LEMMA OneMore ==
  ASSUME NEW S \in SUBSET WorkerIds, NEW w \in WorkerIds, w \notin S
  PROVE  Cardinality(S \cup {w}) = Cardinality(S) + 1
  BY FS_AddElement, WorkerSets

LEMMA UnionBound ==
  ASSUME NEW S \in SUBSET WorkerIds, NEW T \in SUBSET WorkerIds
  PROVE  Cardinality(S \cup T) <= Cardinality(S) + Cardinality(T)
<1>1. Cardinality(S \cap T) \in Nat /\ Cardinality(S) \in Nat /\ Cardinality(T) \in Nat
  BY WorkerSets
<1>2. Cardinality(S \cup T) = Cardinality(S) + Cardinality(T) - Cardinality(S \cap T)
  BY FS_Union, WorkerSets
<1>3. QED
  BY <1>1, <1>2

LEMMA WithoutSome ==
  ASSUME NEW S \in SUBSET WorkerIds, NEW T \in SUBSET S
  PROVE  Cardinality(S \ T) = Cardinality(S) - Cardinality(T)
<1>1. S \cap T = T
  OBVIOUS
<1>2. Cardinality(S \ T) = Cardinality(S) - Cardinality(S \cap T)
  BY FS_Difference, WorkerSets
<1>3. QED
  BY <1>1, <1>2

-----------------------------------------------------------------------------
(* Types, and what the parts of an action do to the sets of workers. *)

LEMMA WorkerForTaskType ==
  ASSUME TypeOK, NEW t \in Tasks, WorkerForTask(t) # None
  PROVE  /\ WorkerForTask(t) \in Registered
         /\ WorkerForTask(t) = taskToWorker[t]
  BY DEF TypeOK, WorkerForTask, Registered

LEMMA ForgetTypes ==
  ASSUME TypeOK, NEW gone \in SUBSET Registered, Forget(gone)
  PROVE  /\ workers' \in [WorkerIds -> Tasks \cup {None}]
         /\ taskToWorker' \in [Tasks -> WorkerIds \cup {None}]
         /\ workerCount' \in Nat
         /\ Registered' = Registered \ gone
<1>1. gone \in SUBSET WorkerIds
  BY DEF Registered
<1>2. Cardinality(gone) \in Nat
  BY <1>1, WorkerSets
<1>3. workerCount' \in Nat
  BY <1>2 DEF Forget, DecrementWorkerCount, TypeOK
<1>4. QED
  BY <1>3 DEF Forget, TypeOK, Registered

LEMMA KillTypes ==
  ASSUME TypeOK, NEW gone \in SUBSET Registered, NEW fired, Kill(gone, fired)
  PROVE  TypeOK' /\ Registered' = Registered \ gone
<1>1. Forget(gone)
  BY DEF Kill
<1>2. /\ workers' \in [WorkerIds -> Tasks \cup {None}]
      /\ taskToWorker' \in [Tasks -> WorkerIds \cup {None}]
      /\ workerCount' \in Nat
      /\ Registered' = Registered \ gone
  BY <1>1, ForgetTypes
<1>3. Live' = Live
  BY DEF Kill, Live
<1>4. QED
  BY <1>2, <1>3 DEF Kill, TypeOK, Registered

(* Every action that is not a spawn, an exit or a step of the environment   *)
(* is a kill().                                                             *)
LEMMA Kills ==
  ASSUME TypeOK,
         \/ \E t \in Tasks : Cancel(t)
         \/ KillAll
         \/ \E w \in WorkerIds : TimeoutFires(w)
  PROVE  \E gone \in SUBSET Registered, fired \in SUBSET timers : Kill(gone, fired)
<1>1. ASSUME NEW t \in Tasks, Cancel(t)
      PROVE  \E gone \in SUBSET Registered, fired \in SUBSET timers : Kill(gone, fired)
  BY <1>1, WorkerForTaskType DEF Cancel
<1>2. CASE KillAll
  BY <1>2 DEF KillAll
<1>3. ASSUME NEW w \in WorkerIds, TimeoutFires(w)
      PROVE  \E gone \in SUBSET Registered, fired \in SUBSET timers : Kill(gone, fired)
  <2>1. workers[w] \in Tasks
    BY <1>3 DEF TimeoutFires, TypeOK, Registered
  <2>2. DEFINE gone == IF WorkerForTask(workers[w]) = None THEN {}
                       ELSE {WorkerForTask(workers[w])}
  <2>3. gone \in SUBSET Registered
    BY <2>1, WorkerForTaskType
  <2>4. Kill(gone, {w}) /\ {w} \in SUBSET timers
    BY <1>3 DEF TimeoutFires
  <2>5. QED
    BY <2>3, <2>4
<1>4. QED
  BY <1>1, <1>2, <1>3

(* What an exit does to the pool. *)
LEMMA ExitCases ==
  ASSUME TypeOK, NEW w \in WorkerIds, Exit(w)
  PROVE  \/ /\ UNCHANGED <<workers, taskToWorker, timers, workerCount>>
            /\ WorkerForTask(serves[w]) = None
         \/ \E x \in Registered : /\ x = WorkerForTask(serves[w])
                                  /\ x = taskToWorker[serves[w]]
                                  /\ Forget({x})
                                  /\ timers' = timers \ {x}
<1>1. serves[w] \in Tasks
  BY DEF Exit, Live, TypeOK
<1>2. CASE WorkerForTask(serves[w]) = None
  BY <1>2 DEF Exit
<1>3. CASE WorkerForTask(serves[w]) # None
  BY <1>1, <1>3, WorkerForTaskType DEF Exit
<1>4. QED
  BY <1>2, <1>3

LEMMA SpawnTypes ==
  ASSUME TypeOK, NEW t \in Tasks, NEW w \in WorkerIds, Spawn(t, w)
  PROVE  /\ TypeOK'
         /\ Live' = Live \cup {w} /\ w \notin Live
         /\ Registered' = Registered \cup {w} /\ w \notin Registered
<1>1. /\ Live' = Live \cup {w} /\ w \notin Live
      /\ Registered' = Registered \cup {w} /\ w \notin Registered
  BY DEF Spawn, StartProcess, Fresh, Live, Registered, TypeOK
<1>2. /\ serves' \in [WorkerIds -> Tasks \cup {None}]
      /\ workers' \in [WorkerIds -> Tasks \cup {None}]
      /\ taskToWorker' \in [Tasks -> WorkerIds \cup {None}]
  BY DEF Spawn, StartProcess, TypeOK
<1>3. /\ timers' \subseteq Registered'
      /\ signalled' \subseteq Live' /\ grown' \subseteq Live'
  BY <1>1 DEF Spawn, StartProcess, TypeOK
<1>4. /\ workerCount' \in Nat /\ recent' \subseteq WorkerIds
      /\ forceTimers' \subseteq WorkerIds /\ doubled' \subseteq Tasks
  BY DEF Spawn, RecordSpawn, TypeOK
<1>5. QED
  BY <1>1, <1>2, <1>3, <1>4 DEF TypeOK

LEMMA ExitTypes ==
  ASSUME TypeOK, NEW w \in WorkerIds, Exit(w)
  PROVE  TypeOK' /\ Live' = Live \ {w}
<1>1. /\ Live' = Live \ {w}
      /\ serves' \in [WorkerIds -> Tasks \cup {None}]
      /\ signalled' \subseteq Live' /\ grown' \subseteq Live'
  BY DEF Exit, Gone, Live, TypeOK
<1>2. CASE UNCHANGED <<workers, taskToWorker, timers, workerCount>>
  BY <1>1, <1>2 DEF Exit, TypeOK, Registered
<1>3. ASSUME NEW x \in Registered, Forget({x}), timers' = timers \ {x}
      PROVE  TypeOK'
  <2>1. /\ workers' \in [WorkerIds -> Tasks \cup {None}]
        /\ taskToWorker' \in [Tasks -> WorkerIds \cup {None}]
        /\ workerCount' \in Nat
        /\ Registered' = Registered \ {x}
    BY <1>3, ForgetTypes
  <2>2. QED
    BY <1>1, <1>3, <2>1 DEF Exit, TypeOK
<1>4. QED
  BY <1>1, <1>2, <1>3, ExitCases

LEMMA ForceTimerTypes ==
  ASSUME TypeOK, NEW w \in WorkerIds, ForceTimerFires(w)
  PROVE  TypeOK' /\ Live' \subseteq Live /\ Registered' = Registered
<1>1. Registered' = Registered
  BY DEF ForceTimerFires, Registered
<1>2. CASE w \in Live \ signalled
  BY <1>1, <1>2 DEF ForceTimerFires, Gone, TypeOK, Live, monitor
<1>3. CASE w \notin Live \ signalled
  BY <1>1, <1>3 DEF ForceTimerFires, processes, TypeOK, Live, monitor
<1>4. QED
  BY <1>1, <1>2, <1>3

LEMMA EnvironmentTypes ==
  ASSUME TypeOK, NEW w \in WorkerIds, Grow(w) \/ Settle(w)
  PROVE  TypeOK' /\ Live' = Live /\ Registered' = Registered
<1>1. Live' = Live /\ Registered' = Registered
  BY DEF Grow, Settle, processes, pool, Live, Registered
<1>2. CASE Grow(w)
  BY <1>1, <1>2 DEF Grow, pool, monitor, TypeOK
<1>3. CASE Settle(w)
  BY <1>1, <1>3 DEF Settle, processes, pool, TypeOK
<1>4. QED
  BY <1>1, <1>2, <1>3

LEMMA InitTypes == Init => TypeOK
  BY DEF Init, TypeOK, Live, Registered

LEMMA StepTypes == TypeOK /\ [Next]_vars => TypeOK'
<1> SUFFICES ASSUME TypeOK, [Next]_vars PROVE TypeOK'
  OBVIOUS
<1>1. ASSUME NEW gone \in SUBSET Registered, NEW fired, Kill(gone, fired) PROVE TypeOK'
  BY <1>1, KillTypes
<1>2. CASE \/ \E t \in Tasks : Cancel(t)
           \/ KillAll
           \/ \E w \in WorkerIds : TimeoutFires(w)
  BY <1>1, <1>2, Kills
<1>3. CASE UNCHANGED vars
  BY <1>3 DEF vars, processes, pool, monitor, TypeOK, Live, Registered
<1>4. QED
  BY <1>2, <1>3, SpawnTypes, ExitTypes, ForceTimerTypes, EnvironmentTypes DEF Next

(* The pool is well typed: a timer belongs to an entry of the pool, only    *)
(* live processes are signalled, and the count of workers never goes below  *)
(* zero, whatever kills, exits and timeouts race.                           *)
THEOREM TypeCorrect == Spec => []TypeOK
  BY InitTypes, StepTypes, PTL DEF Spec

-----------------------------------------------------------------------------
(* Memory.  A live process that has not grown is inside the settling window *)
(* of its spawn, so the projection has counted it.                          *)

SettlingInv == Live \subseteq grown \cup recent

MemoryInv == TypeOK /\ SettlingInv /\ MemoryReserved

(* The test of canSpawnWorker leaves the reserve free for one process more. *)
LEMMA RoomForOneMore ==
  ASSUME NEW g \in Nat, NEW r \in Nat, NEW n \in Nat, n <= g + r,
         TotalMemory - MemoryPerWorker * g - MemoryPerWorker * r
           > MemoryReserve + MemoryPerWorker
  PROVE  TotalMemory - MemoryPerWorker * (n + 1) > MemoryReserve
<1> DEFINE M == MemoryPerWorker
<1>1. M * (n + 1) = M * n + M /\ M * (g + r) = M * g + M * r
  OBVIOUS
<1>2. M * n <= M * (g + r)
  OBVIOUS
<1>3. M * n \in Nat /\ M * g \in Nat /\ M * r \in Nat
  OBVIOUS
<1> HIDE DEF M
<1>4. M \in Nat
  BY DEF M
<1>5. TotalMemory - M * g - M * r > MemoryReserve + M
  BY DEF M
<1>6. TotalMemory - M * (n + 1) > MemoryReserve
  BY <1>1, <1>2, <1>3, <1>4, <1>5
<1>7. QED
  BY <1>6 DEF M

LEMMA FewerUseLess ==
  ASSUME MemoryReserved, TypeOK, TypeOK', Live' \subseteq Live
  PROVE  MemoryReserved'
<1> SUFFICES ASSUME Live' # {}
             PROVE  TotalMemory - MemoryPerWorker * Cardinality(Live') > MemoryReserve
  BY DEF MemoryReserved
<1> DEFINE n == Cardinality(Live)  k == Cardinality(Live')
<1>1. k <= n /\ k \in Nat /\ n \in Nat
  BY SmallerSet, WorkerSets DEF Live
<1>2. TotalMemory - MemoryPerWorker * n > MemoryReserve
  BY DEF MemoryReserved
<1> HIDE DEF n, k
<1>3. MemoryPerWorker * k <= MemoryPerWorker * n
  BY <1>1
<1>4. MemoryPerWorker * k \in Nat /\ MemoryPerWorker * n \in Nat
  BY <1>1
<1>5. TotalMemory - MemoryPerWorker * k > MemoryReserve
  BY <1>2, <1>3, <1>4
<1>6. QED
  BY <1>5 DEF k

LEMMA SpawnMemory ==
  ASSUME MemoryInv, NEW t \in Tasks, NEW w \in WorkerIds, Spawn(t, w)
  PROVE  MemoryInv'
<1>1. TypeOK' /\ Live' = Live \cup {w} /\ w \notin Live
  BY SpawnTypes DEF MemoryInv
<1>2. SettlingInv'
  BY <1>1 DEF MemoryInv, SettlingInv, Spawn, StartProcess, RecordSpawn
<1> DEFINE g == Cardinality(grown)  r == Cardinality(recent)  n == Cardinality(Live)
<1>3. Live \in SUBSET WorkerIds /\ grown \in SUBSET WorkerIds /\ recent \in SUBSET WorkerIds
  BY DEF MemoryInv, TypeOK, Live
<1>4. g \in Nat /\ r \in Nat /\ n \in Nat
  BY <1>3, WorkerSets
<1>5. n <= g + r
  <2>1. Live \in SUBSET (grown \cup recent) /\ (grown \cup recent) \in SUBSET WorkerIds
    BY <1>3 DEF MemoryInv, SettlingInv
  <2>2. n <= Cardinality(grown \cup recent)
    BY <2>1, SmallerSet
  <2>3. Cardinality(grown \cup recent) <= g + r
    BY <1>3, UnionBound
  <2>4. Cardinality(grown \cup recent) \in Nat
    BY <2>1, WorkerSets
  <2>5. QED
    BY <1>4, <2>2, <2>3, <2>4
<1>6. TotalMemory - MemoryPerWorker * g - MemoryPerWorker * r
        > MemoryReserve + MemoryPerWorker
  BY DEF Spawn, CanSpawnWorker, FreeMemory
<1>7. Cardinality(Live') = n + 1
  BY <1>1, <1>3, OneMore
<1>8. TotalMemory - MemoryPerWorker * (n + 1) > MemoryReserve
  BY <1>4, <1>5, <1>6, RoomForOneMore
<1>9. MemoryReserved'
  BY <1>7, <1>8 DEF MemoryReserved
<1>10. QED
  BY <1>1, <1>2, <1>9 DEF MemoryInv

LEMMA StepMemory == MemoryInv /\ [Next]_vars => MemoryInv'
<1> SUFFICES ASSUME MemoryInv, [Next]_vars PROVE MemoryInv'
  OBVIOUS
<1> USE DEF MemoryInv
<1>1. TypeOK'
  BY StepTypes
<1>2. ASSUME NEW gone \in SUBSET Registered, NEW fired, Kill(gone, fired) PROVE MemoryInv'
  BY <1>1, <1>2, FewerUseLess DEF Kill, SettlingInv, Live
<1>3. ASSUME NEW w \in WorkerIds, Exit(w) PROVE MemoryInv'
  <2>1. Live' \subseteq Live
    BY <1>3, ExitTypes
  <2>2. SettlingInv'
    BY <1>3 DEF Exit, Gone, SettlingInv, Live, TypeOK
  <2>3. QED
    BY <1>1, <2>1, <2>2, FewerUseLess
<1>4. ASSUME NEW w \in WorkerIds, ForceTimerFires(w) PROVE MemoryInv'
  <2>1. Live' \subseteq Live
    BY <1>4, ForceTimerTypes
  <2>2. SettlingInv'
    BY <1>4 DEF ForceTimerFires, Gone, SettlingInv, Live, TypeOK, monitor, processes
  <2>3. QED
    BY <1>1, <2>1, <2>2, FewerUseLess
<1>5. ASSUME NEW w \in WorkerIds, Grow(w) \/ Settle(w) PROVE MemoryInv'
  <2>1. Live' \subseteq Live
    BY <1>5, EnvironmentTypes
  <2>2. SettlingInv'
    BY <1>5 DEF Grow, Settle, processes, pool, monitor, SettlingInv, Live, TypeOK
  <2>3. QED
    BY <1>1, <2>1, <2>2, FewerUseLess
<1>6. CASE UNCHANGED vars
  <2>1. Live' \subseteq Live /\ SettlingInv'
    BY <1>6 DEF vars, processes, monitor, SettlingInv, Live
  <2>2. QED
    BY <1>1, <2>1, FewerUseLess
<1>7. CASE \/ \E t \in Tasks : Cancel(t)
           \/ KillAll
           \/ \E w \in WorkerIds : TimeoutFires(w)
  BY <1>2, <1>7, Kills
<1>8. QED
  BY <1>3, <1>4, <1>5, <1>6, <1>7, SpawnMemory DEF Next

(* With any reserve, any estimate and any number of processes, the memory   *)
(* reserve is still free when all workers have grown to the estimate.       *)
THEOREM ReserveKept == Spec => []MemoryReserved
<1>1. Init => MemoryInv
  BY InitTypes DEF Init, MemoryInv, SettlingInv, MemoryReserved, Live
<1>2. MemoryInv => MemoryReserved
  BY DEF MemoryInv
<1>3. QED
  BY <1>1, <1>2, StepMemory, PTL DEF Spec

-----------------------------------------------------------------------------
(* The worker limit and the count. *)

LimitInv == TypeOK /\ LimitHolds

LEMMA ForgetCounts ==
  ASSUME LimitInv, NEW gone \in SUBSET Registered, Forget(gone)
  PROVE  workerCount' = Cardinality(Registered') /\ workerCount' <= workerCount
<1>1. Registered' = Registered \ gone
  BY ForgetTypes DEF LimitInv
<1>2. Registered \in SUBSET WorkerIds /\ gone \in SUBSET WorkerIds
  BY DEF Registered
<1>3. Cardinality(Registered \ gone) = Cardinality(Registered) - Cardinality(gone)
  BY <1>2, WithoutSome
<1>4. Cardinality(gone) <= Cardinality(Registered)
  BY <1>2, SmallerSet
<1>5. Cardinality(gone) \in Nat /\ Cardinality(Registered) \in Nat
  BY <1>2, WorkerSets
<1>6. workerCount = Cardinality(Registered)
  BY DEF LimitInv, LimitHolds
<1>7. workerCount' = workerCount - Cardinality(gone)
  BY <1>4, <1>5, <1>6 DEF Forget, DecrementWorkerCount
<1>8. QED
  BY <1>1, <1>3, <1>5, <1>6, <1>7

(* A step that starts nothing. *)
LEMMA LimitKept ==
  ASSUME LimitInv, TypeOK', workerCount' = Cardinality(Registered'),
         workerCount' <= workerCount, recent' \subseteq recent
  PROVE  LimitInv'
<1>1. Cardinality(recent') <= Cardinality(recent)
  BY SmallerSet DEF LimitInv, TypeOK
<1>2. Cardinality(recent') \in Nat /\ Cardinality(recent) \in Nat
  BY WorkerSets DEF LimitInv, TypeOK
<1>3. workerCount \in Nat /\ workerCount' \in Nat
  BY DEF LimitInv, TypeOK
<1>4. workerCount <= MaxWorkers /\ workerCount + Cardinality(recent) <= MaxWorkers + 1
  BY DEF LimitInv, LimitHolds
<1>5. workerCount' <= MaxWorkers /\ workerCount' + Cardinality(recent') <= MaxWorkers + 1
  BY <1>1, <1>2, <1>3, <1>4
<1>6. QED
  BY <1>5 DEF LimitInv, LimitHolds

LEMMA SpawnLimit ==
  ASSUME LimitInv, NEW t \in Tasks, NEW w \in WorkerIds, Spawn(t, w)
  PROVE  LimitInv'
<1>1. TypeOK' /\ Registered' = Registered \cup {w} /\ w \notin Registered
  BY SpawnTypes DEF LimitInv
<1>2. /\ workerCount' = workerCount + 1
      /\ recent' = recent \cup {w} /\ w \notin recent
      /\ workerCount + Cardinality(recent) < MaxWorkers
  BY DEF Spawn, RecordSpawn, Fresh, CanSpawnWorker
<1>3. Registered \in SUBSET WorkerIds /\ recent \in SUBSET WorkerIds
  BY DEF LimitInv, TypeOK, Registered
<1>4. /\ Cardinality(Registered') = Cardinality(Registered) + 1
      /\ Cardinality(recent') = Cardinality(recent) + 1
  BY <1>1, <1>2, <1>3, OneMore
<1>5. workerCount \in Nat /\ Cardinality(recent) \in Nat
  BY <1>3, WorkerSets DEF LimitInv, TypeOK
<1>6. QED
  BY <1>1, <1>2, <1>4, <1>5 DEF LimitInv, LimitHolds

LEMMA StepLimit == LimitInv /\ [Next]_vars => LimitInv'
<1> SUFFICES ASSUME LimitInv, [Next]_vars PROVE LimitInv'
  OBVIOUS
<1>1. TypeOK /\ TypeOK' /\ workerCount = Cardinality(Registered) /\ workerCount \in Nat
  BY StepTypes DEF LimitInv, LimitHolds, TypeOK
<1>2. ASSUME NEW gone \in SUBSET Registered, NEW fired, Kill(gone, fired) PROVE LimitInv'
  BY <1>1, <1>2, ForgetCounts, LimitKept DEF Kill
<1>3. ASSUME NEW w \in WorkerIds, Exit(w) PROVE LimitInv'
  <2>1. recent' = recent
    BY <1>3 DEF Exit
  <2>2. CASE UNCHANGED <<workers, taskToWorker, timers, workerCount>>
    BY <1>1, <2>1, <2>2, LimitKept DEF Registered
  <2>3. ASSUME NEW x \in Registered, Forget({x}) PROVE LimitInv'
    BY <1>1, <2>1, <2>3, ForgetCounts, LimitKept
  <2>4. QED
    BY <1>1, <1>3, <2>2, <2>3, ExitCases
<1>4. ASSUME NEW w \in WorkerIds, ForceTimerFires(w) \/ Grow(w) \/ Settle(w)
      PROVE  LimitInv'
  <2>1. Registered' = Registered
    BY <1>1, <1>4, ForceTimerTypes, EnvironmentTypes
  <2>2. workerCount' = workerCount /\ recent' \subseteq recent
    BY <1>4 DEF ForceTimerFires, Grow, Settle, monitor
  <2>3. QED
    BY <1>1, <2>1, <2>2, LimitKept
<1>5. CASE UNCHANGED vars
  BY <1>1, <1>5, LimitKept DEF vars, pool, monitor, Registered
<1>6. CASE \/ \E t \in Tasks : Cancel(t)
           \/ KillAll
           \/ \E w \in WorkerIds : TimeoutFires(w)
  BY <1>1, <1>2, <1>6, Kills
<1>7. QED
  BY <1>3, <1>4, <1>5, <1>6, SpawnLimit DEF Next

(* The monitor's count is the size of the pool and never exceeds the limit, *)
(* for any number of processes, also when a task has two of them.           *)
THEOREM LimitKeptAlways == Spec => []LimitHolds
<1>1. Init => LimitInv
  <2> SUFFICES ASSUME Init PROVE LimitInv
    OBVIOUS
  <2>1. Registered = {} /\ recent = {} /\ workerCount = 0
    BY DEF Init, Registered
  <2>2. Cardinality({}) = 0
    BY FS_EmptySet
  <2>3. QED
    BY <2>1, <2>2, InitTypes DEF LimitInv, LimitHolds
<1>2. LimitInv => LimitHolds
  BY DEF LimitInv
<1>3. QED
  BY <1>1, <1>2, StepLimit, PTL DEF Spec

-----------------------------------------------------------------------------
(* No stray process.  As long as a task is spawned once, one process at     *)
(* most has to do with it, so looking the worker up by task finds the       *)
(* process that the event is about.                                         *)

Concerns(w, t) == t \in {serves[w], workers[w]}

OneEach ==
  \A x, y \in WorkerIds, t \in Tasks \ doubled : Concerns(x, t) /\ Concerns(y, t) => x = y

MapInv == \A t \in Tasks : taskToWorker[t] # None => workers[taskToWorker[t]] = t

(* A killed process that still lives counts as `killed'. *)
ForceInv == forceTimers \cap Live \subseteq signalled

StrayInv == TypeOK /\ MapInv /\ OneEach /\ ForceInv /\ NoStrayProcess

LEMMA SpawnStray ==
  ASSUME StrayInv, NEW t \in Tasks, NEW w \in WorkerIds, Spawn(t, w)
  PROVE  StrayInv'
<1>1. /\ serves' = [serves EXCEPT ![w] = t] /\ signalled' = signalled
      /\ workers' = [workers EXCEPT ![w] = t]
      /\ taskToWorker' = [taskToWorker EXCEPT ![t] = w]
      /\ serves[w] = None /\ workers[w] = None
  BY DEF Spawn, StartProcess, Fresh
<1>2. doubled \subseteq doubled' /\ \A x \in WorkerIds : Concerns(x, t) => t \in doubled'
  BY DEF Spawn, Concerns, Live, Registered
<1>3. TypeOK' /\ TypeOK
  BY SpawnTypes DEF StrayInv
<1>4. OneEach'
  BY <1>1, <1>2, <1>3 DEF StrayInv, OneEach, Concerns, TypeOK
<1>5. NoStrayProcess'
  BY <1>1, <1>2, <1>3 DEF StrayInv, NoStrayProcess, Concerns, TypeOK
<1>6. MapInv'
  BY <1>1, <1>3 DEF StrayInv, MapInv, TypeOK
<1>7. ForceInv'
  BY <1>1, <1>3 DEF Spawn, Fresh, StrayInv, ForceInv, Live, TypeOK
<1>8. QED
  BY <1>3, <1>4, <1>5, <1>6, <1>7 DEF StrayInv

(* Entries leave together with the mapping of their tasks. *)
LEMMA ForgetMap ==
  ASSUME TypeOK, MapInv, NEW gone \in SUBSET Registered, Forget(gone)
  PROVE  MapInv'
<1> SUFFICES ASSUME NEW t \in Tasks, taskToWorker'[t] # None
             PROVE  workers'[taskToWorker'[t]] = t
  BY DEF MapInv
<1>1. taskToWorker'[t] = taskToWorker[t] /\ \A g \in gone : workers[g] # t
  BY DEF Forget, Registered, TypeOK
<1>2. taskToWorker[t] \in WorkerIds /\ workers[taskToWorker[t]] = t
  BY <1>1 DEF MapInv, TypeOK
<1>3. QED
  BY <1>1, <1>2 DEF Forget

LEMMA KillStray ==
  ASSUME StrayInv, NEW gone \in SUBSET Registered, NEW fired, Kill(gone, fired)
  PROVE  StrayInv'
<1>1. /\ serves' = serves /\ doubled' = doubled
      /\ signalled' = signalled \cup (gone \cap Live)
      /\ workers' = [w \in WorkerIds |-> IF w \in gone THEN None ELSE workers[w]]
      /\ taskToWorker' = [t \in Tasks |-> IF \E w \in gone : workers[w] = t
                                          THEN None ELSE taskToWorker[t]]
  BY DEF Kill, Forget
<1>2. TypeOK /\ TypeOK' /\ gone \subseteq WorkerIds
  BY KillTypes DEF StrayInv, Registered
<1>3. OneEach'
  BY <1>1, <1>2 DEF StrayInv, OneEach, Concerns, TypeOK
<1>4. ASSUME NEW w \in WorkerIds, serves'[w] \notin doubled' \cup {None}
      PROVE  workers'[w] = serves'[w] \/ w \in signalled'
  BY <1>1, <1>2, <1>4 DEF StrayInv, NoStrayProcess, Live, TypeOK
<1>5. ASSUME NEW w \in WorkerIds, workers'[w] \notin doubled' \cup {None}
      PROVE  serves'[w] = workers'[w] /\ taskToWorker'[workers'[w]] = w
  <2>1. /\ w \notin gone /\ workers'[w] = workers[w]
        /\ workers[w] \in Tasks \ doubled
    BY <1>1, <1>2, <1>5 DEF TypeOK
  <2>2. serves[w] = workers[w] /\ taskToWorker[workers[w]] = w
    BY <2>1 DEF StrayInv, NoStrayProcess
  <2>3. ASSUME NEW g \in gone, workers[g] = workers[w] PROVE FALSE
    BY <1>2, <2>1, <2>3 DEF StrayInv, OneEach, Concerns
  <2>4. QED
    BY <1>1, <2>1, <2>2, <2>3
<1>6. MapInv'
  BY ForgetMap DEF Kill, StrayInv
<1>7. ForceInv'
  BY <1>1 DEF Kill, StrayInv, ForceInv, Live
<1>8. QED
  BY <1>2, <1>3, <1>4, <1>5, <1>6, <1>7 DEF StrayInv, NoStrayProcess

LEMMA ExitStray ==
  ASSUME StrayInv, NEW w \in WorkerIds, Exit(w)
  PROVE  StrayInv'
<1> DEFINE t == serves[w]
<1>1. TypeOK /\ TypeOK' /\ t \in Tasks
  <2>1. TypeOK
    BY DEF StrayInv
  <2>2. TypeOK'
    BY <2>1, ExitTypes
  <2>3. t \in Tasks
    BY <2>1 DEF Exit, Live, TypeOK
  <2>4. QED
    BY <2>1, <2>2, <2>3
<1>2. /\ serves' = [serves EXCEPT ![w] = None] /\ doubled' = doubled
      /\ signalled' = signalled \ {w}
  BY DEF Exit, Gone
<1>0. ForceInv'
  BY <1>1, <1>2 DEF Exit, StrayInv, ForceInv, Live, TypeOK
<1>3. CASE /\ UNCHANGED <<workers, taskToWorker, timers, workerCount>>
           /\ WorkerForTask(t) = None
  <2>1. workers[w] \in doubled \cup {None}
    <3> SUFFICES ASSUME workers[w] \notin doubled \cup {None} PROVE FALSE
      OBVIOUS
    <3>1. serves[w] = workers[w] /\ taskToWorker[workers[w]] = w
      BY DEF StrayInv, NoStrayProcess
    <3>2. QED
      BY <1>1, <1>3, <3>1 DEF WorkerForTask
  <2>2. OneEach'
    BY <1>1, <1>2, <1>3 DEF StrayInv, OneEach, Concerns, TypeOK
  <2>3. NoStrayProcess'
    BY <1>1, <1>2, <1>3, <2>1 DEF StrayInv, NoStrayProcess, TypeOK
  <2>4. MapInv'
    BY <1>3 DEF StrayInv, MapInv
  <2>5. QED
    BY <1>1, <1>0, <2>2, <2>3, <2>4 DEF StrayInv
<1>4. ASSUME NEW x \in Registered, x = taskToWorker[t], x = WorkerForTask(t), Forget({x})
      PROVE  StrayInv'
  <2>1. /\ workers' = [y \in WorkerIds |-> IF y = x THEN None ELSE workers[y]]
        /\ taskToWorker' = [u \in Tasks |-> IF workers[x] = u
                                            THEN None ELSE taskToWorker[u]]
    BY <1>4 DEF Forget
  <2>2. x \in WorkerIds /\ workers[x] \in Tasks
    BY <1>1 DEF Registered, TypeOK
  <2>3. OneEach'
    BY <1>1, <1>2, <2>1 DEF StrayInv, OneEach, Concerns, TypeOK
  <2>4. ASSUME NEW y \in WorkerIds, serves'[y] \notin doubled' \cup {None}
        PROVE  workers'[y] = serves'[y] \/ y \in signalled'
    <3>1. y # w /\ serves'[y] = serves[y] /\ serves[y] \in Tasks \ doubled
      BY <1>1, <1>2, <2>4 DEF TypeOK
    <3>2. CASE y \in signalled
      BY <1>2, <3>1, <3>2
    <3>3. CASE y \notin signalled
      <4>1. workers[y] = serves[y]
        BY <3>1, <3>3 DEF StrayInv, NoStrayProcess
      <4>2. y # x
        <5> SUFFICES ASSUME y = x PROVE FALSE
          OBVIOUS
        <5>1. taskToWorker[serves[y]] = y /\ serves[y] \in Tasks
          BY <3>1, <4>1 DEF StrayInv, NoStrayProcess
        <5>2. workers[x] = t
          <6>1. taskToWorker[t] = x /\ x # None
            BY <1>4, <2>2
          <6>2. QED
            BY <1>1, <6>1 DEF StrayInv, MapInv
        <5>3. Concerns(y, t) /\ Concerns(w, t) /\ t \in Tasks \ doubled
          BY <1>1, <3>1, <4>1, <5>2 DEF Concerns
        <5>4. QED
          BY <3>1, <5>3 DEF StrayInv, OneEach
      <4>3. QED
        BY <2>1, <3>1, <4>1, <4>2
    <3>4. QED
      BY <3>2, <3>3
  <2>5. ASSUME NEW y \in WorkerIds, workers'[y] \notin doubled' \cup {None}
        PROVE  serves'[y] = workers'[y] /\ taskToWorker'[workers'[y]] = y
    <3>1. y # x /\ workers'[y] = workers[y] /\ workers[y] \in Tasks \ doubled
      BY <1>1, <1>2, <2>1, <2>5 DEF TypeOK
    <3>2. serves[y] = workers[y] /\ taskToWorker[workers[y]] = y
      BY <3>1 DEF StrayInv, NoStrayProcess
    <3>3. y # w
      BY <1>4, <3>1, <3>2
    <3>4. workers[x] # workers[y]
      BY <2>2, <3>1 DEF StrayInv, OneEach, Concerns
    <3>5. QED
      BY <1>1, <1>2, <2>1, <3>1, <3>2, <3>3, <3>4 DEF TypeOK
  <2>6. MapInv'
    BY <1>4, ForgetMap DEF StrayInv
  <2>7. QED
    BY <1>1, <1>0, <2>3, <2>4, <2>5, <2>6 DEF StrayInv, NoStrayProcess
<1>5. QED
  BY <1>1, <1>3, <1>4, ExitCases

LEMMA StepStray == StrayInv /\ [Next]_vars => StrayInv'
<1> SUFFICES ASSUME StrayInv, [Next]_vars PROVE StrayInv'
  OBVIOUS
<1>1. TypeOK /\ TypeOK'
  BY StepTypes DEF StrayInv
<1>2. ASSUME UNCHANGED <<serves, signalled, workers, taskToWorker, doubled>>,
             forceTimers' \subseteq forceTimers
      PROVE  StrayInv'
  BY <1>1, <1>2 DEF StrayInv, MapInv, OneEach, Concerns, ForceInv, NoStrayProcess, Live
<1>3. ASSUME NEW w \in WorkerIds, ForceTimerFires(w) PROVE StrayInv'
  <2>1. w \notin Live \ signalled
    BY <1>3 DEF ForceTimerFires, StrayInv, ForceInv
  <2>2. QED
    BY <1>2, <1>3, <2>1 DEF ForceTimerFires, processes
<1>4. ASSUME NEW w \in WorkerIds, Grow(w) \/ Settle(w) PROVE StrayInv'
  BY <1>2, <1>4 DEF Grow, Settle, processes, pool
<1>5. CASE UNCHANGED vars
  BY <1>2, <1>5 DEF vars, processes, pool
<1>6. CASE \/ \E t \in Tasks : Cancel(t)
           \/ KillAll
           \/ \E w \in WorkerIds : TimeoutFires(w)
  BY <1>1, <1>6, Kills, KillStray
<1>7. QED
  BY <1>3, <1>4, <1>5, <1>6, SpawnStray, ExitStray DEF Next

LEMMA InitStray == Init => StrayInv
  BY InitTypes
     DEF Init, StrayInv, MapInv, OneEach, Concerns, ForceInv, NoStrayProcess, Live

(* Whatever events race, a process that the pool has forgotten was sent     *)
(* SIGTERM, and the pool keeps no entry of a process that has ended.        *)
THEOREM NoProcessForgotten == Spec => []NoStrayProcess
<1>1. StrayInv => NoStrayProcess
  BY DEF StrayInv
<1>2. QED
  BY <1>1, InitStray, StepStray, PTL DEF Spec

(* The five-second timer of kill() never ends a process: whenever it fires, *)
(* the process has ended or counts as killed, so no SIGKILL is sent to one  *)
(* that ignores SIGTERM.  (event-driven-worker-pool.ts:123 says otherwise.) *)
THEOREM ForcedKillNeverComes == Spec => []ForceInv
<1>1. StrayInv => ForceInv
  BY DEF StrayInv
<1>2. QED
  BY <1>1, InitStray, StepStray, PTL DEF Spec
=============================================================================
