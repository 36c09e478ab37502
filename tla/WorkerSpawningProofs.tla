----------------------- MODULE WorkerSpawningProofs -----------------------
(***************************************************************************)
(* Theorems about WorkerSpawning for any number of runs and tasks, any     *)
(* minimum delay and any queue size.  The order of the file is the order   *)
(* of the argument: types, then the chain of promises, then mutual         *)
(* exclusion, the gap between two spawns, the wake-ups, the refinement.    *)
(***************************************************************************)
EXTENDS WorkerSpawning, SequenceTheorems, FiniteSetTheorems, TLAPS

USE ConstantsAssumption

-----------------------------------------------------------------------------
(* Taking one element out of a sequence leaves a sequence over the same     *)
(* set (the queue after a cancellation).                                    *)
LEMMA RemovalIsSeq ==
  ASSUME NEW S, NEW s \in Seq(S), NEW i \in DOMAIN s
  PROVE  SubSeq(s, 1, i-1) \o SubSeq(s, i+1, Len(s)) \in Seq(S)
<1>1. i \in 1..Len(s)
  BY LenProperties
<1>2. SubSeq(s, 1, i-1) \in Seq(S)
  BY <1>1, SubSeqProperties
<1>3. SubSeq(s, i+1, Len(s)) \in Seq(S)
  BY <1>1, SubSeqProperties
<1>4. QED
  BY <1>2, <1>3, ConcatProperties

(* ... one element shorter. *)
LEMMA RemovalShortens ==
  ASSUME NEW S, NEW s \in Seq(S), NEW i \in DOMAIN s
  PROVE  Len(SubSeq(s, 1, i-1) \o SubSeq(s, i+1, Len(s))) = Len(s) - 1
<1>1. i \in 1..Len(s) /\ Len(s) \in Nat /\ \A j \in 1..Len(s) : s[j] \in S
  BY LenProperties, ElementOfSeq
<1>2. SubSeq(s, 1, i-1) \in Seq(S) /\ Len(SubSeq(s, 1, i-1)) = i-1
  <2>1. \A j \in 1..(i-1) : s[j] \in S
    BY <1>1
  <2>2. /\ SubSeq(s, 1, i-1) \in Seq(S)
        /\ Len(SubSeq(s, 1, i-1)) = IF 1 <= i-1 THEN (i-1)-1+1 ELSE 0
    BY <1>1, <2>1, SubSeqProperties
  <2>3. QED
    BY <1>1, <2>2
<1>3. /\ SubSeq(s, i+1, Len(s)) \in Seq(S)
      /\ Len(SubSeq(s, i+1, Len(s))) = Len(s) - i
  <2>1. \A j \in (i+1)..Len(s) : s[j] \in S
    BY <1>1
  <2>2. /\ SubSeq(s, i+1, Len(s)) \in Seq(S)
        /\ Len(SubSeq(s, i+1, Len(s))) = IF i+1 <= Len(s) THEN Len(s)-(i+1)+1 ELSE 0
    BY <1>1, <2>1, SubSeqProperties
  <2>3. QED
    BY <1>1, <2>2
<1>4. Len(SubSeq(s, 1, i-1) \o SubSeq(s, i+1, Len(s))) = (i-1) + (Len(s) - i)
  BY <1>2, <1>3, ConcatProperties
<1>5. (i-1) + (Len(s) - i) = Len(s) - 1
  BY <1>1
<1>6. QED
  BY <1>4, <1>5

(* A run past "dequeue" holds a task. *)
JobInv ==
  \A r \in Runs : pc[r] \in {"spawn", "record", "emit", "requeue"} => job[r] \in Tasks

(* The inductive invariant: releasing the lock keeps `arrival' a sequence   *)
(* only because a run inside is the first in line, so types and the chain   *)
(* are established together.                                                *)
SpawnInv == TypeOK /\ JobInv /\ ChainInv

LEMMA ArrivalNotEmpty ==
  ASSUME TypeOK, ChainInv, NEW r \in Runs, pc[r] # "idle"
  PROVE  /\ arrival # << >>
         /\ Head(arrival) \in Runs
         /\ Tail(arrival) \in Seq(Runs)
<1>1. arrival \in Seq(Runs)
  BY DEF TypeOK
<1>2. PICK i \in DOMAIN arrival : arrival[i] = r
  BY DEF ChainInv
<1>3. arrival # << >>
  BY <1>2, EmptySeq
<1>4. QED
  BY <1>1, <1>3, HeadTailProperties

LEMMA InitSpawnInv == Init => SpawnInv
<1> SUFFICES ASSUME Init PROVE SpawnInv
  OBVIOUS
<1>1. TypeOK
  BY DEF Init, TypeOK, Stages
<1>2. JobInv
  BY DEF Init, JobInv
<1>3. ChainInv
  BY DEF Init, ChainInv, Inside, Protected, Stages
<1>4. QED
  BY <1>1, <1>2, <1>3 DEF SpawnInv

LEMMA TypeStep == SpawnInv /\ [Next]_vars => TypeOK' /\ JobInv'
<1> SUFFICES ASSUME SpawnInv, [Next]_vars PROVE TypeOK' /\ JobInv'
  OBVIOUS
<1> USE DEF SpawnInv, TypeOK, JobInv, Stages, lockVars, timeVars, outcomes
<1>1. CASE UNCHANGED vars
  BY <1>1 DEF vars
<1>2. CASE Tick
  BY <1>2 DEF Tick
<1>3. ASSUME NEW r \in Runs, RetryTimer(r) PROVE TypeOK' /\ JobInv'
  BY <1>3 DEF RetryTimer, Chain
<1>4. ASSUME NEW t \in Tasks, TaskRefused(t) PROVE TypeOK' /\ JobInv'
  BY <1>4 DEF TaskRefused
<1>5. ASSUME NEW t \in Tasks, CancelQueued(t) PROVE TypeOK' /\ JobInv'
  <2>1. queue' \in Seq(Tasks)
    BY <1>5, RemovalIsSeq DEF CancelQueued
  <2>2. QED
    BY <1>5, <2>1 DEF CancelQueued
<1>6. ASSUME NEW t \in Tasks, NEW r \in Runs, TaskQueued(r, t)
      PROVE  TypeOK' /\ JobInv'
  BY <1>6 DEF TaskQueued, Chain
<1>7. ASSUME NEW r \in Runs, Process(r) PROVE TypeOK' /\ JobInv'
  <2>0. ASSUME ReleaseLock(r), pc[r] # "idle"
        PROVE /\ pc' \in [Runs -> Stages]
              /\ awaited' \in [Runs -> Runs \cup {None}]
              /\ spawnLock' \in Runs \cup {None}
              /\ arrival' \in Seq(Runs)
              /\ job' \in [Runs -> Tasks \cup {None}]
              /\ JobInv'
    <3>1. arrival' \in Seq(Runs)
      BY <2>0, ArrivalNotEmpty DEF ReleaseLock
    <3>2. QED
      BY <2>0, <3>1 DEF ReleaseLock
  <2>1. CASE EnterLock(r)
    BY <2>1 DEF EnterLock
  <2>2. CASE DelayCheck(r)
    BY <2>0, <2>2 DEF DelayCheck, ScheduleRetry, GoOn
  <2>3. CASE ResourcesAvailable(r)
    BY <2>3 DEF ResourcesAvailable, GoOn
  <2>4. CASE ResourcesConstrained(r)
    BY <2>0, <2>4 DEF ResourcesConstrained, ScheduleRetry
  <2>5. CASE DequeueTask(r)
    <3>1. Head(queue) \in Tasks /\ Tail(queue) \in Seq(Tasks)
      BY <2>5, HeadTailProperties DEF DequeueTask
    <3>2. QED
      BY <2>5, <3>1 DEF DequeueTask
  <2>6. CASE DequeueNothing(r)
    BY <2>0, <2>6 DEF DequeueNothing
  <2>7. CASE SpawnWorker(r)
    BY <2>7 DEF SpawnWorker
  <2>8. CASE RecordSpawn(r)
    BY <2>8 DEF RecordSpawn
  <2>9. CASE SpawnReported(r)
    BY <2>0, <2>9 DEF SpawnReported
  <2>10. CASE SpawnFailsUnqueued(r)
    BY <2>10 DEF SpawnFailsUnqueued, GoOn
  <2>11. CASE ReportSpawnFailure(r)
    BY <2>0, <2>11 DEF ReportSpawnFailure
  <2>12. ASSUME NEW n \in Runs \ {r}, SpawnFails(r, n) PROVE TypeOK' /\ JobInv'
    <3>1. job[r] \in Tasks /\ n \in Runs /\ r # n
      BY <2>12 DEF SpawnFails
    <3>2. TypeOK'
      <4>1. queue' \in Seq(Tasks)
        BY <2>12, <3>1, AppendProperties DEF SpawnFails
      <4>2. arrival' \in Seq(Runs)
        BY <2>12, <3>1, AppendProperties DEF SpawnFails, Chain
      <4>3. pc' \in [Runs -> Stages] /\ nested' \in [Runs -> Runs \cup {None}]
        BY <2>12, <3>1 DEF SpawnFails
      <4>4. QED
        BY <2>12, <3>1, <4>1, <4>2, <4>3 DEF SpawnFails, Chain
    <3>3. JobInv'
      BY <2>12, <3>1 DEF SpawnFails, Chain
    <3>4. QED
      BY <3>2, <3>3
  <2>13. QED
    BY <1>7, <2>1, <2>2, <2>3, <2>4, <2>5, <2>6, <2>7, <2>8, <2>9, <2>10, <2>11,
       <2>12 DEF Process
<1>8. QED
  BY <1>1, <1>2, <1>3, <1>4, <1>5, <1>6, <1>7 DEF Next

-----------------------------------------------------------------------------
(* The three things a step does to the chain: a run arrives, a run leaves,  *)
(* or runs move while the chain stays as it is.                             *)

LEMMA ArriveKeepsChain ==
  ASSUME SpawnInv, NEW r \in Runs, Chain(r), pc'[r] = "waiting",
         \A q \in Runs \ {r} : /\ pc'[q] = "idle" <=> pc[q] = "idle"
                               /\ Inside(q)' => Inside(q)
  PROVE  ChainInv'
<1> DEFINE n == Len(arrival)
<1>1. /\ arrival \in Seq(Runs) /\ n \in Nat /\ DOMAIN arrival = 1..n
      /\ arrival' = Append(arrival, r)
      /\ DOMAIN arrival' = 1..(n+1) /\ Len(arrival') = n+1
      /\ \A i \in 1..n : arrival'[i] = arrival[i]
      /\ arrival'[n+1] = r
  BY AppendProperties, LenProperties DEF SpawnInv, TypeOK, Chain
<1>2. \A i \in 1..n : arrival[i] # r /\ arrival[i] \in Runs
  <2>1. \A i \in 1..n : arrival[i] \in Runs
    BY <1>1, ElementOfSeq
  <2>2. \A i \in DOMAIN arrival : arrival[i] # r
    BY DEF SpawnInv, ChainInv, Chain
  <2>3. QED
    BY <1>1, <2>1, <2>2
<1>3. \A i, j \in DOMAIN arrival' : arrival'[i] = arrival'[j] => i = j
  BY <1>1, <1>2 DEF SpawnInv, ChainInv
<1>4. \A q \in Runs : pc'[q] # "idle" <=> \E i \in DOMAIN arrival' : arrival'[i] = q
  <2>1. CASE n = 0
    BY <1>1, <1>2, <2>1 DEF SpawnInv, ChainInv
  <2>2. ASSUME NEW q \in Runs, q # r
        PROVE  pc'[q] # "idle" <=> \E i \in DOMAIN arrival' : arrival'[i] = q
    <3>1. pc[q] # "idle" <=> \E i \in 1..n : arrival[i] = q
      BY <1>1 DEF SpawnInv, ChainInv
    <3>2. (\E i \in 1..n : arrival[i] = q) <=> \E i \in 1..(n+1) : arrival'[i] = q
      BY <1>1, <2>2
    <3>3. QED
      BY <1>1, <2>2, <3>1, <3>2
  <2>3. n+1 \in DOMAIN arrival'
    BY <1>1
  <2>4. QED
    BY <1>1, <2>2, <2>3
<1>5. spawnLock = IF n = 0 THEN None ELSE arrival[n]
  BY <1>1, EmptySeq DEF SpawnInv, ChainInv
<1>6. ASSUME NEW i \in DOMAIN arrival'
      PROVE  awaited'[arrival'[i]] = IF i = 1 THEN None ELSE arrival'[i-1]
  <2>1. CASE i = n+1
    <3>1. awaited'[r] = spawnLock
      BY DEF Chain, SpawnInv, TypeOK
    <3>2. n # 0 => n \in 1..n /\ (n+1)-1 = n /\ n+1 # 1
      BY <1>1
    <3>3. n # 0 => arrival'[(n+1)-1] = arrival[n]
      BY <1>1, <3>2
    <3>4. arrival'[i] = r
      BY <1>1, <2>1
    <3>5. CASE n = 0
      <4>1. i = 1
        BY <2>1, <3>5
      <4>2. QED
        BY <1>5, <3>1, <3>4, <3>5, <4>1
    <3>6. CASE n # 0
      <4>1. i # 1 /\ arrival'[i-1] = arrival[n]
        BY <2>1, <3>2, <3>3, <3>6
      <4>2. QED
        BY <1>5, <3>1, <3>4, <3>6, <4>1
    <3>7. QED
      BY <3>5, <3>6
  <2>2. CASE i \in 1..n
    <3>1. awaited'[arrival'[i]] = awaited[arrival[i]]
      BY <1>1, <1>2, <2>2 DEF Chain, SpawnInv, TypeOK
    <3>2. i # 1 => i-1 \in 1..n
      BY <1>1, <2>2
    <3>3. QED
      BY <1>1, <2>2, <3>1, <3>2 DEF SpawnInv, ChainInv
  <2>3. QED
    BY <1>1, <2>1, <2>2
<1>7. spawnLock' = IF arrival' = << >> THEN None ELSE arrival'[Len(arrival')]
  BY <1>1, EmptySeq DEF Chain
<1>8. ASSUME NEW q \in Runs, Inside(q)' PROVE arrival'[1] = q
  <2>1. q # r /\ Inside(q)
    BY <1>8 DEF Inside, Protected
  <2>2. arrival[1] = q /\ n # 0
    BY <2>1, <1>1, ArrivalNotEmpty, EmptySeq
       DEF SpawnInv, ChainInv, Inside, Protected, Stages
  <2>3. QED
    BY <1>1, <2>2
<1>9. QED
  BY <1>3, <1>4, <1>6, <1>7, <1>8 DEF ChainInv

LEMMA LeaveKeepsChain ==
  ASSUME SpawnInv, NEW r \in Runs, ReleaseLock(r), Inside(r)
  PROVE  ChainInv'
<1> DEFINE n == Len(arrival)
<1>1. /\ arrival \in Seq(Runs) /\ n \in Nat \ {0} /\ DOMAIN arrival = 1..n
      /\ arrival' = Tail(arrival)
      /\ DOMAIN arrival' = 1..(n-1) /\ Len(arrival') = n-1
      /\ \A i \in 1..(n-1) : arrival'[i] = arrival[i+1]
      /\ arrival' \in Seq(Runs)
      /\ arrival[1] = r
  <2>1. arrival # << >> /\ arrival \in Seq(Runs)
    BY ArrivalNotEmpty DEF SpawnInv, TypeOK, Inside, Protected, Stages
  <2>2. arrival[1] = r
    BY DEF SpawnInv, ChainInv
  <2>3. QED
    BY <2>1, <2>2, HeadTailProperties, LenProperties, EmptySeq DEF ReleaseLock
<1>2. \A i \in 1..n : arrival[i] \in Runs /\ (arrival[i] = r => i = 1)
  <2>1. \A i \in 1..n : arrival[i] \in Runs
    BY <1>1, ElementOfSeq
  <2>2. \A i, j \in DOMAIN arrival : arrival[i] = arrival[j] => i = j
    BY DEF SpawnInv, ChainInv
  <2>3. 1 \in DOMAIN arrival
    BY <1>1
  <2>4. QED
    BY <1>1, <2>1, <2>2, <2>3
<1>3. \A i, j \in DOMAIN arrival' : arrival'[i] = arrival'[j] => i = j
  <2>1. ASSUME NEW i \in 1..(n-1), NEW j \in 1..(n-1), arrival'[i] = arrival'[j]
        PROVE  i = j
    <3>1. i+1 \in 1..n /\ j+1 \in 1..n
      BY <1>1
    <3>2. i+1 = j+1
      BY <1>1, <2>1, <3>1 DEF SpawnInv, ChainInv
    <3>3. QED
      BY <3>2
  <2>2. QED
    BY <1>1, <2>1
<1>4. ASSUME NEW q \in Runs
      PROVE  pc'[q] # "idle" <=> \E i \in DOMAIN arrival' : arrival'[i] = q
  <2>1. pc[q] # "idle" <=> \E i \in 1..n : arrival[i] = q
    BY <1>1 DEF SpawnInv, ChainInv
  <2>2. CASE q = r
    <3>1. pc'[q] = "idle"
      BY <2>2 DEF ReleaseLock, SpawnInv, TypeOK
    <3>2. \A i \in 1..(n-1) : i+1 \in 1..n /\ i+1 # 1
      BY <1>1
    <3>3. QED
      BY <1>1, <1>2, <2>2, <3>1, <3>2
  <2>3. CASE q # r
    <3>1. pc'[q] = pc[q]
      BY <2>3 DEF ReleaseLock, SpawnInv, TypeOK
    <3>2. ASSUME NEW i \in 1..n, arrival[i] = q PROVE \E j \in 1..(n-1) : arrival'[j] = q
      <4>1. i # 1
        BY <1>1, <2>3, <3>2
      <4>2. i-1 \in 1..(n-1) /\ (i-1)+1 = i
        BY <1>1, <4>1
      <4>3. QED
        BY <1>1, <3>2, <4>2
    <3>3. ASSUME NEW j \in 1..(n-1), arrival'[j] = q PROVE \E i \in 1..n : arrival[i] = q
      <4>1. j+1 \in 1..n
        BY <1>1
      <4>2. QED
        BY <1>1, <3>3, <4>1
    <3>4. QED
      BY <1>1, <2>1, <3>1, <3>2, <3>3
  <2>4. QED
    BY <2>2, <2>3
<1>5. ASSUME NEW i \in DOMAIN arrival'
      PROVE  awaited'[arrival'[i]] = IF i = 1 THEN None ELSE arrival'[i-1]
  <2>1. i \in 1..(n-1) /\ i+1 \in 1..n /\ i+1 # 1 /\ (i+1)-1 = i /\ i \in 1..n
    BY <1>1
  <2>2. arrival'[i] = arrival[i+1] /\ awaited[arrival[i+1]] = arrival[i]
    BY <1>1, <2>1 DEF SpawnInv, ChainInv
  <2>3. awaited'[arrival[i+1]] = IF arrival[i] = r THEN None ELSE arrival[i]
    BY <1>2, <2>1, <2>2 DEF ReleaseLock
  <2>4. arrival[i] = r <=> i = 1
    BY <1>1, <1>2, <2>1
  <2>5. i # 1 => i-1 \in 1..(n-1) /\ (i-1)+1 = i
    BY <2>1
  <2>6. i # 1 => arrival'[i-1] = arrival[i]
    BY <1>1, <2>5
  <2>7. QED
    BY <2>2, <2>3, <2>4, <2>6
<1>6. spawnLock' = IF arrival' = << >> THEN None ELSE arrival'[Len(arrival')]
  <2>1. spawnLock = arrival[n] /\ n \in 1..n
    BY <1>1, EmptySeq DEF SpawnInv, ChainInv
  <2>2. spawnLock = r <=> n = 1
    BY <1>1, <1>2, <2>1
  <2>3. spawnLock' = IF n = 1 THEN None ELSE arrival[n]
    BY <2>1, <2>2 DEF ReleaseLock
  <2>4. arrival' = << >> <=> n = 1
    <3>1. arrival' = << >> <=> Len(arrival') = 0
      BY <1>1, EmptySeq
    <3>2. QED
      BY <1>1, <3>1
  <2>5. n # 1 => n-1 \in 1..(n-1) /\ (n-1)+1 = n
    BY <1>1
  <2>6. QED
    BY <1>1, <2>3, <2>4, <2>5
<1>7. ASSUME NEW q \in Runs, Inside(q)' PROVE arrival'[1] = q
  <2>1. q # r /\ Inside(q)
    BY <1>7 DEF ReleaseLock, Inside, Protected, SpawnInv, TypeOK
  <2>2. arrival[1] = q
    BY <2>1 DEF SpawnInv, ChainInv
  <2>3. QED
    BY <1>1, <2>1, <2>2
<1>8. QED
  BY <1>3, <1>4, <1>5, <1>6, <1>7 DEF ChainInv

LEMMA MoveKeepsChain ==
  ASSUME SpawnInv, UNCHANGED <<awaited, spawnLock, arrival>>,
         \A q \in Runs : /\ pc'[q] = "idle" <=> pc[q] = "idle"
                         /\ Inside(q)' => Inside(q) \/ arrival[1] = q
  PROVE  ChainInv'
BY DEF SpawnInv, ChainInv

(* A waiting run whose promise is resolved is the first in line. *)
LEMMA FirstMayEnter ==
  ASSUME SpawnInv, NEW r \in Runs, pc[r] = "waiting", awaited[r] = None
  PROVE  arrival[1] = r
<1>1. PICK i \in DOMAIN arrival : arrival[i] = r
  BY DEF SpawnInv, ChainInv
<1>2. i \in 1..Len(arrival) /\ Len(arrival) \in Nat
  BY <1>1, LenProperties DEF SpawnInv, TypeOK
<1>3. i = 1
  <2>1. ASSUME i # 1 PROVE FALSE
    <3>1. awaited[arrival[i]] = arrival[i-1]
      BY <1>1, <2>1 DEF SpawnInv, ChainInv
    <3>2. i-1 \in 1..Len(arrival)
      BY <1>2, <2>1
    <3>3. arrival[i-1] \in Runs
      BY <3>2, ElementOfSeq DEF SpawnInv, TypeOK
    <3>4. QED
      BY <1>1, <3>1, <3>3
  <2>2. QED
    BY <2>1
<1>4. QED
  BY <1>1, <1>3

LEMMA ChainStep == SpawnInv /\ [Next]_vars => ChainInv'
<1> SUFFICES ASSUME SpawnInv, [Next]_vars PROVE ChainInv'
  OBVIOUS
<1> USE DEF Inside, Protected, Stages
<1>1. CASE UNCHANGED vars
  BY <1>1, MoveKeepsChain DEF vars, lockVars
<1>2. CASE Tick
  BY <1>2, MoveKeepsChain DEF Tick, lockVars
<1>3. ASSUME NEW r \in Runs, RetryTimer(r) PROVE ChainInv'
  <2>1. pc'[r] = "waiting" /\ \A q \in Runs \ {r} : pc'[q] = pc[q]
    BY <1>3 DEF RetryTimer, SpawnInv, TypeOK
  <2>2. QED
    BY <1>3, <2>1, ArriveKeepsChain DEF RetryTimer
<1>4. ASSUME NEW t \in Tasks, TaskRefused(t) \/ CancelQueued(t) PROVE ChainInv'
  BY <1>4, MoveKeepsChain DEF TaskRefused, CancelQueued, lockVars
<1>5. ASSUME NEW t \in Tasks, NEW r \in Runs, TaskQueued(r, t) PROVE ChainInv'
  <2>1. pc'[r] = "waiting" /\ \A q \in Runs \ {r} : pc'[q] = pc[q]
    BY <1>5 DEF TaskQueued, SpawnInv, TypeOK
  <2>2. QED
    BY <1>5, <2>1, ArriveKeepsChain DEF TaskQueued
<1>6. ASSUME NEW r \in Runs, Process(r) PROVE ChainInv'
  <2>1. CASE EnterLock(r)
    <3>1. pc[r] = "waiting" /\ arrival[1] = r
      BY <2>1, FirstMayEnter DEF EnterLock
    <3>2. pc'[r] = "delay" /\ \A q \in Runs \ {r} : pc'[q] = pc[q]
      BY <2>1 DEF EnterLock, SpawnInv, TypeOK
    <3>3. QED
      BY <2>1, <3>1, <3>2, MoveKeepsChain DEF EnterLock
  <2>2. ASSUME NEW stage \in Protected, GoOn(r, stage), Inside(r) PROVE ChainInv'
    <3>1. pc'[r] = stage /\ \A q \in Runs \ {r} : pc'[q] = pc[q]
      BY <2>2 DEF GoOn, SpawnInv, TypeOK
    <3>2. QED
      BY <2>2, <3>1, MoveKeepsChain DEF GoOn
  <2>3. CASE DelayCheck(r)
    BY <2>2, <2>3, LeaveKeepsChain DEF DelayCheck, ScheduleRetry
  <2>4. CASE ResourcesAvailable(r)
    BY <2>2, <2>4 DEF ResourcesAvailable
  <2>5. CASE ResourcesConstrained(r)
    BY <2>5, LeaveKeepsChain DEF ResourcesConstrained, ScheduleRetry
  <2>6. CASE DequeueTask(r) \/ SpawnWorker(r) \/ RecordSpawn(r)
    <3>1. PICK stage \in Protected : pc' = [pc EXCEPT ![r] = stage]
      BY <2>6 DEF DequeueTask, SpawnWorker, RecordSpawn
    <3>2. pc'[r] = stage /\ \A q \in Runs \ {r} : pc'[q] = pc[q]
      BY <3>1 DEF SpawnInv, TypeOK
    <3>3. Inside(r) /\ UNCHANGED <<awaited, spawnLock, arrival>>
      BY <2>6 DEF DequeueTask, SpawnWorker, RecordSpawn
    <3>4. QED
      BY <3>2, <3>3, MoveKeepsChain
  <2>7. CASE DequeueNothing(r) \/ SpawnReported(r) \/ ReportSpawnFailure(r)
    BY <2>7, LeaveKeepsChain DEF DequeueNothing, SpawnReported, ReportSpawnFailure
  <2>8. CASE SpawnFailsUnqueued(r)
    BY <2>2, <2>8 DEF SpawnFailsUnqueued
  <2>9. ASSUME NEW n \in Runs \ {r}, SpawnFails(r, n) PROVE ChainInv'
    <3>1. /\ pc'[n] = "waiting" /\ pc[r] = "spawn" /\ pc'[r] = "requeue"
          /\ \A q \in Runs \ {r, n} : pc'[q] = pc[q]
      BY <2>9 DEF SpawnFails, SpawnInv, TypeOK
    <3>2. QED
      BY <2>9, <3>1, ArriveKeepsChain DEF SpawnFails
  <2>10. QED
    BY <1>6, <2>1, <2>3, <2>4, <2>5, <2>6, <2>7, <2>8, <2>9 DEF Process
<1>7. QED
  BY <1>1, <1>2, <1>3, <1>4, <1>5, <1>6 DEF Next

LEMMA SpawnInvStep == SpawnInv /\ [Next]_vars => SpawnInv'
BY TypeStep, ChainStep DEF SpawnInv

LEMMA SpawnInvAlways == Spec => []SpawnInv
BY InitSpawnInv, SpawnInvStep, PTL DEF Spec

(* Every variable of the spawn path keeps its type. *)
THEOREM TypeCorrect == Spec => []TypeOK
<1>1. SpawnInv => TypeOK
  BY DEF SpawnInv
<1>2. QED
  BY <1>1, SpawnInvAlways, PTL

(* withSpawnLock always holds a well-formed chain: each run awaits the      *)
(* promise of the run that arrived before it.                               *)
THEOREM ChainCorrect == Spec => []ChainInv
<1>1. SpawnInv => ChainInv
  BY DEF SpawnInv
<1>2. QED
  BY <1>1, SpawnInvAlways, PTL

(* withSpawnLock is a mutual exclusion lock: two runs are never between     *)
(* entering and leaving it.                                                 *)
THEOREM MutualExclusion == Spec => []OneSpawnAtATime
<1>1. SpawnInv => OneSpawnAtATime
  BY DEF SpawnInv, ChainInv, OneSpawnAtATime
<1>2. QED
  BY <1>1, SpawnInvAlways, PTL
-----------------------------------------------------------------------------
(* The gap between two spawns.  The delay is tested with lastSpawnTime, and *)
(* a run acts on the answer three awaits later.  The answer is still good   *)
(* then: no other run can assign lastSpawnTime in between, and outside the  *)
(* window between a spawn and its record the real time since the last       *)
(* process is at least the time the code believes.                          *)
GapInv ==
  /\ \A r \in Runs :
       pc[r] \in {"resources", "dequeue", "spawn"} => sinceLast = MinSpawnDelay
  /\ (\A r \in Runs : pc[r] # "record") => sinceSpawn >= sinceLast

LEMMA InitGapInv == Init => GapInv
BY DEF Init, GapInv

(* Steps that start no process, assign no lastSpawnTime and pass no time    *)
(* keep GapInv if nobody passes the delay test in them.                     *)
LEMMA QuietKeepsGap ==
  ASSUME GapInv, UNCHANGED timeVars,
         \A q \in Runs :
           /\ pc'[q] \in {"resources", "dequeue", "spawn"} =>
                pc[q] \in {"resources", "dequeue", "spawn"} \/ sinceLast = MinSpawnDelay
           /\ pc[q] = "record" => pc'[q] = "record"
  PROVE  GapInv'
BY DEF GapInv, timeVars

LEMMA GapStep == SpawnInv /\ GapInv /\ [Next]_vars => GapInv'
<1> SUFFICES ASSUME SpawnInv, GapInv, [Next]_vars PROVE GapInv'
  OBVIOUS
<1> USE DEF Stages
<1>1. CASE UNCHANGED vars
  BY <1>1, QuietKeepsGap DEF vars, lockVars
<1>2. CASE Tick
  BY <1>2 DEF Tick, lockVars, GapInv, SpawnInv, TypeOK
<1>3. ASSUME NEW r \in Runs, RetryTimer(r) PROVE GapInv'
  <2>1. pc'[r] = "waiting" /\ pc[r] = "idle" /\ \A q \in Runs \ {r} : pc'[q] = pc[q]
    BY <1>3 DEF RetryTimer, Chain, SpawnInv, TypeOK
  <2>2. QED
    BY <1>3, <2>1, QuietKeepsGap DEF RetryTimer
<1>4. ASSUME NEW t \in Tasks, TaskRefused(t) \/ CancelQueued(t) PROVE GapInv'
  BY <1>4, QuietKeepsGap DEF TaskRefused, CancelQueued, lockVars
<1>5. ASSUME NEW t \in Tasks, NEW r \in Runs, TaskQueued(r, t) PROVE GapInv'
  <2>1. pc'[r] = "waiting" /\ pc[r] = "idle" /\ \A q \in Runs \ {r} : pc'[q] = pc[q]
    BY <1>5 DEF TaskQueued, Chain, SpawnInv, TypeOK
  <2>2. QED
    BY <1>5, <2>1, QuietKeepsGap DEF TaskQueued
<1>6. ASSUME NEW r \in Runs, Process(r) PROVE GapInv'
  <2>1. ASSUME NEW stage \in Stages, pc' = [pc EXCEPT ![r] = stage],
               pc[r] # "record", UNCHANGED timeVars,
               stage \in {"resources", "dequeue", "spawn"} => sinceLast = MinSpawnDelay
        PROVE  GapInv'
    <3>1. pc'[r] = stage /\ \A q \in Runs \ {r} : pc'[q] = pc[q]
      BY <2>1 DEF SpawnInv, TypeOK
    <3>2. QED
      BY <2>1, <3>1, QuietKeepsGap
  <2>2. CASE EnterLock(r)
    BY <2>1, <2>2 DEF EnterLock
  <2>3. CASE DelayCheck(r)
    <3>1. ~ SpawnDelayRequired => sinceLast = MinSpawnDelay
      BY DEF SpawnDelayRequired, SpawnInv, TypeOK
    <3>2. QED
      BY <2>1, <2>3, <3>1 DEF DelayCheck, ScheduleRetry, ReleaseLock, GoOn
  <2>4. CASE ResourcesAvailable(r)
    BY <2>1, <2>4 DEF ResourcesAvailable, GoOn, GapInv
  <2>5. CASE ResourcesConstrained(r)
    BY <2>1, <2>5 DEF ResourcesConstrained, ScheduleRetry, ReleaseLock
  <2>6. CASE DequeueTask(r)
    BY <2>1, <2>6 DEF DequeueTask, GapInv
  <2>7. CASE DequeueNothing(r) \/ SpawnReported(r) \/ ReportSpawnFailure(r)
    BY <2>1, <2>7 DEF DequeueNothing, SpawnReported, ReportSpawnFailure, ReleaseLock
  <2>8. CASE SpawnWorker(r)
    <3>1. pc'[r] = "record" /\ \A q \in Runs \ {r} : pc'[q] = pc[q]
      BY <2>8 DEF SpawnWorker, SpawnInv, TypeOK
    <3>2. sinceLast' = sinceLast
      BY <2>8 DEF SpawnWorker
    <3>3. QED
      BY <3>1, <3>2 DEF GapInv
  <2>9. CASE RecordSpawn(r)
    <3>1. \A q \in Runs : pc'[q] \notin {"resources", "dequeue", "spawn"}
      <4>1. Inside(r) /\ pc'[r] = "emit" /\ \A q \in Runs \ {r} : pc'[q] = pc[q]
        BY <2>9 DEF RecordSpawn, Inside, Protected, SpawnInv, TypeOK
      <4>2. \A q \in Runs \ {r} : ~ Inside(q)
        BY <4>1 DEF SpawnInv, ChainInv
      <4>3. QED
        BY <4>1, <4>2 DEF Inside, Protected
    <3>2. sinceLast' = 0 /\ sinceSpawn' \in Nat
      BY <2>9 DEF RecordSpawn, SpawnInv, TypeOK
    <3>3. QED
      BY <3>1, <3>2 DEF GapInv
  <2>10. CASE SpawnFailsUnqueued(r)
    BY <2>1, <2>10 DEF SpawnFailsUnqueued, GoOn
  <2>11. ASSUME NEW n \in Runs \ {r}, SpawnFails(r, n) PROVE GapInv'
    <3>1. /\ pc'[n] = "waiting" /\ pc[n] = "idle" /\ pc[r] = "spawn" /\ pc'[r] = "requeue"
          /\ \A q \in Runs \ {r, n} : pc'[q] = pc[q]
      BY <2>11 DEF SpawnFails, Chain, SpawnInv, TypeOK
    <3>2. QED
      BY <2>11, <3>1, QuietKeepsGap DEF SpawnFails
  <2>12. QED
    BY <1>6, <2>2, <2>3, <2>4, <2>5, <2>6, <2>7, <2>8, <2>9, <2>10, <2>11 DEF Process
<1>7. QED
  BY <1>1, <1>2, <1>3, <1>4, <1>5, <1>6 DEF Next

(* A process is started only in SpawnWorker, and there the whole minimum    *)
(* delay has passed since the process before it.                            *)
LEMMA SpawnStepKeepsGap ==
  SpawnInv /\ GapInv /\ [Next]_vars =>
    [spawned' # spawned => sinceSpawn >= MinSpawnDelay]_vars
<1> SUFFICES ASSUME SpawnInv, GapInv, Next, spawned' # spawned
             PROVE  sinceSpawn >= MinSpawnDelay
  OBVIOUS
<1>1. PICK r \in Runs : SpawnWorker(r)
  BY DEF Next, Tick, RetryTimer, TaskRefused, CancelQueued, TaskQueued, Process,
         EnterLock, DelayCheck, ScheduleRetry, GoOn, ResourcesAvailable,
         ResourcesConstrained, DequeueTask, DequeueNothing, RecordSpawn,
         SpawnReported, SpawnFailsUnqueued, ReportSpawnFailure, SpawnFails, outcomes
<1>2. sinceLast = MinSpawnDelay
  BY <1>1 DEF SpawnWorker, GapInv
<1>3. \A q \in Runs : pc[q] # "record"
  <2>1. Inside(r) /\ pc[r] # "record"
    BY <1>1 DEF SpawnWorker, Inside, Protected, Stages
  <2>2. QED
    BY <2>1 DEF SpawnInv, ChainInv, Inside, Protected, Stages
<1>4. QED
  BY <1>2, <1>3 DEF GapInv

(* Two processes are never started less than minSpawnDelayMs apart.  (The   *)
(* spawn lock was added after the incident of 2025-12-06, when concurrent   *)
(* runs all passed the delay test before the first of them had spawned.)    *)
THEOREM SpawnsAreSpaced == Spec => SpawnGap
<1>1. Spec => []GapInv
  BY InitGapInv, GapStep, SpawnInvAlways, PTL DEF Spec
<1>2. QED
  BY <1>1, SpawnInvAlways, SpawnStepKeepsGap, PTL DEF Spec, SpawnGap
-----------------------------------------------------------------------------
(* Wake-ups.  Every task that joins the queue comes with a run or a timer   *)
(* of its own, and a run that is done with the queue either takes a task    *)
(* out, leaves a timer behind, or has found the queue empty.                *)

Awake == {r \in Runs : pc[r] \in {"waiting", "delay", "resources", "dequeue"}}

(* Only finitely many runs are awake, whatever the set Runs. *)
WakeInv ==
  /\ IsFiniteSet(Awake)
  /\ Len(queue) <= timers + Cardinality(Awake)

LEMMA InitWakeInv == Init => WakeInv
<1> SUFFICES ASSUME Init PROVE WakeInv
  OBVIOUS
<1>1. Awake = {} /\ Len(queue) = 0 /\ timers = 0
  BY DEF Init, Awake
<1>2. QED
  BY <1>1, FS_EmptySet DEF WakeInv

(* A run arrives. *)
LEMMA RunArrives ==
  ASSUME WakeInv, TypeOK, NEW r \in Runs, pc[r] \notin {"waiting", "delay", "resources", "dequeue"},
         pc'[r] = "waiting",
         \A q \in Runs \ {r} : q \in Awake' <=> q \in Awake
  PROVE  /\ IsFiniteSet(Awake')
         /\ Cardinality(Awake') = Cardinality(Awake) + 1
         /\ Cardinality(Awake) \in Nat
<1>1. Awake' = Awake \cup {r} /\ r \notin Awake
  BY DEF Awake
<1>2. QED
  BY <1>1, FS_AddElement, FS_CardinalityType DEF WakeInv

(* A run that was awake is done with the queue. *)
LEMMA RunIsDone ==
  ASSUME WakeInv, TypeOK, NEW r \in Runs, pc[r] \in {"waiting", "delay", "resources", "dequeue"},
         pc'[r] \notin {"waiting", "delay", "resources", "dequeue"},
         \A q \in Runs \ {r} : pc'[q] = pc[q]
  PROVE  /\ IsFiniteSet(Awake')
         /\ Cardinality(Awake') = Cardinality(Awake) - 1
         /\ Cardinality(Awake) \in Nat
<1>1. Awake' = Awake \ {r} /\ r \in Awake
  BY DEF Awake
<1>2. QED
  BY <1>1, FS_RemoveElement, FS_CardinalityType DEF WakeInv

(* Steps in which no run wakes up or falls asleep and the queue is left alone. *)
LEMMA AwakeUnchanged ==
  ASSUME WakeInv, Awake' = Awake, UNCHANGED <<queue, timers>>
  PROVE  WakeInv'
BY DEF WakeInv

LEMMA RetryBalances ==
  ASSUME SpawnInv, WakeInv, NEW r \in Runs, pc[r] \in {"delay", "resources"}, ScheduleRetry(r)
  PROVE  WakeInv'
<1>1. pc'[r] = "idle" /\ \A q \in Runs \ {r} : pc'[q] = pc[q]
  BY DEF ScheduleRetry, ReleaseLock, SpawnInv, TypeOK
<1>2. IsFiniteSet(Awake') /\ Cardinality(Awake') = Cardinality(Awake) - 1 /\ Cardinality(Awake) \in Nat
  BY <1>1, RunIsDone DEF SpawnInv
<1>3. timers' = timers + 1 /\ queue' = queue /\ timers \in Nat /\ Len(queue) \in Nat
  BY LenProperties DEF ScheduleRetry, SpawnInv, TypeOK
<1>4. QED
  BY <1>2, <1>3 DEF WakeInv

LEMMA WakeStep == SpawnInv /\ WakeInv /\ [Next]_vars => WakeInv'
<1> SUFFICES ASSUME SpawnInv, WakeInv, [Next]_vars PROVE WakeInv'
  OBVIOUS
<1>0. /\ queue \in Seq(Tasks) /\ Len(queue) \in Nat /\ timers \in Nat
      /\ pc \in [Runs -> Stages]
      /\ IsFiniteSet(Awake) /\ Cardinality(Awake) \in Nat
      /\ Len(queue) <= timers + Cardinality(Awake)
  BY LenProperties, FS_CardinalityType DEF SpawnInv, TypeOK, WakeInv
<1>1. CASE UNCHANGED vars
  BY <1>1, AwakeUnchanged DEF vars, lockVars, Awake
<1>2. CASE Tick
  BY <1>2, AwakeUnchanged DEF Tick, lockVars, Awake
<1>3. ASSUME NEW r \in Runs, RetryTimer(r) PROVE WakeInv'
  <2>1. pc'[r] = "waiting" /\ pc[r] = "idle" /\ \A q \in Runs \ {r} : pc'[q] = pc[q]
    BY <1>0, <1>3 DEF RetryTimer, Chain
  <2>2. \A q \in Runs \ {r} : q \in Awake' <=> q \in Awake
    BY <2>1 DEF Awake
  <2>3. IsFiniteSet(Awake') /\ Cardinality(Awake') = Cardinality(Awake) + 1
    BY <2>1, <2>2, RunArrives DEF SpawnInv
  <2>4. timers > 0 /\ timers' = timers - 1 /\ queue' = queue
    BY <1>3 DEF RetryTimer
  <2>5. QED
    BY <1>0, <2>3, <2>4 DEF WakeInv
<1>4. ASSUME NEW t \in Tasks, TaskRefused(t) PROVE WakeInv'
  BY <1>4, AwakeUnchanged DEF TaskRefused, lockVars, Awake
<1>5. ASSUME NEW t \in Tasks, CancelQueued(t) PROVE WakeInv'
  <2>1. PICK i \in DOMAIN queue :
          queue' = SubSeq(queue, 1, i-1) \o SubSeq(queue, i+1, Len(queue))
    BY <1>5 DEF CancelQueued
  <2>2. Len(queue') = Len(queue) - 1
    BY <1>0, <2>1, RemovalShortens
  <2>3. Awake' = Awake /\ timers' = timers
    BY <1>5 DEF CancelQueued, lockVars, Awake
  <2>4. QED
    BY <1>0, <2>2, <2>3 DEF WakeInv
<1>6. ASSUME NEW t \in Tasks, NEW r \in Runs, TaskQueued(r, t) PROVE WakeInv'
  <2>1. pc'[r] = "waiting" /\ pc[r] = "idle" /\ \A q \in Runs \ {r} : pc'[q] = pc[q]
    BY <1>0, <1>6 DEF TaskQueued, Chain
  <2>2. \A q \in Runs \ {r} : q \in Awake' <=> q \in Awake
    BY <2>1 DEF Awake
  <2>3. IsFiniteSet(Awake') /\ Cardinality(Awake') = Cardinality(Awake) + 1
    BY <2>1, <2>2, RunArrives DEF SpawnInv
  <2>4. Len(queue') = Len(queue) + 1 /\ timers' = timers
    BY <1>0, <1>6, AppendProperties DEF TaskQueued
  <2>5. QED
    BY <1>0, <2>3, <2>4 DEF WakeInv
<1>7. ASSUME NEW r \in Runs, Process(r) PROVE WakeInv'
  <2>1. ASSUME NEW stage \in Stages, pc' = [pc EXCEPT ![r] = stage],
               stage \in {"waiting", "delay", "resources", "dequeue"} <=>
                 pc[r] \in {"waiting", "delay", "resources", "dequeue"},
               UNCHANGED <<queue, timers>>
        PROVE  WakeInv'
    <3>1. pc'[r] = stage /\ \A q \in Runs \ {r} : pc'[q] = pc[q]
      BY <1>0, <2>1
    <3>2. Awake' = Awake
      BY <2>1, <3>1 DEF Awake
    <3>3. QED
      BY <2>1, <3>2, AwakeUnchanged
  <2>2. CASE EnterLock(r)
    BY <2>1, <2>2 DEF EnterLock, Stages
  <2>3. CASE DelayCheck(r)
    <3>1. CASE ScheduleRetry(r)
      BY <2>3, <3>1, RetryBalances DEF DelayCheck
    <3>2. CASE GoOn(r, "resources")
      BY <2>1, <2>3, <3>2 DEF DelayCheck, GoOn, Stages
    <3>3. QED
      BY <2>3, <3>1, <3>2 DEF DelayCheck
  <2>4. CASE ResourcesAvailable(r)
    BY <2>1, <2>4 DEF ResourcesAvailable, GoOn, Stages
  <2>5. CASE ResourcesConstrained(r)
    BY <2>5, RetryBalances DEF ResourcesConstrained
  <2>6. CASE DequeueTask(r)
    <3>1. pc[r] = "dequeue" /\ pc'[r] = "spawn" /\ \A q \in Runs \ {r} : pc'[q] = pc[q]
      BY <1>0, <2>6 DEF DequeueTask
    <3>2. IsFiniteSet(Awake') /\ Cardinality(Awake') = Cardinality(Awake) - 1
      BY <3>1, RunIsDone DEF SpawnInv
    <3>3. Len(queue') = Len(queue) - 1 /\ timers' = timers
      BY <1>0, <2>6, HeadTailProperties DEF DequeueTask
    <3>4. QED
      BY <1>0, <3>2, <3>3 DEF WakeInv
  <2>7. CASE DequeueNothing(r)
    <3>1. pc[r] = "dequeue" /\ pc'[r] = "idle" /\ \A q \in Runs \ {r} : pc'[q] = pc[q]
      BY <1>0, <2>7 DEF DequeueNothing, ReleaseLock
    <3>2. IsFiniteSet(Awake')
      BY <3>1, RunIsDone DEF SpawnInv
    <3>3. Len(queue') = 0 /\ timers' \in Nat
      BY <1>0, <2>7 DEF DequeueNothing
    <3>4. QED
      BY <3>2, <3>3, FS_CardinalityType DEF WakeInv
  <2>8. CASE SpawnWorker(r)
    BY <2>1, <2>8 DEF SpawnWorker, Stages
  <2>9. CASE RecordSpawn(r)
    BY <2>1, <2>9 DEF RecordSpawn, Stages
  <2>10. CASE SpawnReported(r)
    BY <2>1, <2>10 DEF SpawnReported, ReleaseLock, Stages
  <2>11. CASE SpawnFailsUnqueued(r)
    BY <2>1, <2>11 DEF SpawnFailsUnqueued, GoOn, Stages
  <2>12. CASE ReportSpawnFailure(r)
    BY <2>1, <2>12 DEF ReportSpawnFailure, ReleaseLock, Stages
  <2>13. ASSUME NEW n \in Runs \ {r}, SpawnFails(r, n) PROVE WakeInv'
    <3>1. /\ pc'[n] = "waiting" /\ pc[n] = "idle" /\ pc[r] = "spawn" /\ pc'[r] = "requeue"
          /\ \A q \in Runs \ {r, n} : pc'[q] = pc[q]
      BY <1>0, <2>13 DEF SpawnFails, Chain
    <3>2. \A q \in Runs \ {n} : q \in Awake' <=> q \in Awake
      BY <3>1 DEF Awake
    <3>3. IsFiniteSet(Awake') /\ Cardinality(Awake') = Cardinality(Awake) + 1
      BY <3>1, <3>2, RunArrives DEF SpawnInv
    <3>4. Len(queue') = Len(queue) + 1 /\ timers' = timers
      <4>1. job[r] \in Tasks
        BY <2>13 DEF SpawnFails, SpawnInv, JobInv
      <4>2. QED
        BY <1>0, <2>13, <4>1, AppendProperties DEF SpawnFails
    <3>5. QED
      BY <1>0, <3>3, <3>4 DEF WakeInv
  <2>14. QED
    BY <1>7, <2>2, <2>3, <2>4, <2>5, <2>6, <2>7, <2>8, <2>9, <2>10, <2>11,
       <2>12, <2>13 DEF Process
<1>8. QED
  BY <1>1, <1>2, <1>3, <1>4, <1>5, <1>6, <1>7 DEF Next

(* For every task in the queue there is a run of processNextTask that has   *)
(* not yet looked at the queue or a timer that will start one, for any      *)
(* number of overlapping runs, retries and failed spawns.                   *)
THEOREM WakeupsSuffice == Spec => []NoLostWakeup
<1>1. WakeInv => NoLostWakeup
  BY DEF WakeInv, NoLostWakeup, Wakeups, Awake
<1>2. QED
  BY <1>1, InitWakeInv, WakeStep, SpawnInvAlways, PTL DEF Spec
-----------------------------------------------------------------------------
(* The chain of promises implements the first-come first-served lock.       *)

InsideNow == {r \in Runs : Inside(r)}

LEMMA ArriveRefines ==
  ASSUME SpawnInv, NEW r \in Runs, Chain(r), InsideNow' = InsideNow
  PROVE  Lock!Next
<1>1. ~ Lock!InLine(r)
  BY DEF SpawnInv, ChainInv, Chain, Lock!InLine
<1>2. Lock!Arrive(r)
  BY <1>1 DEF Lock!Arrive, Chain, InsideNow
<1>3. QED
  BY <1>2 DEF Lock!Next

LEMMA LeaveRefines ==
  ASSUME SpawnInv, NEW r \in Runs, ReleaseLock(r), Inside(r)
  PROVE  Lock!Next
<1>1. arrival # << >> /\ Head(arrival) = r
  BY ArrivalNotEmpty, HeadTailProperties
     DEF SpawnInv, TypeOK, ChainInv, Inside, Protected, Stages
<1>2. InsideNow = {r}
  BY DEF InsideNow, SpawnInv, ChainInv
<1>3. InsideNow' = {}
  <2>1. pc'[r] = "idle" /\ \A q \in Runs \ {r} : pc'[q] = pc[q]
    BY DEF ReleaseLock, SpawnInv, TypeOK
  <2>2. \A q \in Runs \ {r} : ~ Inside(q)
    BY <1>2 DEF InsideNow
  <2>3. QED
    BY <2>1, <2>2 DEF InsideNow, Inside, Protected, Stages
<1>4. Lock!Leave
  BY <1>1, <1>2, <1>3 DEF Lock!Leave, ReleaseLock, InsideNow
<1>5. QED
  BY <1>4 DEF Lock!Next

LEMMA LockStep ==
  SpawnInv /\ [Next]_vars => [Lock!Next]_<<arrival, {r \in Runs : Inside(r)}>>
<1> SUFFICES ASSUME SpawnInv, [Next]_vars
             PROVE  Lock!Next \/ (arrival' = arrival /\ InsideNow' = InsideNow)
  BY DEF InsideNow
<1> USE DEF Inside, Protected, Stages
<1>1. CASE UNCHANGED vars
  BY <1>1 DEF vars, lockVars, InsideNow
<1>2. CASE Tick
  BY <1>2 DEF Tick, lockVars, InsideNow
<1>3. ASSUME NEW r \in Runs, RetryTimer(r) PROVE Lock!Next
  <2>1. pc'[r] = "waiting" /\ pc[r] = "idle" /\ \A q \in Runs \ {r} : pc'[q] = pc[q]
    BY <1>3 DEF RetryTimer, Chain, SpawnInv, TypeOK
  <2>2. InsideNow' = InsideNow
    BY <2>1 DEF InsideNow
  <2>3. QED
    BY <1>3, <2>2, ArriveRefines DEF RetryTimer
<1>4. ASSUME NEW t \in Tasks, TaskRefused(t) \/ CancelQueued(t)
      PROVE  arrival' = arrival /\ InsideNow' = InsideNow
  BY <1>4 DEF TaskRefused, CancelQueued, lockVars, InsideNow
<1>5. ASSUME NEW t \in Tasks, NEW r \in Runs, TaskQueued(r, t) PROVE Lock!Next
  <2>1. pc'[r] = "waiting" /\ pc[r] = "idle" /\ \A q \in Runs \ {r} : pc'[q] = pc[q]
    BY <1>5 DEF TaskQueued, Chain, SpawnInv, TypeOK
  <2>2. InsideNow' = InsideNow
    BY <2>1 DEF InsideNow
  <2>3. QED
    BY <1>5, <2>2, ArriveRefines DEF TaskQueued
<1>6. ASSUME NEW r \in Runs, Process(r)
      PROVE  Lock!Next \/ (arrival' = arrival /\ InsideNow' = InsideNow)
  <2>1. CASE EnterLock(r)
    <3>1. pc[r] = "waiting" /\ arrival[1] = r /\ arrival # << >> /\ Head(arrival) = r
      BY <2>1, FirstMayEnter, ArrivalNotEmpty, HeadTailProperties
         DEF EnterLock, SpawnInv, TypeOK
    <3>2. pc'[r] = "delay" /\ \A q \in Runs \ {r} : pc'[q] = pc[q]
      BY <2>1 DEF EnterLock, SpawnInv, TypeOK
    <3>3. InsideNow = {}
      BY <3>1 DEF InsideNow, SpawnInv, ChainInv
    <3>4. InsideNow' = {r}
      BY <3>2, <3>3 DEF InsideNow
    <3>5. Lock!Enter
      BY <2>1, <3>1, <3>3, <3>4 DEF Lock!Enter, EnterLock, InsideNow
    <3>6. QED
      BY <3>5 DEF Lock!Next
  <2>2. ASSUME NEW stage \in Protected, pc' = [pc EXCEPT ![r] = stage], Inside(r),
               arrival' = arrival
        PROVE  arrival' = arrival /\ InsideNow' = InsideNow
    <3>1. pc'[r] = stage /\ \A q \in Runs \ {r} : pc'[q] = pc[q]
      BY <2>2 DEF SpawnInv, TypeOK
    <3>2. QED
      BY <2>2, <3>1 DEF InsideNow
  <2>3. CASE DelayCheck(r)
    BY <2>2, <2>3, LeaveRefines DEF DelayCheck, ScheduleRetry, GoOn
  <2>4. CASE ResourcesAvailable(r) \/ SpawnFailsUnqueued(r)
    BY <2>2, <2>4 DEF ResourcesAvailable, SpawnFailsUnqueued, GoOn
  <2>5. CASE ResourcesConstrained(r)
    BY <2>5, LeaveRefines DEF ResourcesConstrained, ScheduleRetry
  <2>6. CASE DequeueTask(r) \/ SpawnWorker(r) \/ RecordSpawn(r)
    BY <2>2, <2>6 DEF DequeueTask, SpawnWorker, RecordSpawn
  <2>7. CASE DequeueNothing(r) \/ SpawnReported(r) \/ ReportSpawnFailure(r)
    BY <2>7, LeaveRefines DEF DequeueNothing, SpawnReported, ReportSpawnFailure
  <2>8. ASSUME NEW n \in Runs \ {r}, SpawnFails(r, n) PROVE Lock!Next
    <3>1. /\ pc'[n] = "waiting" /\ pc[n] = "idle" /\ pc[r] = "spawn" /\ pc'[r] = "requeue"
          /\ \A q \in Runs \ {r, n} : pc'[q] = pc[q]
      BY <2>8 DEF SpawnFails, Chain, SpawnInv, TypeOK
    <3>2. InsideNow' = InsideNow
      BY <3>1 DEF InsideNow
    <3>3. QED
      BY <2>8, <3>2, ArriveRefines DEF SpawnFails
  <2>9. QED
    BY <1>6, <2>1, <2>3, <2>4, <2>5, <2>6, <2>7, <2>8 DEF Process
<1>7. QED
  BY <1>1, <1>2, <1>3, <1>4, <1>5, <1>6 DEF Next

(* withSpawnLock is a first-come first-served lock: the runs of             *)
(* processNextTask enter in the order in which they called it.              *)
THEOREM LockRefinement == Spec => LockSpec
<1>1. Init => Lock!Init
  BY DEF Init, Lock!Init, Inside, Protected, Stages
<1>2. QED
  BY <1>1, LockStep, SpawnInvAlways, PTL DEF Spec, LockSpec, Lock!Spec
=============================================================================
