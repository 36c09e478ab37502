-------------------------- MODULE SchedulingProofs --------------------------
(***************************************************************************)
(* Proofs about Scheduling: types, one execution of a schedule at a time   *)
(* within a session, the finality of the last statuses, and, of rows that  *)
(* no two activities crossed on, that the time of the next execution fits  *)
(* the status, that runs are counted once, and that a task waits for the   *)
(* task before it in the chain.                                            *)
(***************************************************************************)
EXTENDS Scheduling, FiniteSetTheorems, TLAPS

(* An activity that is not idle has a schedule.  If it saw a schedule that  *)
(* had ended, it will write that it has ended.                              *)
Sound(a) ==
  a.stage # "idle" =>
    /\ a.schedule \in Schedules
    /\ a.seen.status \in Ended => a.stage # "handle" /\ a.change.status \in Ended

ActivityInv ==
  /\ Sound(tick)
  /\ \A c \in Clients : Sound(client[c])
  /\ \A s \in DOMAIN todo : todo[s].status = "active"

(* A trigger under way has a saved task, and its schedule runs nothing.     *)
InTrigger == tick.stage \in {"record", "delegate"}
             \/ (tick.stage = "write" /\ tick.op = "trigger")

TriggerInv ==
  /\ tick.stage = "read" => tick.op # "trigger"
  /\ InTrigger =>
       /\ tick.task \in Tasks
       /\ owner[tick.task] = tick.schedule
       /\ state[tick.task] = "saved"
       /\ running[tick.schedule] = 0

DownInv == ~ up => tick.stage = "idle" /\ todo = << >>

(* While the server is up, runningSchedules names every task of this        *)
(* session that has not ended.                                              *)
RunInv ==
  up => \A t \in Tasks \ recovered :
          Delegated(t) => owner[t] \in Schedules /\ running[owner[t]] = t

Inv ==
  /\ TypeOK
  /\ ActivityInv
  /\ TriggerInv
  /\ DownInv
  /\ RunInv
  /\ OneExecutionAtATime

-----------------------------------------------------------------------------
(* getNextRunTime yields a time.                                            *)
LEMMA NextRunTimeType == \A t \in Nat : NextRunTime(t) \in Nat
<1> SUFFICES ASSUME NEW t \in Nat PROVE NextRunTime(t) \in Nat
  OBVIOUS
<1>1. Period \in Nat /\ Period > 0
  BY SchedulingAssumption
<1>2. t \div Period \in Nat
  BY <1>1, SMT
<1>3. \A a, b \in Nat : a * b \in Nat
  BY SMT
<1> QED
  BY <1>1, <1>2, <1>3 DEF NextRunTime

(* update merges fields into a row.                                         *)
LEMMA MergeType ==
  ASSUME NEW base \in Row, NEW change \in Changes
  PROVE  /\ Merge(base, change) \in Row
         /\ change.status \in Ended => Merge(base, change).status \in Ended
BY DEF Merge, Row, Changes, Status, Ended

(* The literals of the initial state.                                       *)
LEMMA IdleType == Idle \in Activity /\ NoRow \in Row /\ Idle.stage = "idle"
BY SchedulingAssumption DEF Idle, NoRow, Activity, Row, Changes, Status, Ended

(* A trigger's and a skipped run's fields.                                  *)
LEMMA UpdateNextRunType ==
  ASSUME TypeOK, NEW s \in Schedules
  PROVE  UpdateNextRun(s) \in Changes
<1>1. NextRunTime(now) \in Nat
  BY NextRunTimeType DEF TypeOK
<1> QED
  BY <1>1 DEF UpdateNextRun, Change, Changes, Status, Ended

LEMMA AfterTriggerType ==
  ASSUME TypeOK, NEW s \in Schedules, NEW runs \in Nat
  PROVE  AfterTrigger(s, runs) \in Changes
<1>1. NextRunTime(now) \in Nat
  BY NextRunTimeType DEF TypeOK
<1> QED
  BY <1>1 DEF AfterTrigger, Change, Changes, Status, Ended

-----------------------------------------------------------------------------
(* Initially. *)
LEMMA InitInv == Init => Inv
<1> SUFFICES ASSUME Init PROVE Inv
  OBVIOUS
<1>1. TypeOK
  BY IdleType, SchedulingAssumption DEF Init, TypeOK, Tasks
<1>2. ActivityInv /\ TriggerInv /\ DownInv
  BY IdleType DEF Init, ActivityInv, Sound, TriggerInv, InTrigger, DownInv
<1>3. RunInv /\ OneExecutionAtATime
  BY DEF Init, RunInv, OneExecutionAtATime, Delegated, TasksOf
<1> QED
  BY <1>1, <1>2, <1>3 DEF Inv

-----------------------------------------------------------------------------
(* The steps, one lemma for each group of actions that touch the same       *)
(* variables.                                                               *)

(* Steps that leave tasks, running and the tick alone keep what the         *)
(* invariant says of them.                                                  *)
LEMMA QuietStep ==
  ASSUME Inv, UNCHANGED <<state, owner, running, recovered, up, tick, todo>>
  PROVE  /\ TriggerInv' /\ DownInv' /\ RunInv' /\ OneExecutionAtATime'
         /\ Sound(tick)' /\ (\A s \in DOMAIN todo : todo[s].status = "active")'
<1>1. TriggerInv' /\ DownInv' /\ Sound(tick)'
  BY DEF Inv, TriggerInv, InTrigger, DownInv, ActivityInv, Sound
<1>2. RunInv' /\ OneExecutionAtATime'
  BY DEF Inv, RunInv, OneExecutionAtATime, Delegated, TasksOf
<1>3. (\A s \in DOMAIN todo : todo[s].status = "active")'
  BY DEF Inv, ActivityInv
<1> QED
  BY <1>1, <1>2, <1>3

(* A new schedule.                                                          *)
LEMMA CreateStep ==
  ASSUME Inv, NEW s \in Schedules, NEW temp \in Templates, NEW at \in 2 .. MaxTime,
         CreateSchedule(s, temp, at)
  PROVE  Inv'
<1>1. at \in Nat
  BY SchedulingAssumption
<1>2. TypeOK'
  BY <1>1 DEF Inv, TypeOK, CreateSchedule, Row, Status
<1>3. ActivityInv'
  BY QuietStep DEF CreateSchedule, Inv, ActivityInv, Sound
<1> QED
  BY <1>2, <1>3, QuietStep DEF CreateSchedule, Inv

(* A client's steps.                                                        *)
LEMMA ClientStepKeeps ==
  ASSUME Inv, NEW c \in Clients, ClientStep(c)
  PROVE  Inv'
<1> USE DEF Inv
<1>1. ASSUME NEW op \in {"pause", "resume", "cancel"}, NEW s \in Schedules,
             Request(c, op, s)
      PROVE  Inv'
  <2> DEFINE new == [Idle EXCEPT !.stage = IF op = "resume" THEN "handle" ELSE "read",
                                 !.op = op, !.schedule = s, !.seen = rows[s],
                                 !.change = Requested(op)]
  <2>1. Requested(op) \in Changes
    BY DEF Requested, Change, Changes, NoRow, Status, Ended
  <2>2. rows[s] \in Row
    BY DEF TypeOK
  <2>3. new \in Activity
    BY <2>1, <2>2, IdleType DEF Activity
  <2>4. Sound(new)
    BY IdleType, <1>1 DEF Sound, Activity, Request, Accepted, Requested, Change, Ended
  <2>5. client' = [client EXCEPT ![c] = new]
    BY <1>1 DEF Request
  <2> HIDE DEF new
  <2>6. TypeOK'
    BY <1>1, <2>3, <2>5 DEF TypeOK, Request, tables
  <2>7. \A d \in Clients : Sound(client'[d])
    BY <2>4, <2>5 DEF TypeOK, ActivityInv
  <2>8. ActivityInv'
    BY <1>1, <2>7, QuietStep DEF ActivityInv, Sound, Request, tables
  <2> QED
    BY <1>1, <2>6, <2>8, QuietStep DEF Request, tables
<1>2. CASE HandleResume(c)
  <2> DEFINE s == client[c].schedule
             next == IF template[s].type = "cron" THEN NextRunTime(now) ELSE rows[s].next
             new == [client[c] EXCEPT !.stage = "read", !.change = Change("active", next, -1)]
  <2>0. client' = [client EXCEPT ![c] = new]
    BY <1>2 DEF HandleResume, TypeOK, Activity
  <2>1. s \in Schedules /\ client[c] \in Activity
    BY <1>2 DEF HandleResume, ActivityInv, Sound, TypeOK
  <2>2. next \in Nat
    BY <2>1, NextRunTimeType DEF TypeOK, Row
  <2>3. new \in Activity
    BY <2>1, <2>2 DEF Activity, Change, Changes, Status
  <2> QED
    <3>1. Sound(new)
      BY <1>2, <2>1 DEF HandleResume, ActivityInv, Sound, Activity
    <3> HIDE DEF new, s, next
    <3>2. TypeOK'
      BY <1>2, <2>0, <2>3 DEF HandleResume, TypeOK, tables
    <3>3. \A d \in Clients : Sound(client'[d])
      BY <2>0, <3>1 DEF TypeOK, ActivityInv
    <3>4. ActivityInv'
      BY <1>2, <3>3, QuietStep DEF HandleResume, ActivityInv, Sound, tables
    <3> QED
      BY <1>2, <3>2, <3>4, QuietStep DEF HandleResume, tables
<1>3. CASE ClientReads(c)
  <2> DEFINE new == [client[c] EXCEPT !.stage = "write", !.base = rows[client[c].schedule]]
  <2>0. client' = [client EXCEPT ![c] = new]
    BY <1>3 DEF ClientReads, TypeOK, Activity
  <2>1. client[c] \in Activity /\ Sound(client[c]) /\ client[c].stage = "read"
    BY <1>3 DEF ClientReads, ActivityInv, TypeOK
  <2>2. rows[client[c].schedule] \in Row
    BY <2>1 DEF Sound, TypeOK
  <2>3. new \in Activity /\ Sound(new)
    BY <2>1, <2>2 DEF Activity, Sound
  <2> HIDE DEF new
  <2>4. TypeOK'
    BY <1>3, <2>0, <2>3 DEF ClientReads, TypeOK, tables
  <2>5. \A d \in Clients : Sound(client'[d])
    BY <2>0, <2>3 DEF TypeOK, ActivityInv
  <2>6. ActivityInv'
    BY <1>3, <2>5, QuietStep DEF ClientReads, ActivityInv, Sound, tables
  <2> QED
    BY <1>3, <2>4, <2>6, QuietStep DEF ClientReads, tables
<1>4. CASE ClientWrites(c)
  <2>1. client[c] \in Activity /\ client[c].schedule \in Schedules
    BY <1>4 DEF ClientWrites, ActivityInv, Sound, TypeOK
  <2>2. Merged(client[c]) \in Row
    BY <2>1, MergeType DEF Merged, Activity
  <2>3. rows' \in [Schedules -> Row] /\ raced' \subseteq Schedules
    BY <1>4, <2>1, <2>2 DEF ClientWrites, WriteRow, TypeOK
  <2>4. TypeOK'
    BY <1>4, <2>3, IdleType DEF ClientWrites, TypeOK
  <2>5. \A d \in Clients : Sound(client'[d])
    BY <1>4, IdleType DEF ClientWrites, TypeOK, ActivityInv, Sound
  <2>6. ActivityInv'
    BY <1>4, <2>5, QuietStep DEF ClientWrites, ActivityInv, Sound
  <2> QED
    BY <1>4, <2>4, <2>6, QuietStep DEF ClientWrites
<1> QED
  BY <1>1, <1>2, <1>3, <1>4 DEF ClientStep

(* The tick starts, or drops a row without writing.                         *)
LEMMA TakeDrops ==
  ASSUME Inv, NEW s \in Schedules, Take(s)
  PROVE  /\ DOMAIN todo' \subseteq DOMAIN todo
         /\ \A x \in DOMAIN todo' : todo'[x] = todo[x]
         /\ s \in DOMAIN todo /\ todo[s] \in Row /\ todo[s].status = "active"
         /\ up /\ tick.stage = "idle"
<1>1. /\ DOMAIN todo' \subseteq DOMAIN todo
      /\ \A x \in DOMAIN todo' : todo'[x] = todo[x]
      /\ s \in DOMAIN todo /\ tick.stage = "idle"
  BY DEF Take
<1>2. todo[s] \in Row /\ todo[s].status = "active"
  BY <1>1 DEF Inv, TypeOK, ActivityInv
<1>3. up
  <2>1. SUFFICES ASSUME ~ up PROVE FALSE
    OBVIOUS
  <2>2. todo = << >>
    BY <2>1 DEF Inv, DownInv
  <2>3. DOMAIN todo = {}
    BY <2>2
  <2> QED
    BY <1>1, <2>3
<1> QED
  BY <1>1, <1>2, <1>3

LEMMA TickStarts ==
  ASSUME Inv, Tick PROVE Inv'
<1> USE DEF Inv
<1>1. /\ DOMAIN todo' = {s \in Schedules : Due(s)}
      /\ \A s \in DOMAIN todo' : todo'[s] = rows[s]
  BY DEF Tick
<1>2. TypeOK'
  BY <1>1 DEF Tick, TypeOK, tables
<1>3. ActivityInv'
  BY <1>1 DEF Tick, ActivityInv, Sound, Due, tables
<1>4. TriggerInv' /\ DownInv'
  BY DEF Tick, TriggerInv, InTrigger, DownInv, TickIdle, tables
<1>5. RunInv' /\ OneExecutionAtATime'
  BY DEF Tick, RunInv, OneExecutionAtATime, Delegated, TasksOf, tables
<1> QED
  BY <1>2, <1>3, <1>4, <1>5

LEMMA RowDropped ==
  ASSUME Inv, NEW s \in Schedules, SkipRunning(s) \/ DropInactive(s)
  PROVE  Inv'
<1> USE DEF Inv
<1>1. Take(s) /\ UNCHANGED <<now, tables, up, running, tick, client, stops, requests,
                              recovered, raced>>
  BY DEF SkipRunning, DropInactive, TakeToTrigger
<1>2. TypeOK'
  BY <1>1, TakeDrops DEF TypeOK, tables
<1>3. ActivityInv'
  BY <1>1, TakeDrops DEF ActivityInv, Sound, tables
<1>4. TriggerInv' /\ DownInv'
  BY <1>1, TakeDrops DEF TriggerInv, InTrigger, DownInv, tables
<1>5. RunInv' /\ OneExecutionAtATime'
  BY <1>1 DEF RunInv, OneExecutionAtATime, Delegated, TasksOf, tables
<1> QED
  BY <1>2, <1>3, <1>4, <1>5

(* A missed run is skipped or fails its schedule.                           *)
LEMMA RunMissed ==
  ASSUME Inv, NEW s \in Schedules, SkipMissed(s) \/ FailMissed(s)
  PROVE  Inv'
<1> USE DEF Inv
<1>1. Take(s) /\ UNCHANGED <<now, tables, up, running, client, stops, requests,
                              recovered, raced>>
  BY DEF SkipMissed, FailMissed
<1>2. PICK op \in {"skip", "fail"}, change \in Changes :
        tick' = [Idle EXCEPT !.stage = "read", !.op = op, !.schedule = s,
                             !.seen = todo[s], !.change = change]
  <2>1. Change("cancelled", 0, -1) \in Changes
    BY DEF Change, Changes, Status, Ended
  <2> QED
    BY <2>1, UpdateNextRunType DEF SkipMissed, FailMissed
<1>3. /\ tick' \in Activity
      /\ tick'.stage = "read" /\ tick'.schedule = s /\ tick'.seen.status = "active"
      /\ tick'.op # "trigger"
  BY <1>1, <1>2, TakeDrops, IdleType DEF Activity
<1>4. TypeOK'
  BY <1>1, <1>3, TakeDrops DEF TypeOK, tables
<1>5. ActivityInv'
  BY <1>1, <1>3, TakeDrops DEF ActivityInv, Sound, tables, Ended
<1>6. TriggerInv' /\ DownInv'
  BY <1>1, <1>3, TakeDrops DEF TriggerInv, InTrigger, DownInv, tables
<1>7. RunInv' /\ OneExecutionAtATime'
  BY <1>1 DEF RunInv, OneExecutionAtATime, Delegated, TasksOf, tables
<1> QED
  BY <1>4, <1>5, <1>6, <1>7

(* The dependency that a trigger injects is a task, or none.                *)
LEMMA AfterScheduleType ==
  ASSUME NEW s, NEW d \in AfterSchedule(s)
  PROVE  d \in 0 .. MaxTasks
<1> DEFINE a == template[s].after
<1>1. LatestRecords(a) \subseteq Tasks
  BY DEF LatestRecords, Recorded
<1>2. d = 0 \/ d \in LatestRecords(a)
  BY DEF AfterSchedule
<1> QED
  BY <1>1, <1>2, SchedulingAssumption DEF Tasks

(* A trigger begins.                                                        *)
LEMMA TriggerBegins ==
  ASSUME Inv, NEW s \in Schedules, NEW t \in Tasks, SaveTask(s, t)
  PROVE  Inv'
<1> USE DEF Inv
<1>1. Take(s) /\ ~ IsScheduleRunning(s) /\ state[t] = "none" /\ rows[s].status = "active"
  BY DEF SaveTask, TakeToTrigger, Fresh
<1>2. rows[s] \in Row /\ rows[s].runs + 1 \in Nat
  BY DEF TypeOK, Row
<1>3. PICK change \in Changes :
        tick' = [Idle EXCEPT !.stage = "record", !.op = "trigger", !.schedule = s,
                             !.task = t, !.seen = rows[s], !.change = change]
  <2>1. AfterTrigger(s, rows[s].runs + 1) \in Changes
    BY <1>2, AfterTriggerType
  <2> QED
    BY <2>1 DEF SaveTask
<1>4. t \in 0 .. MaxTasks
  BY SchedulingAssumption DEF Tasks
<1>5. /\ tick' \in Activity
      /\ tick'.stage = "record" /\ tick'.schedule = s /\ tick'.task = t
      /\ tick'.seen.status = "active"
  BY <1>1, <1>2, <1>3, <1>4, IdleType DEF Activity
<1>6. waitsFor' \in [Tasks -> 0 .. MaxTasks]
  BY AfterScheduleType DEF SaveTask, TypeOK
<1>7. /\ state' = [state EXCEPT ![t] = "saved"]
      /\ owner' = [owner EXCEPT ![t] = s]
      /\ raced' \subseteq Schedules
      /\ UNCHANGED <<now, rows, template, recordedFor, missedFor, up, running, client,
                     stops, requests, recovered>>
  BY DEF SaveTask, TypeOK
<1>8. TypeOK'
  BY <1>1, <1>5, <1>6, <1>7, TakeDrops DEF TypeOK
<1>9. ActivityInv'
  BY <1>1, <1>5, <1>7, TakeDrops DEF ActivityInv, Sound, Ended
<1>10. TriggerInv' /\ DownInv'
  BY <1>1, <1>5, <1>7, TakeDrops
     DEF TriggerInv, InTrigger, DownInv, TypeOK, IsScheduleRunning
<1>11. \A u \in Tasks : Delegated(u)' => u # t /\ Delegated(u) /\ owner'[u] = owner[u]
  BY <1>7 DEF TypeOK, Delegated
<1>12. RunInv'
  BY <1>7, <1>11 DEF RunInv
<1>13. OneExecutionAtATime'
  BY <1>7, <1>11 DEF OneExecutionAtATime, TasksOf
<1> QED
  BY <1>8, <1>9, <1>10, <1>12, <1>13

(* The steps of an activity that has begun.                                 *)
LEMMA TickGoesOn ==
  ASSUME Inv, RecordExecution \/ TickReads
  PROVE  Inv'
<1> USE DEF Inv
<1>1. /\ tick \in Activity /\ tick.schedule \in Schedules
      /\ tick.stage \in {"record", "read"}
  BY DEF RecordExecution, TickReads, TypeOK, ActivityInv, Sound
<1>2. tick' = [tick EXCEPT !.stage = "write", !.base = rows[tick.schedule]]
  BY DEF RecordExecution, TickReads
<1>3. rows[tick.schedule] \in Row
  BY <1>1 DEF TypeOK
<1>4. /\ tick' \in Activity /\ tick'.stage = "write"
      /\ tick'.schedule = tick.schedule /\ tick'.task = tick.task /\ tick'.op = tick.op
      /\ tick'.seen = tick.seen /\ tick'.change = tick.change
  BY <1>1, <1>2, <1>3 DEF Activity
<1>5. recordedFor' \in [Tasks -> Nat]
  BY <1>1 DEF RecordExecution, TickReads, TypeOK, Activity, Row, tables
<1>6. UNCHANGED <<now, rows, template, state, owner, waitsFor, missedFor, up, running,
                  todo, client, stops, requests, recovered, raced>>
  BY DEF RecordExecution, TickReads, tables
<1>7. TypeOK'
  BY <1>4, <1>5, <1>6 DEF TypeOK
<1>8. ActivityInv'
  BY <1>1, <1>4, <1>6 DEF ActivityInv, Sound
<1>9. TriggerInv' /\ DownInv'
  BY <1>1, <1>4, <1>6 DEF TriggerInv, InTrigger, DownInv
<1>10. RunInv' /\ OneExecutionAtATime'
  BY <1>6 DEF RunInv, OneExecutionAtATime, Delegated, TasksOf
<1> QED
  BY <1>7, <1>8, <1>9, <1>10

(* The row is written.                                                      *)
LEMMA TickWritesKeeps ==
  ASSUME Inv, TickWrites
  PROVE  Inv'
<1> USE DEF Inv
<1>1. tick \in Activity /\ tick.schedule \in Schedules /\ tick.stage = "write"
  BY DEF TickWrites, TypeOK, ActivityInv, Sound
<1>2. Merged(tick) \in Row
  BY <1>1, MergeType DEF Merged, Activity
<1>3. rows' \in [Schedules -> Row] /\ raced' \subseteq Schedules
  BY <1>1, <1>2 DEF TickWrites, WriteRow, TypeOK
<1>4. UNCHANGED <<now, template, state, owner, waitsFor, recordedFor, missedFor, up,
                  running, todo, client, stops, requests, recovered>>
  BY DEF TickWrites
<1>5. \/ /\ tick' \in Activity /\ tick'.schedule = tick.schedule
         /\ tick'.task = tick.task /\ tick'.seen = tick.seen /\ tick'.change = tick.change
         /\ \/ tick.op = "trigger" /\ tick'.stage = "delegate"
            \/ tick'.stage = "missed"
      \/ tick' = Idle
  <2>1. CASE tick.op = "trigger"
    <3>1. tick' = [tick EXCEPT !.stage = "delegate"]
      BY <2>1 DEF TickWrites
    <3> QED
      BY <1>1, <2>1, <3>1 DEF Activity
  <2>2. CASE tick.op = "fail"
    <3>1. tick' = [tick EXCEPT !.stage = "missed"]
      BY <2>2 DEF TickWrites
    <3> QED
      BY <1>1, <3>1 DEF Activity
  <2>3. CASE tick.op \notin {"trigger", "fail"}
    BY <2>3 DEF TickWrites
  <2> QED
    BY <2>1, <2>2, <2>3
<1>6. TypeOK'
  BY <1>3, <1>4, <1>5, IdleType DEF TypeOK
<1>7. ActivityInv'
  BY <1>1, <1>4, <1>5, IdleType DEF ActivityInv, Sound
<1>8. TriggerInv' /\ DownInv'
  BY <1>1, <1>4, <1>5, IdleType DEF TriggerInv, InTrigger, DownInv
<1>9. RunInv' /\ OneExecutionAtATime'
  BY <1>4 DEF RunInv, OneExecutionAtATime, Delegated, TasksOf
<1> QED
  BY <1>6, <1>7, <1>8, <1>9

LEMMA RecordMissedKeeps ==
  ASSUME Inv, RecordMissed
  PROVE  Inv'
<1> USE DEF Inv
<1>1. tick' = Idle /\ missedFor' \in [Schedules -> Nat]
  BY DEF RecordMissed, TypeOK, Activity, Row
<1>2. UNCHANGED <<now, rows, template, state, owner, waitsFor, recordedFor, up, running,
                  todo, client, stops, requests, recovered, raced>>
  BY DEF RecordMissed
<1>3. TypeOK'
  BY <1>1, <1>2, IdleType DEF TypeOK
<1>4. ActivityInv' /\ TriggerInv'
  BY <1>1, <1>2, IdleType DEF ActivityInv, Sound, TriggerInv, InTrigger
<1>5. DownInv' /\ RunInv' /\ OneExecutionAtATime'
  BY <1>1, <1>2, IdleType
     DEF DownInv, RunInv, OneExecutionAtATime, Delegated, TasksOf
<1> QED
  BY <1>3, <1>4, <1>5

(* The task is delegated: of its schedule no other task of this session is  *)
(* delegated, since running says so and names every such task.              *)
LEMMA DelegateKeeps ==
  ASSUME Inv, NEW outcome \in {"live", "stranded"}, Delegate(outcome)
  PROVE  Inv'
<1> USE DEF Inv
<1> DEFINE t == tick.task
           s == tick.schedule
<1>1. /\ tick.stage = "delegate" /\ tick \in Activity
      /\ t \in Tasks /\ s \in Schedules
      /\ owner[t] = s /\ state[t] = "saved" /\ running[s] = 0
  BY DEF Delegate, TriggerInv, InTrigger, ActivityInv, Sound, TypeOK
<1>2. up
  BY <1>1 DEF DownInv
<1>3. /\ state' = [state EXCEPT ![t] = outcome]
      /\ running' = [running EXCEPT ![s] = t]
      /\ tick' = Idle
      /\ UNCHANGED <<now, rows, template, owner, waitsFor, recordedFor, missedFor, up,
                     todo, client, stops, requests, recovered, raced>>
  BY DEF Delegate
<1>4. t \in 0 .. MaxTasks /\ \A u \in Tasks : u # 0
  BY <1>1, SchedulingAssumption DEF Tasks
<1> HIDE DEF t, s
<1>5. TypeOK'
  BY <1>1, <1>3, <1>4, IdleType DEF TypeOK
<1>6. ActivityInv' /\ TriggerInv' /\ DownInv'
  BY <1>3, IdleType DEF ActivityInv, Sound, TriggerInv, InTrigger, DownInv
<1>7. \A u \in Tasks \ recovered : u # t /\ Delegated(u)' =>
        Delegated(u) /\ owner[u] \in Schedules /\ running[owner[u]] = u /\ owner[u] # s
  BY <1>1, <1>2, <1>3, <1>4 DEF RunInv, Delegated, TypeOK
<1>8. RunInv'
  BY <1>1, <1>3, <1>7 DEF RunInv, TypeOK
<1>9. OneExecutionAtATime'
  <2>1. SUFFICES ASSUME NEW r \in Schedules, NEW u \in Tasks \ recovered,
                        NEW v \in Tasks \ recovered, owner[u] = r, owner[v] = r,
                        Delegated(u)', Delegated(v)'
                 PROVE  u = v
    BY <1>3 DEF OneExecutionAtATime, TasksOf
  <2> QED
    BY <2>1, <1>1, <1>7
<1> QED
  BY <1>5, <1>6, <1>8, <1>9

-----------------------------------------------------------------------------
(* A task ends.                                                             *)
LEMMA EndTaskKeeps ==
  ASSUME Inv, NEW t \in Tasks, EndTask(t)
  PROVE  Inv'
<1> USE DEF Inv
<1>1. /\ up /\ tick.stage = "idle"
      /\ state' = [state EXCEPT ![t] = "ended"]
      /\ running' = ClearRunning(t)
      /\ UNCHANGED <<now, rows, template, owner, waitsFor, recordedFor, missedFor, up, todo,
                     tick, client, stops, requests, recovered, raced>>
  BY DEF EndTask, TickIdle
<1>2. running' \in [Schedules -> 0 .. MaxTasks]
  BY <1>1, SchedulingAssumption DEF ClearRunning, TypeOK
<1>3. TypeOK'
  BY <1>1, <1>2 DEF TypeOK
<1>4. ActivityInv' /\ TriggerInv' /\ DownInv'
  BY <1>1 DEF ActivityInv, Sound, TriggerInv, InTrigger, DownInv
<1>5. \A u \in Tasks : Delegated(u)' => u # t /\ Delegated(u)
  BY <1>1 DEF Delegated, TypeOK
<1>6. RunInv'
  BY <1>1, <1>5 DEF RunInv, ClearRunning
<1>7. OneExecutionAtATime'
  BY <1>1, <1>5 DEF OneExecutionAtATime, TasksOf
<1> QED
  BY <1>3, <1>4, <1>6, <1>7

LEMMA ClockKeeps ==
  ASSUME Inv, Clock
  PROVE  Inv'
<1> USE DEF Inv
<1>1. TypeOK'
  BY DEF Clock, TypeOK, tables
<1>2. ActivityInv'
  BY DEF Clock, ActivityInv, Sound, tables
<1> QED
  BY <1>1, <1>2, QuietStep DEF Clock, tables

(* The server stops.                                                        *)
LEMMA StopKeeps ==
  ASSUME Inv, Stop
  PROVE  Inv'
<1> USE DEF Inv
<1>0. DOMAIN todo' = {}
  BY DEF Stop
<1>1. TypeOK'
  <2>1. running' \in [Schedules -> 0 .. MaxTasks]
    BY SchedulingAssumption DEF Stop
  <2>2. DOMAIN todo' \subseteq Schedules /\ \A s \in DOMAIN todo' : todo'[s] \in Row
    BY <1>0
  <2>3. /\ up' = FALSE /\ tick' \in Activity /\ stops' \in Nat
        /\ UNCHANGED <<now, rows, template, state, owner, waitsFor, recordedFor,
                       missedFor, client, requests, recovered, raced>>
    BY IdleType DEF Stop, TypeOK, tables
  <2> QED
    BY <2>1, <2>2, <2>3 DEF TypeOK
<1>2. ActivityInv' /\ TriggerInv' /\ DownInv'
  BY <1>0, IdleType
     DEF Stop, ActivityInv, Sound, TriggerInv, InTrigger, DownInv, tables
<1>3. RunInv' /\ OneExecutionAtATime'
  BY DEF Stop, RunInv, OneExecutionAtATime, Delegated, TasksOf, tables
<1> QED
  BY <1>1, <1>2, <1>3

(* It starts again: every task there is belongs to an earlier session.      *)
LEMMA BootKeeps ==
  ASSUME Inv, NEW stale \in SUBSET Tasks, Boot(stale)
  PROVE  Inv'
<1> USE DEF Inv
<1>1. /\ ~ up /\ tick.stage = "idle"
      /\ recovered' = {t \in Tasks : state[t] # "none"}
      /\ \A t \in Tasks : Delegated(t)' => state[t] # "none"
  BY DEF Boot, DownInv, NonTerminal, Delegated
<1>2. TypeOK'
  BY DEF Boot, TypeOK
<1>3. ActivityInv' /\ TriggerInv' /\ DownInv'
  BY <1>1 DEF Boot, ActivityInv, Sound, TriggerInv, InTrigger, DownInv
<1>4. RunInv' /\ OneExecutionAtATime'
  BY <1>1 DEF RunInv, OneExecutionAtATime, TasksOf
<1> QED
  BY <1>2, <1>3, <1>4

-----------------------------------------------------------------------------
(* All steps together. *)
LEMMA StepInv == Inv /\ [Next]_vars => Inv'
<1> SUFFICES ASSUME Inv, [Next]_vars PROVE Inv'
  OBVIOUS
<1>1. CASE TickStep
  BY <1>1, TickStarts, TickGoesOn, TickWritesKeeps, RecordMissedKeeps, DelegateKeeps,
     RowDropped, RunMissed, TriggerBegins DEF TickStep, ExecuteSchedule
<1>2. CASE Clock
  BY <1>2, ClockKeeps
<1>3. CASE Stop
  BY <1>3, StopKeeps
<1>4. CASE Recover
  BY <1>4, BootKeeps DEF Recover
<1>5. CASE \E t \in Tasks : TaskEnds(t) \/ CancelTask(t)
  BY <1>5, EndTaskKeeps DEF TaskEnds, CancelTask
<1>6. CASE \E c \in Clients : ClientStep(c)
  BY <1>6, ClientStepKeeps
<1>7. CASE \E s \in Schedules, temp \in Templates, at \in 2 .. MaxTime :
             CreateSchedule(s, temp, at)
  BY <1>7, CreateStep
<1>8. CASE UNCHANGED vars
  <2> USE DEF Inv
  <2>1. UNCHANGED <<now, rows, template, state, owner, waitsFor, recordedFor, missedFor,
                    up, running, todo, tick, client, stops, requests, recovered, raced>>
    BY <1>8 DEF vars, tables
  <2>2. TypeOK'
    BY <2>1 DEF TypeOK
  <2>3. ActivityInv'
    BY <2>1 DEF ActivityInv, Sound
  <2> QED
    BY <2>1, <2>2, <2>3, QuietStep
<1> QED
  BY <1>1, <1>2, <1>3, <1>4, <1>5, <1>6, <1>7, <1>8 DEF Next

LEMMA AlwaysInv == Spec => []Inv
<1> QED
  BY InitInv, StepInv, PTL DEF Spec

(* Every variable keeps its type: merged rows have a legal status and time. *)
THEOREM TypeCorrect == Spec => []TypeOK
<1>1. Inv => TypeOK
  BY DEF Inv
<1> QED
  BY <1>1, AlwaysInv, PTL

(* In every session of the server at most one task of a schedule that was   *)
(* triggered in that session is delegated and has not ended.                *)
THEOREM OneExecution == Spec => []OneExecutionAtATime
<1>1. Inv => OneExecutionAtATime
  BY DEF Inv
<1> QED
  BY <1>1, AlwaysInv, PTL

-----------------------------------------------------------------------------
(* A write over a row that has not changed since it was looked at keeps an  *)
(* ended schedule ended.                                                    *)
LEMMA WriteKeepsEnded ==
  ASSUME Inv, NEW a \in Activity, Sound(a), a.stage # "idle", WriteRow(a),
         NEW s \in Schedules, rows[s].status \in Ended
  PROVE  rows'[s].status \in Ended \/ s \in raced'
<1>1. rows \in [Schedules -> Row] /\ a.schedule \in Schedules
  BY DEF Inv, TypeOK, Sound
<1>2. CASE s # a.schedule
  BY <1>1, <1>2 DEF WriteRow
<1>3. CASE s = a.schedule /\ rows[s] # a.seen
  BY <1>3 DEF WriteRow
<1>4. CASE s = a.schedule /\ rows[s] = a.seen
  <2>1. a.change.status \in Ended
    BY <1>4 DEF Sound
  <2>2. Merged(a).status \in Ended
    BY <2>1, MergeType DEF Merged, Activity
  <2> QED
    BY <1>1, <1>4, <2>2 DEF WriteRow
<1> QED
  BY <1>2, <1>3, <1>4

LEMMA StepKeepsEnded ==
  ASSUME Inv, [Next]_vars, NEW s \in Schedules, rows[s].status \in Ended
  PROVE  rows'[s].status \in Ended \/ s \in raced'
<1>1. CASE TickWrites
  <2>1. tick \in Activity /\ Sound(tick) /\ tick.stage # "idle" /\ WriteRow(tick)
    BY <1>1 DEF TickWrites, Inv, TypeOK, ActivityInv
  <2> QED
    BY <2>1, WriteKeepsEnded
<1>2. CASE \E c \in Clients : ClientWrites(c)
  <2>1. PICK c \in Clients : ClientWrites(c)
    BY <1>2
  <2>2. /\ client[c] \in Activity /\ Sound(client[c])
        /\ client[c].stage # "idle" /\ WriteRow(client[c])
    BY <2>1 DEF ClientWrites, Inv, TypeOK, ActivityInv
  <2> QED
    BY <2>2, WriteKeepsEnded
<1>3. CASE \E x \in Schedules, temp \in Templates, at \in 2 .. MaxTime :
             CreateSchedule(x, temp, at)
  <2>1. PICK x \in Schedules, temp \in Templates, at \in 2 .. MaxTime :
          CreateSchedule(x, temp, at)
    BY <1>3
  <2>2. x # s
    BY <2>1 DEF CreateSchedule, Ended
  <2> QED
    BY <2>1, <2>2 DEF CreateSchedule, Inv, TypeOK
<1>4. CASE rows' = rows
  BY <1>4
<1>5. \/ TickWrites \/ \E c \in Clients : ClientWrites(c)
      \/ \E x \in Schedules, temp \in Templates, at \in 2 .. MaxTime :
           CreateSchedule(x, temp, at)
      \/ rows' = rows
  <2>1. TickStep => TickWrites \/ rows' = rows
    BY DEF TickStep, ExecuteSchedule, Tick, TickReads, RecordExecution, RecordMissed,
           Delegate, SkipRunning, SkipMissed, FailMissed, DropInactive, SaveTask, tables
  <2>2. ASSUME NEW c \in Clients, ClientStep(c)
        PROVE  ClientWrites(c) \/ rows' = rows
    BY <2>2 DEF ClientStep, HandleResume, ClientReads, Request, tables
  <2>3. Clock \/ Stop \/ Recover => rows' = rows
    BY DEF Clock, Stop, Recover, Boot, tables
  <2>4. (\E t \in Tasks : TaskEnds(t) \/ CancelTask(t)) => rows' = rows
    BY DEF TaskEnds, CancelTask, EndTask
  <2>5. UNCHANGED vars => rows' = rows
    BY DEF vars, tables
  <2> QED
    BY <2>1, <2>2, <2>3, <2>4, <2>5 DEF Next
<1> QED
  BY <1>1, <1>2, <1>3, <1>4, <1>5

(* A completed, cancelled or expired schedule stays so, unless a request    *)
(* and a trigger (or two requests) have crossed.                            *)
THEOREM EndsAreFinal == Spec => EndedIsFinal
<1>1. Inv /\ [Next]_vars =>
        [\A s \in Schedules :
           rows[s].status \in Ended => rows'[s].status \in Ended \/ s \in raced']_vars
  BY StepKeepsEnded
<1> QED
  BY <1>1, AlwaysInv, PTL DEF Spec, EndedIsFinal

-----------------------------------------------------------------------------
(* Times.  What an activity is about to write fits the status that the row  *)
(* has by now, if that is not a last one and nothing has crossed: a time    *)
(* that was copied from the row is not the missing time of an ended one.    *)
Timed(row) ==
  /\ row.status \in {"active", "paused"} => row.next # 0
  /\ row.status \in Ended => row.next = 0

FitTo(a, table, crossed) ==
  a.stage # "idle" =>
    LET s == a.schedule
    IN /\ table[s].status # "none"
       /\ a.stage # "handle" => a.change.status # "none"
       /\ a.stage = "write" => a.base.status # "none"
       /\ a.change.status \in Ended => a.change.next = 0
       /\ s \notin crossed /\ table[s].status \notin Ended =>
            /\ a.stage = "write" => a.base.status \notin Ended /\ a.base.next # 0
            /\ a.stage # "handle" =>
                 \/ a.change.status \in Ended
                 \/ a.change.status = "paused" /\ a.change.next = -1
                 \/ a.change.status \in {"active", "same"} /\ a.change.next > 0

Fit(a) == FitTo(a, rows, raced)

TimeInv ==
  /\ \A s \in Schedules \ raced : Timed(rows[s])
  /\ \A s \in DOMAIN todo : rows[s].status # "none"
  /\ Fit(tick)
  /\ \A c \in Clients : Fit(client[c])

(* The next run is in the future, so it is not the missing time.            *)
LEMMA NextRunTimePositive == \A t \in Nat : NextRunTime(t) \in Nat /\ NextRunTime(t) > 0
<1> SUFFICES ASSUME NEW t \in Nat PROVE NextRunTime(t) > 0
  BY NextRunTimeType
<1>1. Period \in Nat /\ Period > 0
  BY SchedulingAssumption
<1>2. (t \div Period) + 1 \in Nat /\ (t \div Period) + 1 > 0
  BY <1>1, SMT
<1>3. \A a, b \in Nat : a > 0 /\ b > 0 => a * b > 0
  BY SMT
<1> QED
  BY <1>1, <1>2, <1>3 DEF NextRunTime

(* Rows keep existing, ended ones stay ended unless something crosses, and  *)
(* what has crossed has crossed.                                            *)
RowsGoOn ==
  /\ raced \subseteq raced'
  /\ \A s \in Schedules :
       /\ rows[s].status # "none" => rows'[s].status # "none"
       /\ rows[s].status \in Ended => rows'[s].status \in Ended \/ s \in raced'

LEMMA FitStays ==
  ASSUME NEW a, Sound(a), Fit(a), RowsGoOn
  PROVE  FitTo(a, rows', raced')
BY DEF Sound, Fit, FitTo, RowsGoOn

(* An activity that a step leaves alone still fits.                         *)
LEMMA TickStaysFit ==
  ASSUME Inv, TimeInv, RowsGoOn, UNCHANGED tick
  PROVE  Fit(tick)'
BY FitStays DEF Inv, ActivityInv, TimeInv, Fit

LEMMA ClientStaysFit ==
  ASSUME Inv, TimeInv, RowsGoOn, NEW c \in Clients, UNCHANGED client[c]
  PROVE  Fit(client[c])'
BY FitStays DEF Inv, ActivityInv, TimeInv, Fit

LEMMA TodoStaysFit ==
  ASSUME Inv, TimeInv, RowsGoOn, DOMAIN todo' \subseteq DOMAIN todo
  PROVE  \A s \in DOMAIN todo' : rows'[s].status # "none"
BY DEF Inv, TypeOK, TimeInv, RowsGoOn

(* A write leaves a row with a time that fits its status.                   *)
LEMMA WriteFits ==
  ASSUME Inv, TimeInv, NEW a \in Activity, Sound(a), Fit(a), a.stage = "write", WriteRow(a)
  PROVE  /\ RowsGoOn
         /\ \A s \in Schedules \ raced' : Timed(rows'[s])
<1> DEFINE x == a.schedule
<1>1. rows \in [Schedules -> Row] /\ x \in Schedules
  BY DEF Inv, TypeOK, Sound
<1>2. rows' = [rows EXCEPT ![x] = Merged(a)] /\ raced \subseteq raced'
  BY DEF WriteRow
<1>3. \A s \in Schedules :
        rows[s].status \in Ended => rows'[s].status \in Ended \/ s \in raced'
  BY WriteKeepsEnded
<1>4. Merged(a).status # "none"
  BY DEF Merged, Merge, Fit, FitTo
<1>5. RowsGoOn
  BY <1>1, <1>2, <1>3, <1>4 DEF RowsGoOn
<1>6. ASSUME x \notin raced' PROVE Timed(Merged(a))
  <2>1. x \notin raced /\ rows[x] = a.seen
    BY <1>6 DEF WriteRow
  <2>2. a.change \in Changes /\ a.base \in Row
    BY DEF Activity
  <2>3. CASE a.change.status \in Ended
    <3>1. a.change.next = 0
      BY <2>3 DEF Fit, FitTo
    <3> QED
      BY <2>3, <3>1 DEF Merged, Merge, Timed, Ended
  <2>4. CASE a.change.status \notin Ended
    <3>1. rows[x].status \notin Ended
      BY <2>1, <2>4 DEF Sound
    <3>2. /\ a.base.status \notin Ended /\ a.base.next # 0
          /\ \/ a.change.status = "paused" /\ a.change.next = -1
             \/ a.change.status \in {"active", "same"} /\ a.change.next > 0
      BY <2>1, <2>4, <3>1 DEF Fit, FitTo
    <3>3. CASE a.change.status = "paused" /\ a.change.next = -1
      BY <3>2, <3>3 DEF Merged, Merge, Timed, Ended
    <3>4. CASE a.change.status = "active" /\ a.change.next > 0
      BY <2>2, <3>4 DEF Merged, Merge, Timed, Ended, Changes
    <3>5. CASE a.change.status = "same" /\ a.change.next > 0
      BY <2>2, <3>2, <3>5 DEF Merged, Merge, Timed, Ended, Changes
    <3> QED
      BY <3>2, <3>3, <3>4, <3>5
  <2> QED
    BY <2>3, <2>4
<1>7. ASSUME NEW s \in Schedules \ raced' PROVE Timed(rows'[s])
  BY <1>1, <1>2, <1>6, <1>7 DEF TimeInv
<1> QED
  BY <1>5, <1>7

LEMMA InitTime == Init => TimeInv
<1> SUFFICES ASSUME Init PROVE TimeInv
  OBVIOUS
<1>1. DOMAIN todo = {}
  BY DEF Init
<1>2. \A s \in Schedules : Timed(rows[s])
  BY DEF Init, NoRow, Timed, Ended
<1>3. Fit(tick) /\ \A c \in Clients : Fit(client[c])
  BY IdleType DEF Init, Fit, FitTo
<1> QED
  BY <1>1, <1>2, <1>3 DEF TimeInv

(* A step that writes no row lets the rows go on.                           *)
LEMMA QuietTimes ==
  ASSUME Inv, TimeInv, UNCHANGED rows, raced \subseteq raced'
  PROVE  RowsGoOn /\ \A s \in Schedules \ raced' : Timed(rows'[s])
BY DEF TimeInv, RowsGoOn

LEMMA CreateTimes ==
  ASSUME Inv, TimeInv, NEW s \in Schedules, NEW temp \in Templates,
         NEW at \in 2 .. MaxTime, CreateSchedule(s, temp, at)
  PROVE  TimeInv'
<1>1. /\ rows[s].status = "none"
      /\ rows' = [rows EXCEPT ![s] = [status |-> "active", next |-> at, runs |-> 0]]
      /\ UNCHANGED <<todo, tick, client, raced>>
  BY DEF CreateSchedule
<1>2. at # 0
  OBVIOUS
<1>3. RowsGoOn
  BY <1>1 DEF RowsGoOn, Inv, TypeOK, Ended
<1>4. \A x \in Schedules \ raced' : Timed(rows'[x])
  BY <1>1, <1>2 DEF Inv, TypeOK, TimeInv, Timed, Ended
<1>5. (\A x \in DOMAIN todo : rows[x].status # "none")'
  BY <1>1, <1>3, TodoStaysFit
<1> QED
  BY <1>1, <1>3, <1>4, <1>5, TickStaysFit, ClientStaysFit DEF TimeInv

(* A read takes over the time of a row, which fits its status.              *)
LEMMA ReadFits ==
  ASSUME Inv, TimeInv, NEW a \in Activity, Sound(a), Fit(a),
         a.stage \in {"read", "record"},
         NEW new, new.stage = "write", new.schedule = a.schedule,
         new.base = rows[a.schedule], new.change = a.change
  PROVE  FitTo(new, rows, raced)
<1>1. a.schedule \in Schedules /\ rows[a.schedule] \in Row
  BY DEF Sound, Inv, TypeOK
<1>2. a.schedule \notin raced => Timed(rows[a.schedule])
  BY <1>1 DEF TimeInv
<1>3. rows[a.schedule].status # "none"
  BY DEF Fit, FitTo
<1>4. a.schedule \notin raced /\ rows[a.schedule].status \notin Ended =>
        rows[a.schedule].next # 0
  BY <1>1, <1>2, <1>3 DEF Timed, Row, Status
<1> QED
  BY <1>3, <1>4 DEF Fit, FitTo

(* A client.                                                                *)
LEMMA ClientTimes ==
  ASSUME Inv, TimeInv, NEW c \in Clients, ClientStep(c)
  PROVE  TimeInv'
<1> DEFINE a == client[c]
<1>0. client \in [Clients -> Activity] /\ a \in Activity /\ Sound(a) /\ Fit(a)
  BY DEF Inv, TypeOK, ActivityInv, TimeInv
<1>1. ASSUME RowsGoOn, \A s \in Schedules \ raced' : Timed(rows'[s]),
             UNCHANGED <<todo, tick>>, NEW new,
             client' = [client EXCEPT ![c] = new], FitTo(new, rows', raced')
      PROVE  TimeInv'
  <2>1. ASSUME NEW d \in Clients PROVE Fit(client[d])'
    <3>1. CASE d = c
      BY <1>0, <1>1, <3>1 DEF Fit
    <3>2. CASE d # c
      BY <1>0, <1>1, <3>2, ClientStaysFit
    <3> QED
      BY <3>1, <3>2
  <2>2. (\A s \in DOMAIN todo : rows[s].status # "none")'
    BY <1>1, TodoStaysFit
  <2> QED
    BY <1>1, <2>1, <2>2, TickStaysFit DEF TimeInv
<1>2. ASSUME NEW op \in {"pause", "resume", "cancel"}, NEW s \in Schedules,
             Request(c, op, s)
      PROVE  TimeInv'
  <2> DEFINE new == [Idle EXCEPT !.stage = IF op = "resume" THEN "handle" ELSE "read",
                                 !.op = op, !.schedule = s, !.seen = rows[s],
                                 !.change = Requested(op)]
  <2>1. /\ Accepted(op, rows[s]) /\ client' = [client EXCEPT ![c] = new]
        /\ UNCHANGED <<rows, raced, todo, tick>>
    BY <1>2 DEF Request, tables
  <2>2. rows[s].status # "none"
    BY <2>1 DEF Accepted
  <2>3. /\ new.stage = IF op = "resume" THEN "handle" ELSE "read"
        /\ new.schedule = s /\ new.change = Requested(op)
    BY DEF Idle
  <2> HIDE DEF new
  <2>4. FitTo(new, rows, raced)
    BY <2>2, <2>3 DEF FitTo, Requested, Change, NoRow, Ended
  <2> QED
    BY <1>1, <2>1, <2>4, QuietTimes
<1>3. CASE HandleResume(c)
  <2> DEFINE s == a.schedule
             next == IF template[s].type = "cron" THEN NextRunTime(now) ELSE rows[s].next
             new == [a EXCEPT !.stage = "read", !.change = Change("active", next, -1)]
  <2>1. client' = [client EXCEPT ![c] = new] /\ a.stage = "handle"
    BY <1>0, <1>3 DEF HandleResume, Activity
  <2>2. UNCHANGED <<rows, raced, todo, tick>>
    BY <1>3 DEF HandleResume, tables
  <2>3. new.stage = "read" /\ new.schedule = s /\ new.change = Change("active", next, -1)
    BY <1>0 DEF Activity
  <2>4. s \in Schedules /\ rows[s].status # "none"
    BY <1>0, <2>1 DEF Sound, Fit, FitTo
  <2>5. rows[s] \in Row /\ (s \notin raced => Timed(rows[s]))
    BY <2>4 DEF Inv, TypeOK, TimeInv
  <2>6. s \notin raced /\ rows[s].status \notin Ended => next > 0
    <3>1. NextRunTime(now) > 0
      BY NextRunTimePositive DEF Inv, TypeOK
    <3>2. s \notin raced /\ rows[s].status \notin Ended => rows[s].next \in Nat \ {0}
      BY <2>4, <2>5 DEF Timed, Row, Status
    <3> QED
      BY <3>1, <3>2
  <2> HIDE DEF new, next
  <2>7. FitTo(new, rows, raced)
    BY <2>3, <2>4, <2>6 DEF FitTo, Change, Ended
  <2> QED
    BY <1>1, <2>1, <2>2, <2>7, QuietTimes
<1>4. CASE ClientReads(c)
  <2> DEFINE new == [a EXCEPT !.stage = "write", !.base = rows[a.schedule]]
  <2>1. client' = [client EXCEPT ![c] = new] /\ a.stage = "read"
    BY <1>0, <1>4 DEF ClientReads, Activity
  <2>2. UNCHANGED <<rows, raced, todo, tick>>
    BY <1>4 DEF ClientReads, tables
  <2>3. /\ new.stage = "write" /\ new.schedule = a.schedule
        /\ new.base = rows[a.schedule] /\ new.change = a.change
    BY <1>0 DEF Activity
  <2>4. FitTo(new, rows, raced)
    BY <1>0, <2>1, <2>3, ReadFits
  <2> HIDE DEF new
  <2> QED
    BY <1>1, <2>1, <2>2, <2>4, QuietTimes
<1>5. CASE ClientWrites(c)
  <2>1. a.stage = "write" /\ WriteRow(a) /\ client' = [client EXCEPT ![c] = Idle]
    BY <1>5 DEF ClientWrites
  <2>2. UNCHANGED <<todo, tick>>
    BY <1>5 DEF ClientWrites
  <2>3. RowsGoOn /\ \A s \in Schedules \ raced' : Timed(rows'[s])
    BY <1>0, <2>1, WriteFits
  <2>4. FitTo(Idle, rows', raced')
    BY IdleType DEF FitTo
  <2> QED
    BY <1>1, <2>1, <2>2, <2>3, <2>4
<1> QED
  BY <1>2, <1>3, <1>4, <1>5 DEF ClientStep

(* The executor.                                                            *)
LEMMA TickTimes ==
  ASSUME Inv, TimeInv, TickStep
  PROVE  TimeInv'
<1>0. tick \in Activity /\ Sound(tick) /\ Fit(tick)
  BY DEF Inv, TypeOK, ActivityInv, TimeInv
<1>1. ASSUME RowsGoOn, \A s \in Schedules \ raced' : Timed(rows'[s]),
             UNCHANGED client, DOMAIN todo' \subseteq DOMAIN todo,
             FitTo(tick', rows', raced')
      PROVE  TimeInv'
  <2>1. ASSUME NEW d \in Clients PROVE Fit(client[d])'
    BY <1>1, ClientStaysFit
  <2>2. (\A s \in DOMAIN todo : rows[s].status # "none")'
    BY <1>1, TodoStaysFit
  <2> QED
    BY <1>1, <2>1, <2>2 DEF TimeInv, Fit
<1>2. CASE Tick
  <2>1. UNCHANGED <<rows, raced, tick, client>>
    BY <1>2 DEF Tick, tables
  <2>2. (\A s \in DOMAIN todo : rows[s].status # "none")'
    BY <1>2, <2>1 DEF Tick, Due
  <2> QED
    BY <2>1, <2>2, QuietTimes, TickStaysFit, ClientStaysFit DEF TimeInv
<1>3. CASE TickReads \/ RecordExecution
  <2>1. /\ tick' = [tick EXCEPT !.stage = "write", !.base = rows[tick.schedule]]
        /\ tick.stage \in {"read", "record"}
        /\ UNCHANGED <<rows, raced, todo, client>>
    BY <1>3 DEF TickReads, RecordExecution, tables
  <2>2. /\ tick'.stage = "write" /\ tick'.schedule = tick.schedule
        /\ tick'.base = rows[tick.schedule] /\ tick'.change = tick.change
    BY <1>0, <2>1 DEF Activity
  <2>3. FitTo(tick', rows, raced)
    BY <1>0, <2>1, <2>2, ReadFits
  <2> QED
    BY <1>1, <2>1, <2>3, QuietTimes
<1>4. CASE TickWrites
  <2>1. tick.stage = "write" /\ WriteRow(tick) /\ UNCHANGED <<todo, client>>
    BY <1>4 DEF TickWrites
  <2>2. RowsGoOn /\ \A s \in Schedules \ raced' : Timed(rows'[s])
    BY <1>0, <2>1, WriteFits
  <2>3. FitTo(tick, rows', raced')
    BY <1>0, <2>2, FitStays
  <2>4. \/ /\ tick'.stage \in {"delegate", "missed"}
           /\ tick'.schedule = tick.schedule /\ tick'.change = tick.change
        \/ tick' = Idle
    <3>1. \/ tick' = [tick EXCEPT !.stage = "delegate"]
          \/ tick' = [tick EXCEPT !.stage = "missed"]
          \/ tick' = Idle
      BY <1>4 DEF TickWrites
    <3> QED
      BY <1>0, <3>1 DEF Activity
  <2>5. FitTo(tick', rows', raced')
    BY <2>1, <2>3, <2>4, IdleType DEF FitTo
  <2> QED
    BY <1>1, <2>1, <2>2, <2>5
<1>5. CASE RecordMissed \/ \E outcome \in {"live", "stranded"} : Delegate(outcome)
  <2>1. tick' = Idle /\ UNCHANGED <<rows, raced, todo, client>>
    BY <1>5 DEF RecordMissed, Delegate
  <2>2. FitTo(tick', rows, raced)
    BY <2>1, IdleType DEF FitTo
  <2> QED
    BY <1>1, <2>1, <2>2, QuietTimes
<1>6. ASSUME NEW s \in Schedules, ExecuteSchedule(s)
      PROVE  TimeInv'
  <2>1. /\ DOMAIN todo' \subseteq DOMAIN todo /\ rows[s].status # "none"
        /\ s \in Schedules
    <3>1. Take(s)
      BY <1>6 DEF ExecuteSchedule, SkipRunning, SkipMissed, FailMissed, DropInactive,
                  SaveTask, TakeToTrigger
    <3> QED
      BY <3>1, TakeDrops DEF TimeInv
  <2>2. UNCHANGED <<rows, client>> /\ raced \subseteq raced'
    BY <1>6 DEF ExecuteSchedule, SkipRunning, SkipMissed, FailMissed, DropInactive,
                SaveTask, tables
  <2>3. RowsGoOn /\ \A x \in Schedules \ raced' : Timed(rows'[x])
    BY <2>2, QuietTimes
  <2>4. NextRunTime(now) > 0
    BY NextRunTimePositive DEF Inv, TypeOK
  <2>5. ASSUME tick'.stage \in {"read", "record"}, tick'.schedule = s,
               NEW change, tick'.change = change,
               \/ change.status \in Ended /\ change.next = 0
               \/ change.status = "same" /\ change.next > 0
        PROVE  FitTo(tick', rows', raced')
    BY <2>1, <2>2, <2>5 DEF FitTo, Ended
  <2>6. CASE SkipRunning(s) \/ DropInactive(s)
    <3>1. FitTo(tick', rows', raced')
      BY <2>6, <2>3, <1>0, FitStays DEF SkipRunning, DropInactive
    <3> QED
      BY <1>1, <2>1, <2>2, <2>3, <3>1
  <2>7. CASE SkipMissed(s) \/ FailMissed(s)
    <3>1. /\ tick'.stage = "read" /\ tick'.schedule = s
          /\ tick'.change = UpdateNextRun(s) \/ tick'.change = Change("cancelled", 0, -1)
      BY <2>7 DEF SkipMissed, FailMissed, Idle
    <3>2. /\ UpdateNextRun(s).status \in Ended => UpdateNextRun(s).next = 0
          /\ \/ UpdateNextRun(s).status \in Ended
             \/ UpdateNextRun(s).status = "same" /\ UpdateNextRun(s).next > 0
      BY <2>4 DEF UpdateNextRun, Change, Ended
    <3>3. FitTo(tick', rows', raced')
      BY <2>5, <3>1, <3>2 DEF Change, Ended
    <3> QED
      BY <1>1, <2>1, <2>2, <2>3, <3>3
  <2>8. CASE \E t \in Tasks : SaveTask(s, t)
    <3>1. PICK t \in Tasks : SaveTask(s, t)
      BY <2>8
    <3> DEFINE change == AfterTrigger(s, rows[s].runs + 1)
    <3>2. \/ change.status \in Ended /\ change.next = 0
          \/ change.status = "same" /\ change.next > 0
      BY <2>4 DEF AfterTrigger, Change, Ended
    <3>3. tick'.stage = "record" /\ tick'.schedule = s /\ tick'.change = change
      BY <3>1 DEF SaveTask, Idle
    <3> HIDE DEF change
    <3>4. FitTo(tick', rows', raced')
      BY <2>5, <3>2, <3>3
    <3> QED
      BY <1>1, <2>1, <2>2, <2>3, <3>4
  <2> QED
    BY <1>6, <2>6, <2>7, <2>8 DEF ExecuteSchedule
<1> QED
  BY <1>2, <1>3, <1>4, <1>5, <1>6 DEF TickStep

LEMMA StepTime == Inv /\ TimeInv /\ [Next]_vars => TimeInv'
<1> SUFFICES ASSUME Inv, TimeInv, [Next]_vars PROVE TimeInv'
  OBVIOUS
<1>1. CASE TickStep
  BY <1>1, TickTimes
<1>2. CASE \E c \in Clients : ClientStep(c)
  BY <1>2, ClientTimes
<1>3. CASE \E s \in Schedules, temp \in Templates, at \in 2 .. MaxTime :
             CreateSchedule(s, temp, at)
  BY <1>3, CreateTimes
<1>4. CASE Stop
  <2>1. /\ UNCHANGED <<rows, raced, client>> /\ DOMAIN todo' = {} /\ tick' = Idle
    BY <1>4 DEF Stop, tables
  <2>2. Fit(tick)'
    BY <2>1, IdleType DEF Fit, FitTo
  <2> QED
    BY <2>1, <2>2, QuietTimes, ClientStaysFit DEF TimeInv
<1>5. CASE Clock \/ Recover \/ (\E t \in Tasks : TaskEnds(t) \/ CancelTask(t))
           \/ UNCHANGED vars
  <2>1. UNCHANGED <<rows, raced, client, todo, tick>>
    BY <1>5 DEF Clock, Recover, Boot, TaskEnds, CancelTask, EndTask, tables, vars
  <2>2. (\A s \in DOMAIN todo : rows[s].status # "none")'
    BY <2>1 DEF TimeInv
  <2> QED
    BY <2>1, <2>2, QuietTimes, TickStaysFit, ClientStaysFit DEF TimeInv
<1> QED
  BY <1>1, <1>2, <1>3, <1>4, <1>5 DEF Next

(* Over all orders of triggers, missed runs, requests and stops an active   *)
(* schedule has a time, and one that has ended has none, unless activities  *)
(* have crossed.                                                            *)
THEOREM TimesMatch == Spec => []TimeMatchesStatus
<1>1. TimeInv => TimeMatchesStatus
  BY DEF TimeInv, TimeMatchesStatus, Timed
<1>2. Spec => []TimeInv
  BY InitTime, StepTime, AlwaysInv, PTL DEF Spec
<1> QED
  BY <1>1, <1>2, PTL

-----------------------------------------------------------------------------
(* Counts.  While a schedule may still run, its limit is not reached; and   *)
(* what an activity has read of runCount is what it finds when it writes.   *)
Below(temp, n) ==
  temp # None =>
    LET limit == IF temp.type = "one_time" THEN 1 ELSE temp.maxRuns
    IN limit # 0 => n < limit

SteadyTo(a, table, crossed, temps) ==
  LET s == a.schedule
  IN a.stage # "idle" /\ s \notin crossed =>
       /\ a.seen.runs <= table[s].runs
       /\ a.stage = "write" =>
            /\ a.seen.runs <= a.base.runs /\ a.base.runs <= table[s].runs
            /\ a.base.status \notin Ended => Below(temps[s], a.base.runs)
       /\ a.stage # "handle" =>
            IF a.op = "trigger"
            THEN /\ a.change.runs = a.seen.runs + 1
                 /\ a.change.status \in Ended \/ Below(temps[s], a.change.runs)
            ELSE a.change.runs = -1

Steady(a) == SteadyTo(a, rows, raced, template)

SteadyInv ==
  /\ Steady(tick)
  /\ tick.stage = "record" => tick.op = "trigger"
  /\ \A c \in Clients : Steady(client[c])
  /\ \A c \in Clients : client[c].stage # "idle" => client[c].op # "trigger"
  /\ \A s \in DOMAIN todo : s \notin raced => todo[s].runs <= rows[s].runs

(* A trigger that runCount does not have yet, and one whose record is       *)
(* there already.                                                           *)
Counting(s) == tick.schedule = s /\ tick.stage = "write" /\ tick.op = "trigger"
Starting(s) == (tick.schedule = s /\ tick.stage = "record") \/ Counting(s)

Counted(s) ==
  /\ rows[s].status \in {"active", "paused"} => Below(template[s], rows[s].runs)
  /\ rows[s].runs + (IF Counting(s) THEN 1 ELSE 0) <= Cardinality(Recorded(s))
  /\ Cardinality(TasksOf(s)) <= rows[s].runs + stops + (IF Starting(s) THEN 1 ELSE 0)

RecordsInv ==
  /\ now # 0
  /\ \A t \in Tasks : state[t] = "none" => recordedFor[t] = 0
  /\ tick.stage = "record" => recordedFor[tick.task] = 0
  /\ \A s \in Schedules : rows[s].status = "none" => rows[s].runs = 0

CountInv ==
  /\ RecordsInv
  /\ \A s \in Schedules \ raced : Counted(s)
  /\ RunLimit

(* The sets that are counted are finite.                                    *)
LEMMA Countable ==
  ASSUME TypeOK, NEW s
  PROVE  /\ IsFiniteSet(TasksOf(s)) /\ Cardinality(TasksOf(s)) \in Nat
         /\ IsFiniteSet(Recorded(s)) /\ Cardinality(Recorded(s)) \in Nat
<1>1. IsFiniteSet(Tasks)
  BY FS_Interval, SchedulingAssumption DEF Tasks
<1>2. TasksOf(s) \in SUBSET Tasks /\ Recorded(s) \in SUBSET Tasks
  BY DEF TasksOf, Recorded
<1> QED
  BY <1>1, <1>2, FS_Subset, FS_CardinalityType

(* Rows keep their template and never count back, unless something crosses. *)
RunsGoOn ==
  /\ raced \subseteq raced'
  /\ \A s \in Schedules : rows[s].status # "none" =>
       /\ template'[s] = template[s]
       /\ s \notin raced' => rows[s].runs <= rows'[s].runs

LEMMA SteadyStays ==
  ASSUME TypeOK, rows' \in [Schedules -> Row], NEW a \in Activity, Sound(a), Fit(a),
         Steady(a), RunsGoOn
  PROVE  SteadyTo(a, rows', raced', template')
<1> SUFFICES ASSUME a.stage # "idle", a.schedule \notin raced'
             PROVE  SteadyTo(a, rows', raced', template')
  BY DEF SteadyTo
<1> DEFINE s == a.schedule
<1>1. s \in Schedules /\ s \notin raced /\ rows[s].status # "none"
  BY DEF Sound, Fit, FitTo, RunsGoOn
<1>2. template'[s] = template[s] /\ rows[s].runs <= rows'[s].runs
  BY <1>1 DEF RunsGoOn
<1>3. /\ rows[s].runs \in Nat /\ rows'[s].runs \in Nat
      /\ a.seen.runs \in Nat /\ a.base.runs \in Nat
  BY <1>1 DEF TypeOK, Activity, Row
<1> QED
  BY <1>1, <1>2, <1>3 DEF Steady, SteadyTo

(* The counter moves only when a trigger writes, and then by one.           *)
LEMMA WriteCounts ==
  ASSUME Inv, TimeInv, CountInv, NEW a \in Activity, Sound(a), Fit(a), Steady(a),
         a.stage = "write", WriteRow(a), UNCHANGED template
  PROVE  /\ RunsGoOn
         /\ \A s \in Schedules : rows'[s].status = "none" => rows'[s].runs = 0
         /\ \A s \in Schedules \ raced' :
              /\ rows'[s].status \in {"active", "paused"} =>
                   Below(template'[s], rows'[s].runs)
              /\ rows'[s].runs = IF s = a.schedule /\ a.op = "trigger"
                                 THEN rows[s].runs + 1 ELSE rows[s].runs
<1> DEFINE x == a.schedule
<1>1. rows \in [Schedules -> Row] /\ x \in Schedules
  BY DEF Inv, TypeOK, Sound
<1>2. rows' = [rows EXCEPT ![x] = Merged(a)] /\ raced \subseteq raced'
  BY DEF WriteRow
<1>3. Merged(a).status # "none"
  BY DEF Merged, Merge, Fit, FitTo
<1>4. ASSUME x \notin raced'
      PROVE  /\ Merged(a).runs = IF a.op = "trigger" THEN rows[x].runs + 1
                                 ELSE rows[x].runs
             /\ Merged(a).status \in {"active", "paused"} =>
                  Below(template[x], Merged(a).runs)
  <2>1. x \notin raced /\ rows[x] = a.seen
    BY <1>4 DEF WriteRow
  <2>2. a.change \in Changes /\ a.base \in Row /\ a.seen \in Row
    BY DEF Activity
  <2>3. a.base.runs = rows[x].runs
    BY <2>1, <2>2 DEF Steady, SteadyTo, Row
  <2>4. IF a.op = "trigger"
        THEN /\ a.change.runs = rows[x].runs + 1
             /\ a.change.status \in Ended \/ Below(template[x], a.change.runs)
        ELSE a.change.runs = -1
    BY <2>1 DEF Steady, SteadyTo
  <2>5. Merged(a).runs = IF a.op = "trigger" THEN rows[x].runs + 1 ELSE rows[x].runs
    BY <2>1, <2>2, <2>3, <2>4 DEF Merged, Merge, Row
  <2>6. ASSUME Merged(a).status \in {"active", "paused"}
        PROVE  Below(template[x], Merged(a).runs)
    <3>1. a.change.status \notin Ended
      BY <2>6 DEF Merged, Merge, Ended
    <3>2. rows[x].status \notin Ended
      BY <2>1, <3>1 DEF Sound
    <3>3. a.base.status \notin Ended
      BY <2>1, <3>2 DEF Fit, FitTo
    <3>4. Below(template[x], a.base.runs)
      BY <2>1, <3>3 DEF Steady, SteadyTo
    <3>5. CASE a.op = "trigger"
      <4>1. Merged(a).runs = a.change.runs
        BY <2>4, <2>5, <3>5
      <4> QED
        BY <2>4, <3>1, <3>5, <4>1
    <3>6. CASE a.op # "trigger"
      BY <2>3, <2>5, <3>4, <3>6
    <3> QED
      BY <3>5, <3>6
  <2> QED
    BY <2>5, <2>6
<1>5. RunsGoOn
  BY <1>1, <1>2, <1>4 DEF RunsGoOn, Row
<1>6. \A s \in Schedules : rows'[s].status = "none" => rows'[s].runs = 0
  BY <1>1, <1>2, <1>3 DEF CountInv, RecordsInv
<1>7. ASSUME NEW s \in Schedules \ raced'
      PROVE  /\ rows'[s].status \in {"active", "paused"} =>
                  Below(template'[s], rows'[s].runs)
             /\ rows'[s].runs = IF s = a.schedule /\ a.op = "trigger"
                                THEN rows[s].runs + 1 ELSE rows[s].runs
  <2>1. CASE s = x
    BY <1>1, <1>2, <1>4, <2>1
  <2>2. CASE s # x
    BY <1>1, <1>2, <2>2 DEF CountInv, Counted
  <2> QED
    BY <2>1, <2>2
<1> QED
  BY <1>5, <1>6, <1>7

(* A step that touches neither rows nor records, and no trigger on its way. *)
LEMMA QuietCounts ==
  ASSUME Inv, CountInv, UNCHANGED <<rows, template, owner, recordedFor, stops, raced>>,
         now' # 0, \A t \in Tasks : state'[t] = "none" => state[t] = "none",
         \/ tick' = tick
         \/ /\ tick.stage # "record" /\ ~ (tick.stage = "write" /\ tick.op = "trigger")
            /\ tick'.stage # "record" /\ ~ (tick'.stage = "write" /\ tick'.op = "trigger")
  PROVE  CountInv' /\ RunsGoOn
<1>1. RecordsInv'
  BY DEF CountInv, RecordsInv
<1>2. \A s : (Starting(s)' <=> Starting(s)) /\ (Counting(s)' <=> Counting(s))
  BY DEF Starting, Counting
<1>3. \A s : TasksOf(s)' = TasksOf(s) /\ Recorded(s)' = Recorded(s)
  BY DEF TasksOf, Recorded
<1>4. ASSUME NEW s \in Schedules \ raced' PROVE Counted(s)'
  <2>1. Counted(s)
    BY DEF CountInv
  <2> QED
    BY <2>1, <1>2, <1>3 DEF Counted
<1>5. RunLimit'
  BY <1>3 DEF CountInv, RunLimit
<1>6. RunsGoOn
  BY DEF RunsGoOn, Inv, TypeOK, Row
<1> QED
  BY <1>1, <1>4, <1>5, <1>6 DEF CountInv

LEMMA TickStaysSteady ==
  ASSUME Inv, TimeInv, SteadyInv, TypeOK', RunsGoOn, UNCHANGED tick
  PROVE  Steady(tick)' /\ (tick.stage = "record" => tick.op = "trigger")'
<1>1. SteadyTo(tick, rows', raced', template')
  BY SteadyStays DEF Inv, TypeOK, ActivityInv, TimeInv, SteadyInv
<1> QED
  BY <1>1 DEF SteadyInv, Steady

LEMMA ClientStaysSteady ==
  ASSUME Inv, TimeInv, SteadyInv, TypeOK', RunsGoOn, NEW c \in Clients, UNCHANGED client[c]
  PROVE  Steady(client[c])' /\ (client'[c].stage # "idle" => client'[c].op # "trigger")
<1>1. SteadyTo(client[c], rows', raced', template')
  BY SteadyStays DEF Inv, TypeOK, ActivityInv, TimeInv, SteadyInv
<1> QED
  BY <1>1 DEF SteadyInv, Steady

LEMMA TodoStaysSteady ==
  ASSUME Inv, TimeInv, SteadyInv, TypeOK', RunsGoOn, DOMAIN todo' \subseteq DOMAIN todo,
         \A s \in DOMAIN todo' : todo'[s] = todo[s],
         NEW s \in DOMAIN todo', s \notin raced'
  PROVE  todo'[s].runs <= rows'[s].runs
<1>1. s \in Schedules /\ s \notin raced /\ rows[s].status # "none"
  BY DEF Inv, TypeOK, TimeInv, RunsGoOn
<1>2. /\ todo[s].runs \in Nat /\ rows[s].runs \in Nat /\ rows'[s].runs \in Nat
      /\ todo[s].runs <= rows[s].runs /\ rows[s].runs <= rows'[s].runs
  BY <1>1 DEF Inv, TypeOK, Row, SteadyInv, RunsGoOn
<1> QED
  BY <1>2

(* A read takes over the count of the row.                                  *)
LEMMA ReadSteady ==
  ASSUME Inv, TimeInv, CountInv, NEW a \in Activity, Sound(a), Fit(a), Steady(a),
         a.stage \in {"read", "record"},
         NEW new, new.stage = "write", new.schedule = a.schedule, new.op = a.op,
         new.base = rows[a.schedule], new.seen = a.seen, new.change = a.change
  PROVE  SteadyTo(new, rows, raced, template)
<1>1. a.schedule \in Schedules /\ rows[a.schedule] \in Row
  BY DEF Sound, Inv, TypeOK
<1>2. rows[a.schedule].status # "none"
  BY DEF Fit, FitTo
<1>3. a.schedule \notin raced /\ rows[a.schedule].status \notin Ended =>
        Below(template[a.schedule], rows[a.schedule].runs)
  BY <1>1, <1>2 DEF CountInv, Counted, Row, Status
<1>4. rows[a.schedule].runs <= rows[a.schedule].runs
  BY <1>1 DEF Row
<1> QED
  BY <1>3, <1>4 DEF Steady, SteadyTo

LEMMA CreateCounts ==
  ASSUME Inv, TimeInv, SteadyInv, CountInv, NEW s \in Schedules, NEW temp \in Templates,
         NEW at \in 2 .. MaxTime, CreateSchedule(s, temp, at)
  PROVE  SteadyInv' /\ CountInv'
<1>1. /\ rows[s].status = "none"
      /\ rows' = [rows EXCEPT ![s] = [status |-> "active", next |-> at, runs |-> 0]]
      /\ template' = [template EXCEPT ![s] = temp]
      /\ UNCHANGED <<now, state, owner, recordedFor, todo, tick, client, stops, raced>>
  BY DEF CreateSchedule
<1>2. TypeOK'
  BY CreateStep DEF Inv
<1>3. RunsGoOn
  BY <1>1 DEF RunsGoOn, Inv, TypeOK, Row
<1>4. SteadyInv'
  BY <1>1, <1>2, <1>3, TickStaysSteady, ClientStaysSteady, TodoStaysSteady DEF SteadyInv
<1>5. rows[s].runs = 0 /\ ~ Starting(s) /\ ~ Counting(s)
  BY <1>1 DEF CountInv, RecordsInv, TimeInv, Fit, FitTo, Starting, Counting
<1>6. \A x : /\ TasksOf(x)' = TasksOf(x) /\ Recorded(x)' = Recorded(x)
             /\ (Starting(x)' <=> Starting(x)) /\ (Counting(x)' <=> Counting(x))
  BY <1>1 DEF TasksOf, Recorded, Starting, Counting
<1>7. ASSUME NEW x \in Schedules \ raced' PROVE Counted(x)'
  <2>0. Counted(x)
    BY <1>1, <1>7 DEF CountInv
  <2>1. CASE x # s
    <3>1. rows'[x] = rows[x] /\ template'[x] = template[x]
      BY <1>1, <2>1 DEF Inv, TypeOK
    <3> QED
      BY <2>0, <3>1, <1>1, <1>6 DEF Counted
  <2>2. CASE x = s
    <3>1. rows'[s].status = "active" /\ rows'[s].runs = 0 /\ template'[s] = temp
      BY <1>1 DEF Inv, TypeOK
    <3>2. Below(temp, 0)
      BY SchedulingAssumption DEF Below, Template
    <3> QED
      BY <2>0, <2>2, <3>1, <3>2, <1>1, <1>5, <1>6 DEF Counted
  <2> QED
    BY <2>1, <2>2
<1>8. RunLimit'
  <2>1. SUFFICES ASSUME NEW x \in Schedules \ raced', template'[x] # None
                 PROVE  LET limit == IF template'[x].type = "one_time" THEN 1
                                     ELSE template'[x].maxRuns
                        IN limit # 0 => Cardinality(TasksOf(x)) <= limit + stops
    BY <1>1, <1>6 DEF RunLimit
  <2>2. CASE x # s
    <3>1. template'[x] = template[x]
      BY <1>1, <2>2 DEF Inv, TypeOK
    <3> QED
      BY <2>1, <3>1, <1>1 DEF CountInv, RunLimit
  <2>3. CASE x = s
    <3>0. Counted(s)
      BY <1>1, <2>3 DEF CountInv
    <3>2. Cardinality(TasksOf(s)) \in Nat /\ stops \in Nat
      BY Countable DEF Inv, TypeOK
    <3>1. Cardinality(TasksOf(s)) <= stops
      BY <1>5, <3>0, <3>2 DEF Counted
    <3>3. template'[s] = temp /\ temp.maxRuns \in Nat
      BY <1>1, SchedulingAssumption DEF Inv, TypeOK, Template
    <3> QED
      BY <2>3, <3>1, <3>2, <3>3
  <2> QED
    BY <2>2, <2>3
<1>9. RecordsInv'
  BY <1>1 DEF CountInv, RecordsInv, Inv, TypeOK
<1> QED
  BY <1>4, <1>7, <1>8, <1>9 DEF CountInv

LEMMA ClientCounts ==
  ASSUME Inv, TimeInv, SteadyInv, CountInv, TypeOK', NEW c \in Clients, ClientStep(c)
  PROVE  SteadyInv' /\ CountInv'
<1> DEFINE a == client[c]
<1>0. /\ client \in [Clients -> Activity] /\ a \in Activity
      /\ Sound(a) /\ Fit(a) /\ Steady(a) /\ (a.stage # "idle" => a.op # "trigger")
  BY DEF Inv, TypeOK, ActivityInv, TimeInv, SteadyInv
<1>1. ASSUME RunsGoOn, UNCHANGED <<tick, todo>>, NEW new, new.stage # "idle" => new.op # "trigger",
             client' = [client EXCEPT ![c] = new], SteadyTo(new, rows', raced', template')
      PROVE  SteadyInv'
  <2>1. ASSUME NEW d \in Clients
        PROVE  (Steady(client[d]) /\ (client[d].stage # "idle" => client[d].op # "trigger"))'
    <3>1. CASE d = c
      BY <1>0, <1>1, <3>1 DEF Steady
    <3>2. CASE d # c
      <4>1. client'[d] = client[d]
        BY <1>0, <1>1, <3>2
      <4> QED
        BY <1>1, <4>1, ClientStaysSteady
    <3> QED
      BY <3>1, <3>2
  <2> QED
    BY <1>1, <2>1, TickStaysSteady, TodoStaysSteady DEF SteadyInv
<1>2. ASSUME UNCHANGED <<now, rows, template, state, owner, recordedFor, tick, todo, stops, raced>>
      PROVE  CountInv' /\ RunsGoOn
  BY <1>2, QuietCounts DEF CountInv, RecordsInv
<1>3. ASSUME NEW op \in {"pause", "resume", "cancel"}, NEW s \in Schedules,
             Request(c, op, s)
      PROVE  SteadyInv' /\ CountInv'
  <2> DEFINE new == [Idle EXCEPT !.stage = IF op = "resume" THEN "handle" ELSE "read",
                                 !.op = op, !.schedule = s, !.seen = rows[s],
                                 !.change = Requested(op)]
  <2>1. /\ client' = [client EXCEPT ![c] = new]
        /\ UNCHANGED <<now, rows, template, state, owner, recordedFor, tick, todo, stops, raced>>
    BY <1>3 DEF Request, tables
  <2>2. /\ new.stage = IF op = "resume" THEN "handle" ELSE "read"
        /\ new.schedule = s /\ new.change = Requested(op) /\ new.seen = rows[s]
        /\ new.op = op
    BY DEF Idle
  <2>3. rows[s].runs <= rows[s].runs
    BY DEF Inv, TypeOK, Row
  <2> HIDE DEF new
  <2>4. SteadyTo(new, rows, raced, template)
    BY <2>2, <2>3 DEF SteadyTo, Requested, Change
  <2>5. new.op # "trigger"
    BY <2>2
  <2>6. SteadyTo(new, rows', raced', template')
    BY <2>1, <2>4
  <2> QED
    BY <1>1, <1>2, <2>1, <2>5, <2>6
<1>4. CASE HandleResume(c)
  <2>1. PICK next : client' = [client EXCEPT ![c] = [a EXCEPT !.stage = "read",
                                               !.change = Change("active", next, -1)]]
    BY <1>0, <1>4 DEF HandleResume, Activity
  <2> DEFINE new == [a EXCEPT !.stage = "read", !.change = Change("active", next, -1)]
  <2>2. /\ UNCHANGED <<now, rows, template, state, owner, recordedFor, tick, todo, stops, raced>>
        /\ a.stage = "handle"
    BY <1>4 DEF HandleResume, tables
  <2>3. /\ new.stage = "read" /\ new.schedule = a.schedule /\ new.op = a.op
        /\ new.seen = a.seen /\ new.change.runs = -1
    BY <1>0 DEF Activity, Change
  <2>4. client' = [client EXCEPT ![c] = new]
    BY <2>1
  <2> HIDE DEF new
  <2>5. SteadyTo(new, rows, raced, template) /\ new.op # "trigger"
    BY <1>0, <2>2, <2>3 DEF Steady, SteadyTo
  <2>6. SteadyTo(new, rows', raced', template')
    BY <2>2, <2>5
  <2> QED
    BY <1>1, <1>2, <2>2, <2>4, <2>5, <2>6
<1>5. CASE ClientReads(c)
  <2> DEFINE new == [a EXCEPT !.stage = "write", !.base = rows[a.schedule]]
  <2>1. client' = [client EXCEPT ![c] = new] /\ a.stage = "read"
    BY <1>0, <1>5 DEF ClientReads, Activity
  <2>2. UNCHANGED <<now, rows, template, state, owner, recordedFor, tick, todo, stops, raced>>
    BY <1>5 DEF ClientReads, tables
  <2>3. /\ new.stage = "write" /\ new.schedule = a.schedule /\ new.op = a.op
        /\ new.base = rows[a.schedule] /\ new.seen = a.seen /\ new.change = a.change
    BY <1>0 DEF Activity
  <2> HIDE DEF new
  <2>4. SteadyTo(new, rows, raced, template)
    BY <1>0, <2>1, <2>3, ReadSteady
  <2>5. SteadyTo(new, rows', raced', template') /\ new.op # "trigger"
    BY <1>0, <2>1, <2>2, <2>3, <2>4
  <2> QED
    BY <1>1, <1>2, <2>1, <2>2, <2>5
<1>6. CASE ClientWrites(c)
  <2>1. a.stage = "write" /\ WriteRow(a) /\ client' = [client EXCEPT ![c] = Idle]
    BY <1>6 DEF ClientWrites
  <2>2. UNCHANGED <<now, template, state, owner, recordedFor, tick, todo, stops>>
    BY <1>6 DEF ClientWrites
  <2>3. /\ RunsGoOn
        /\ \A s \in Schedules : rows'[s].status = "none" => rows'[s].runs = 0
        /\ \A s \in Schedules \ raced' :
             /\ rows'[s].status \in {"active", "paused"} =>
                  Below(template'[s], rows'[s].runs)
             /\ rows'[s].runs = rows[s].runs
    BY <1>0, <2>1, <2>2, WriteCounts
  <2>4. SteadyTo(Idle, rows', raced', template')
    BY IdleType DEF SteadyTo
  <2>5. SteadyInv'
    BY <1>1, <2>1, <2>2, <2>3, <2>4, IdleType
  <2>6. \A x : /\ TasksOf(x)' = TasksOf(x) /\ Recorded(x)' = Recorded(x)
               /\ (Starting(x)' <=> Starting(x)) /\ (Counting(x)' <=> Counting(x))
    BY <2>2 DEF TasksOf, Recorded, Starting, Counting
  <2>7. ASSUME NEW s \in Schedules \ raced' PROVE Counted(s)'
    <3>1. Counted(s)
      BY <2>3, <2>7 DEF CountInv, RunsGoOn
    <3> QED
      BY <2>2, <2>3, <2>6, <2>7, <3>1 DEF Counted
  <2>8. RunLimit'
    BY <2>2, <2>3, <2>6 DEF CountInv, RunLimit, RunsGoOn
  <2>9. RecordsInv'
    BY <2>2, <2>3 DEF CountInv, RecordsInv
  <2> QED
    BY <2>5, <2>7, <2>8, <2>9 DEF CountInv
<1> QED
  BY <1>3, <1>4, <1>5, <1>6 DEF ClientStep

(* The executor without the steps of a trigger that write.                  *)
LEMMA TickCounts ==
  ASSUME Inv, TimeInv, SteadyInv, CountInv, TypeOK',
         \/ Tick \/ TickReads \/ RecordMissed
         \/ \E outcome \in {"live", "stranded"} : Delegate(outcome)
         \/ \E s \in Schedules : SkipRunning(s) \/ SkipMissed(s) \/ FailMissed(s)
                               \/ DropInactive(s)
  PROVE  SteadyInv' /\ CountInv'
<1>0. /\ tick \in Activity /\ Sound(tick) /\ Fit(tick) /\ Steady(tick)
      /\ now \in Nat /\ now # 0
  BY DEF Inv, TypeOK, ActivityInv, TimeInv, SteadyInv, CountInv, RecordsInv
<1>1. UNCHANGED <<now, rows, template, owner, recordedFor, stops, raced, client>>
  BY DEF Tick, TickReads, RecordMissed, Delegate, SkipRunning, SkipMissed, FailMissed,
         DropInactive, tables
<1>2. \A t \in Tasks : state'[t] = "none" => state[t] = "none"
  <2>1. UNCHANGED state \/ \E outcome \in {"live", "stranded"} : Delegate(outcome)
    BY DEF Tick, TickReads, RecordMissed, SkipRunning, SkipMissed, FailMissed,
           DropInactive, tables
  <2> QED
    BY <2>1 DEF Delegate, Inv, TypeOK
<1>3. \/ tick' = tick
      \/ tick' = Idle /\ tick.stage \in {"missed", "delegate"}
      \/ TickReads
      \/ \E s \in Schedules : SkipMissed(s) \/ FailMissed(s)
  BY DEF Tick, RecordMissed, Delegate, SkipRunning, DropInactive
<1>4. ASSUME SteadyTo(tick', rows, raced, template),
             \A s \in DOMAIN todo' : s \notin raced => todo'[s].runs <= rows[s].runs,
             \/ tick' = tick
             \/ /\ tick.stage # "record" /\ ~ (tick.stage = "write" /\ tick.op = "trigger")
                /\ tick'.stage # "record" /\ ~ (tick'.stage = "write" /\ tick'.op = "trigger")
      PROVE  SteadyInv' /\ CountInv'
  <2>1. CountInv' /\ RunsGoOn
    BY <1>0, <1>1, <1>2, <1>4, QuietCounts
  <2>2. Steady(tick)'
    BY <1>1, <1>4 DEF Steady
  <2>3. (tick.stage = "record" => tick.op = "trigger")'
    BY <1>4 DEF SteadyInv
  <2>4. ASSUME NEW c \in Clients
        PROVE  (Steady(client[c]) /\ (client[c].stage # "idle" => client[c].op # "trigger"))'
    BY <1>1, <2>1, ClientStaysSteady
  <2> QED
    BY <1>1, <1>4, <2>1, <2>2, <2>3, <2>4 DEF SteadyInv
<1>5. \A s \in DOMAIN todo' : s \notin raced => todo'[s].runs <= rows[s].runs
  <2>1. CASE Tick
    <3>1. \A s \in DOMAIN todo' : s \in Schedules /\ todo'[s] = rows[s]
      BY <2>1 DEF Tick
    <3>2. \A s \in Schedules : rows[s].runs <= rows[s].runs
      BY DEF Inv, TypeOK, Row
    <3> QED
      BY <3>1, <3>2
  <2>2. CASE ~ Tick
    <3>1. UNCHANGED todo \/ \E s \in Schedules : Take(s)
      BY <2>2 DEF TickReads, RecordMissed, Delegate, SkipRunning, SkipMissed, FailMissed,
                  DropInactive, TakeToTrigger
    <3>2. DOMAIN todo' \subseteq DOMAIN todo /\ \A s \in DOMAIN todo' : todo'[s] = todo[s]
      BY <3>1, TakeDrops
    <3> QED
      BY <3>2 DEF SteadyInv
  <2> QED
    BY <2>1, <2>2
<1>6. CASE tick' = tick
  BY <1>0, <1>4, <1>6, <1>5 DEF Steady
<1>7. CASE tick' = Idle /\ tick.stage \in {"missed", "delegate"}
  <2>1. SteadyTo(tick', rows, raced, template)
    BY <1>7, IdleType DEF SteadyTo
  <2> QED
    BY <1>4, <1>7, <1>5, <2>1, IdleType
<1>8. CASE TickReads
  <2>1. /\ tick' = [tick EXCEPT !.stage = "write", !.base = rows[tick.schedule]]
        /\ tick.stage = "read" /\ tick.op # "trigger"
    BY <1>8 DEF TickReads, Inv, TriggerInv
  <2>2. /\ tick'.stage = "write" /\ tick'.schedule = tick.schedule /\ tick'.op = tick.op
        /\ tick'.base = rows[tick.schedule] /\ tick'.seen = tick.seen
        /\ tick'.change = tick.change
    BY <1>0, <2>1 DEF Activity
  <2>3. SteadyTo(tick', rows, raced, template)
    BY <1>0, <2>1, <2>2, ReadSteady
  <2> QED
    BY <1>4, <1>5, <2>1, <2>2, <2>3
<1>9. ASSUME NEW s \in Schedules, SkipMissed(s) \/ FailMissed(s)
      PROVE  SteadyInv' /\ CountInv'
  <2>1. /\ tick'.stage = "read" /\ tick'.schedule = s /\ tick'.seen = todo[s]
        /\ tick'.op \in {"skip", "fail"}
        /\ tick'.change = UpdateNextRun(s) \/ tick'.change = Change("cancelled", 0, -1)
    BY <1>9 DEF SkipMissed, FailMissed, Idle
  <2>2. tick'.change.runs = -1
    BY <2>1 DEF UpdateNextRun, Change
  <2>3. tick.stage = "idle" /\ s \in DOMAIN todo
    BY <1>9 DEF SkipMissed, FailMissed, Take
  <2>4. s \notin raced => todo[s].runs <= rows[s].runs
    BY <2>3 DEF SteadyInv
  <2>5. SteadyTo(tick', rows, raced, template)
    BY <2>1, <2>2, <2>4 DEF SteadyTo
  <2> QED
    BY <1>4, <1>5, <2>1, <2>3, <2>5
<1> QED
  BY <1>3, <1>6, <1>7, <1>8, <1>9

(* A trigger begins: its schedule is active, so below its limit, and the    *)
(* new task is at most one more.                                            *)
LEMMA SaveCounts ==
  ASSUME Inv, TimeInv, SteadyInv, CountInv, TypeOK', NEW s \in Schedules, NEW t \in Tasks,
         SaveTask(s, t)
  PROVE  SteadyInv' /\ CountInv'
<1>1. /\ Take(s) /\ rows[s].status = "active" /\ state[t] = "none"
      /\ tick.stage = "idle"
  BY DEF SaveTask, TakeToTrigger, Take, Fresh
<1>2. /\ state' = [state EXCEPT ![t] = "saved"] /\ owner' = [owner EXCEPT ![t] = s]
      /\ raced \subseteq raced'
      /\ UNCHANGED <<now, rows, template, recordedFor, client, stops>>
  BY DEF SaveTask
<1>3. /\ tick'.stage = "record" /\ tick'.op = "trigger" /\ tick'.schedule = s
      /\ tick'.task = t /\ tick'.seen = rows[s]
      /\ tick'.change = AfterTrigger(s, rows[s].runs + 1)
  BY DEF SaveTask, Idle
<1>4. RunsGoOn
  BY <1>2 DEF RunsGoOn, Inv, TypeOK, Row
<1>5. rows[s].runs \in Nat /\ stops \in Nat
  BY DEF Inv, TypeOK, Row
<1>6. SteadyInv'
  <2>1. /\ tick'.change.runs = rows[s].runs + 1
        /\ tick'.change.status \in Ended \/ Below(template[s], rows[s].runs + 1)
    <3> DEFINE runs == rows[s].runs + 1
    <3>1. AfterTrigger(s, runs).runs = runs
      BY DEF AfterTrigger, Change
    <3>2. ASSUME AfterTrigger(s, runs).status \notin Ended, template[s] # None
          PROVE  Below(template[s], runs)
      <4>1. /\ template[s].type # "one_time"
            /\ ~ (template[s].maxRuns # 0 /\ runs >= template[s].maxRuns)
        BY <3>2 DEF AfterTrigger, Change, Ended
      <4>2. template[s].maxRuns \in Nat /\ runs \in Nat
        BY <3>2, <1>5, SchedulingAssumption DEF Inv, TypeOK, Template
      <4> HIDE DEF runs
      <4> QED
        BY <4>1, <4>2 DEF Below
    <3>3. AfterTrigger(s, runs).status \notin Ended => Below(template[s], runs)
      BY <3>2 DEF Below
    <3> HIDE DEF runs
    <3>4. tick'.change = AfterTrigger(s, runs)
      BY <1>3 DEF runs
    <3> QED
      BY <3>1, <3>3, <3>4 DEF runs
  <2>2. Steady(tick)'
    BY <1>2, <1>3, <1>5, <2>1 DEF Steady, SteadyTo
  <2>3. \A c \in Clients :
          (Steady(client[c]) /\ (client[c].stage # "idle" => client[c].op # "trigger"))'
    BY <1>2, <1>4, ClientStaysSteady
  <2>4. \A x \in DOMAIN todo' : x \notin raced' => todo'[x].runs <= rows'[x].runs
    BY <1>1, <1>4, TakeDrops, TodoStaysSteady
  <2> QED
    BY <1>3, <2>2, <2>3, <2>4 DEF SteadyInv
<1>7. RecordsInv'
  <2>1. recordedFor[t] = 0
    BY <1>1 DEF CountInv, RecordsInv
  <2> QED
    BY <1>2, <1>3, <2>1 DEF CountInv, RecordsInv, Inv, TypeOK
<1>8. \A x \in Schedules : Recorded(x)' = Recorded(x) \/ Recorded(x) \subseteq Recorded(x)'
  <2>1. recordedFor[t] = 0
    BY <1>1 DEF CountInv, RecordsInv
  <2> QED
    BY <1>2, <2>1 DEF Recorded, Inv, TypeOK
<1>9. \A x \in Schedules : Cardinality(Recorded(x)) <= Cardinality(Recorded(x)')
  <2>1. SUFFICES ASSUME NEW x \in Schedules
                 PROVE  Cardinality(Recorded(x)) <= Cardinality(Recorded(x)')
    OBVIOUS
  <2>2. IsFiniteSet(Recorded(x)') /\ Cardinality(Recorded(x)) \in Nat
    <3>1. Recorded(x)' \in SUBSET Tasks
      BY DEF Recorded
    <3>2. IsFiniteSet(Tasks)
      BY FS_Interval, SchedulingAssumption DEF Tasks
    <3> QED
      BY <3>1, <3>2, Countable, FS_Subset DEF Inv
  <2>3. Recorded(x) \in SUBSET (Recorded(x)')
    BY <1>8
  <2> QED
    BY <2>2, <2>3, FS_Subset
<1>10. ASSUME NEW x \in Schedules, x # s
       PROVE  TasksOf(x)' \in SUBSET TasksOf(x)
  BY <1>2, <1>10 DEF TasksOf, Inv, TypeOK
<1>11. ASSUME NEW x \in Schedules, x # s
       PROVE  /\ Cardinality(TasksOf(x)') \in Nat
              /\ Cardinality(TasksOf(x)') <= Cardinality(TasksOf(x))
  BY <1>10, <1>11, Countable, FS_Subset, FS_CardinalityType DEF Inv
<1>12. /\ Cardinality(TasksOf(s)') \in Nat
       /\ Cardinality(TasksOf(s)') <= Cardinality(TasksOf(s)) + 1
  <2>1. TasksOf(s)' = TasksOf(s) \cup {t}
    BY <1>2 DEF TasksOf, Inv, TypeOK
  <2>2. IsFiniteSet(TasksOf(s)) /\ Cardinality(TasksOf(s)) \in Nat
    BY Countable DEF Inv
  <2>3. Cardinality(TasksOf(s) \cup {t}) =
          IF t \in TasksOf(s) THEN Cardinality(TasksOf(s)) ELSE Cardinality(TasksOf(s)) + 1
    BY <2>2, FS_AddElement
  <2> QED
    BY <2>1, <2>2, <2>3
<1>13. \A x : ~ Starting(x) /\ ~ Counting(x) /\ ~ Counting(x)'
  BY <1>1, <1>3 DEF Starting, Counting
<1>14. Starting(s)'
  BY <1>3 DEF Starting
<1>15. \A x \in Schedules : /\ rows[x].runs \in Nat
                            /\ Cardinality(TasksOf(x)) \in Nat
                            /\ Cardinality(Recorded(x)) \in Nat
                            /\ Cardinality(Recorded(x)') \in Nat
  <2>1. \A x : Cardinality(Recorded(x)') \in Nat
    <3>1. \A x : Recorded(x)' \in SUBSET Tasks
      BY DEF Recorded
    <3>2. IsFiniteSet(Tasks)
      BY FS_Interval, SchedulingAssumption DEF Tasks
    <3> QED
      BY <3>1, <3>2, FS_Subset, FS_CardinalityType
  <2> QED
    BY <2>1, Countable DEF Inv, TypeOK, Row
<1>16. ASSUME NEW x \in Schedules \ raced' PROVE Counted(x)'
  <2>1. Counted(x)
    BY <1>2 DEF CountInv
  <2>2. x \in Schedules /\ Cardinality(Recorded(x)) <= Cardinality(Recorded(x)')
    BY <1>9
  <2>3. rows'[x].runs <= Cardinality(Recorded(x)')
    BY <1>2, <1>13, <1>15, <2>1, <2>2 DEF Counted
  <2>4. Cardinality(TasksOf(x)) <= rows[x].runs + stops
    BY <1>5, <1>13, <1>15, <2>1 DEF Counted
  <2>5. Cardinality(TasksOf(x)') <= rows[x].runs + stops + (IF Starting(x)' THEN 1 ELSE 0)
    <3>1. CASE x = s
      BY <1>5, <1>12, <1>14, <1>15, <2>4, <3>1
    <3>2. CASE x # s
      BY <1>5, <1>11, <1>15, <2>4, <3>2
    <3> QED
      BY <3>1, <3>2
  <2>6. rows[x].runs + 0 = rows[x].runs
    BY <1>15
  <2> QED
    BY <1>2, <1>13, <2>1, <2>3, <2>5, <2>6 DEF Counted
<1>17. RunLimit'
  <2>1. SUFFICES ASSUME NEW x \in Schedules \ raced', template[x] # None,
                        NEW limit,
                        limit = IF template[x].type = "one_time" THEN 1
                                ELSE template[x].maxRuns,
                        limit # 0
                 PROVE  Cardinality(TasksOf(x)') <= limit + stops
    BY <1>2 DEF RunLimit
  <2>2. limit \in Nat /\ Cardinality(TasksOf(x)) <= limit + stops
    BY <1>2, <2>1, SchedulingAssumption DEF CountInv, RunLimit, Inv, TypeOK, Template
  <2>3. CASE x # s
    BY <1>5, <1>11, <1>15, <2>2, <2>3
  <2>4. CASE x = s
    <3>1. Counted(s) /\ Below(template[s], rows[s].runs)
      BY <1>1, <1>2, <2>4 DEF CountInv, Counted
    <3>2. rows[s].runs < limit
      BY <2>1, <2>4, <3>1 DEF Below
    <3>3. Cardinality(TasksOf(s)) <= rows[s].runs + stops
      BY <1>5, <1>13, <1>15, <3>1 DEF Counted
    <3> QED
      BY <1>5, <1>12, <1>15, <2>2, <2>4, <3>2, <3>3
  <2> QED
    BY <2>3, <2>4
<1> QED
  BY <1>6, <1>7, <1>16, <1>17 DEF CountInv

(* The record of the execution: there is one more from now on.              *)
LEMMA RecordCounts ==
  ASSUME Inv, TimeInv, SteadyInv, CountInv, TypeOK', RecordExecution
  PROVE  SteadyInv' /\ CountInv'
<1> DEFINE s == tick.schedule
           t == tick.task
<1>0. /\ tick \in Activity /\ Sound(tick) /\ Fit(tick) /\ Steady(tick)
      /\ tick.stage = "record" /\ tick.op = "trigger"
      /\ now \in Nat /\ now # 0
  BY DEF RecordExecution, Inv, TypeOK, ActivityInv, TimeInv, SteadyInv, CountInv, RecordsInv
<1>1. /\ t \in Tasks /\ owner[t] = s /\ state[t] = "saved" /\ recordedFor[t] = 0
      /\ s \in Schedules
  BY <1>0 DEF Inv, TriggerInv, InTrigger, CountInv, RecordsInv, Sound
<1>2. /\ recordedFor' = [recordedFor EXCEPT ![t] = IF tick.seen.next # 0
                                                    THEN tick.seen.next ELSE now]
      /\ tick' = [tick EXCEPT !.stage = "write", !.base = rows[s]]
      /\ UNCHANGED <<now, rows, template, state, owner, todo, client, stops, raced>>
  BY DEF RecordExecution
<1>3. /\ tick'.stage = "write" /\ tick'.schedule = s /\ tick'.op = "trigger"
      /\ tick'.base = rows[s] /\ tick'.seen = tick.seen /\ tick'.change = tick.change
  BY <1>0, <1>2 DEF Activity
<1>4. RunsGoOn
  BY <1>2 DEF RunsGoOn, Inv, TypeOK, Row
<1>5. SteadyInv'
  <2>1. SteadyTo(tick', rows, raced, template)
    BY <1>0, <1>3, ReadSteady
  <2>2. Steady(tick)' /\ (tick.stage = "record" => tick.op = "trigger")'
    BY <1>2, <1>3, <2>1 DEF Steady
  <2>3. \A c \in Clients :
          (Steady(client[c]) /\ (client[c].stage # "idle" => client[c].op # "trigger"))'
    BY <1>2, <1>4, ClientStaysSteady
  <2> QED
    BY <1>2, <2>2, <2>3 DEF SteadyInv
<1>6. RecordsInv'
  BY <1>1, <1>2, <1>3 DEF CountInv, RecordsInv, Inv, TypeOK
<1>7. \A x : /\ TasksOf(x)' = TasksOf(x) /\ (Starting(x)' <=> Starting(x))
             /\ (Counting(x)' <=> x = s) /\ ~ Counting(x)
  BY <1>0, <1>2, <1>3 DEF TasksOf, Starting, Counting
<1>8. \A x \in Schedules : x # s => Recorded(x)' = Recorded(x)
  BY <1>1, <1>2 DEF Recorded, Inv, TypeOK
<1>9. /\ Cardinality(Recorded(s)') = Cardinality(Recorded(s)) + 1
      /\ Cardinality(Recorded(s)) \in Nat
  <2>1. recordedFor'[t] # 0
    BY <1>0, <1>1, <1>2 DEF Inv, TypeOK
  <2>2. Recorded(s)' = Recorded(s) \cup {t} /\ t \notin Recorded(s)
    BY <1>1, <1>2, <2>1 DEF Recorded, Inv, TypeOK
  <2>3. IsFiniteSet(Recorded(s)) /\ Cardinality(Recorded(s)) \in Nat
    BY Countable DEF Inv
  <2>4. Cardinality(Recorded(s) \cup {t}) = Cardinality(Recorded(s)) + 1
    BY <2>2, <2>3, FS_AddElement
  <2> QED
    BY <2>2, <2>3, <2>4
<1>10. ASSUME NEW x \in Schedules \ raced' PROVE Counted(x)'
  <2>1. Counted(x) /\ rows[x].runs \in Nat
    BY <1>2 DEF CountInv, Inv, TypeOK, Row
  <2>2. CASE x = s
    <3>1. rows[s].runs <= Cardinality(Recorded(s))
      BY <1>7, <1>9, <2>1, <2>2 DEF Counted
    <3>2. rows[s].runs + 1 <= Cardinality(Recorded(s)')
      BY <1>9, <2>1, <2>2, <3>1
    <3> QED
      BY <1>2, <1>7, <2>1, <2>2, <3>2 DEF Counted
  <2>3. CASE x # s
    BY <1>2, <1>7, <1>8, <2>1, <2>3 DEF Counted
  <2> QED
    BY <2>2, <2>3
<1>11. RunLimit'
  BY <1>2, <1>7 DEF CountInv, RunLimit
<1> QED
  BY <1>5, <1>6, <1>10, <1>11 DEF CountInv

(* The write of a trigger counts it; that of a missed run does not.         *)
LEMMA TickWriteCounts ==
  ASSUME Inv, TimeInv, SteadyInv, CountInv, TypeOK', TickWrites
  PROVE  SteadyInv' /\ CountInv'
<1>0. /\ tick \in Activity /\ Sound(tick) /\ Fit(tick) /\ Steady(tick)
      /\ tick.stage = "write" /\ WriteRow(tick)
  BY DEF TickWrites, Inv, TypeOK, ActivityInv, TimeInv, SteadyInv
<1>1. UNCHANGED <<now, template, state, owner, recordedFor, todo, client, stops>>
  BY DEF TickWrites
<1>2. /\ RunsGoOn
      /\ \A s \in Schedules : rows'[s].status = "none" => rows'[s].runs = 0
      /\ \A s \in Schedules \ raced' :
           /\ rows'[s].status \in {"active", "paused"} =>
                Below(template'[s], rows'[s].runs)
           /\ rows'[s].runs = IF s = tick.schedule /\ tick.op = "trigger"
                              THEN rows[s].runs + 1 ELSE rows[s].runs
  BY <1>0, <1>1, WriteCounts
<1>3. \/ /\ tick'.stage \in {"delegate", "missed"} /\ tick'.schedule = tick.schedule
         /\ tick'.op = tick.op /\ tick'.seen = tick.seen /\ tick'.change = tick.change
      \/ tick' = Idle
  <2>1. \/ tick' = [tick EXCEPT !.stage = "delegate"]
        \/ tick' = [tick EXCEPT !.stage = "missed"]
        \/ tick' = Idle
    BY DEF TickWrites
  <2> QED
    BY <1>0, <2>1 DEF Activity
<1>4. SteadyInv'
  <2>1. SteadyTo(tick, rows', raced', template')
    BY <1>0, <1>2, SteadyStays DEF Inv, TypeOK
  <2>2. SteadyTo(tick', rows', raced', template')
    BY <1>0, <1>3, <2>1, IdleType DEF SteadyTo
  <2>3. Steady(tick)' /\ (tick.stage = "record" => tick.op = "trigger")'
    BY <1>3, <2>2, IdleType DEF Steady
  <2>4. \A c \in Clients :
          (Steady(client[c]) /\ (client[c].stage # "idle" => client[c].op # "trigger"))'
    BY <1>1, <1>2, ClientStaysSteady
  <2>5. \A x \in DOMAIN todo' : x \notin raced' => todo'[x].runs <= rows'[x].runs
    BY <1>1, <1>2, TodoStaysSteady
  <2> QED
    BY <2>3, <2>4, <2>5 DEF SteadyInv
<1>5. \A x : /\ TasksOf(x)' = TasksOf(x) /\ Recorded(x)' = Recorded(x)
             /\ (Starting(x) <=> Counting(x))
             /\ (Counting(x) <=> x = tick.schedule /\ tick.op = "trigger")
             /\ ~ Starting(x)' /\ ~ Counting(x)'
  BY <1>0, <1>1, <1>3, IdleType DEF TasksOf, Recorded, Starting, Counting
<1>6. ASSUME NEW x \in Schedules \ raced' PROVE Counted(x)'
  <2>1. Counted(x) /\ rows[x].runs \in Nat
    BY <1>2 DEF CountInv, RunsGoOn, Inv, TypeOK, Row
  <2>2. Cardinality(TasksOf(x)) \in Nat /\ Cardinality(Recorded(x)) \in Nat /\ stops \in Nat
    BY Countable DEF Inv, TypeOK
  <2>3. rows'[x].runs = IF Counting(x) THEN rows[x].runs + 1 ELSE rows[x].runs
    BY <1>2, <1>5
  <2>4. /\ rows'[x].runs <= Cardinality(Recorded(x))
        /\ Cardinality(TasksOf(x)) <= rows'[x].runs + stops
    BY <1>5, <2>1, <2>2, <2>3 DEF Counted
  <2>5. rows'[x].runs \in Nat
    BY <2>1, <2>3
  <2> QED
    BY <1>1, <1>2, <1>5, <2>2, <2>4, <2>5 DEF Counted
<1>7. RunLimit'
  BY <1>1, <1>2, <1>5 DEF CountInv, RunLimit, RunsGoOn
<1>8. RecordsInv'
  BY <1>1, <1>2, <1>3, IdleType DEF CountInv, RecordsInv
<1> QED
  BY <1>4, <1>6, <1>7, <1>8 DEF CountInv

(* A stop may lose the count of one run, and is counted itself.             *)
LEMMA StopCounts ==
  ASSUME Inv, TimeInv, SteadyInv, CountInv, TypeOK', Stop
  PROVE  SteadyInv' /\ CountInv'
<1>1. /\ tick' = Idle /\ DOMAIN todo' = {} /\ stops' = stops + 1
      /\ UNCHANGED <<now, rows, template, state, owner, recordedFor, client, raced>>
  BY DEF Stop, tables
<1>2. RunsGoOn
  BY <1>1 DEF RunsGoOn, Inv, TypeOK, Row
<1>3. SteadyInv'
  <2>1. Steady(tick)' /\ (tick.stage = "record" => tick.op = "trigger")'
    BY <1>1, IdleType DEF Steady, SteadyTo
  <2>2. \A c \in Clients :
          (Steady(client[c]) /\ (client[c].stage # "idle" => client[c].op # "trigger"))'
    BY <1>1, <1>2, ClientStaysSteady
  <2> QED
    BY <1>1, <2>1, <2>2 DEF SteadyInv
<1>4. \A x : /\ TasksOf(x)' = TasksOf(x) /\ Recorded(x)' = Recorded(x)
             /\ ~ Starting(x)' /\ ~ Counting(x)'
  BY <1>1, IdleType DEF TasksOf, Recorded, Starting, Counting
<1>5. ASSUME NEW x \in Schedules \ raced'
      PROVE  Counted(x)'
  <2>1. Counted(x) /\ rows[x].runs \in Nat
    BY <1>1 DEF CountInv, Inv, TypeOK, Row
  <2>2. Cardinality(TasksOf(x)) \in Nat /\ Cardinality(Recorded(x)) \in Nat /\ stops \in Nat
    BY Countable DEF Inv, TypeOK
  <2>3. /\ rows[x].runs <= Cardinality(Recorded(x))
        /\ Cardinality(TasksOf(x)) <= rows[x].runs + (stops + 1)
    BY <2>1, <2>2 DEF Counted
  <2> QED
    BY <1>1, <1>4, <2>1, <2>2, <2>3 DEF Counted
<1>6. RunLimit'
  <2>1. SUFFICES ASSUME NEW x \in Schedules \ raced, template[x] # None,
                        NEW limit,
                        limit = IF template[x].type = "one_time" THEN 1
                                ELSE template[x].maxRuns,
                        limit # 0
                 PROVE  Cardinality(TasksOf(x)) <= limit + (stops + 1)
    BY <1>1, <1>4 DEF RunLimit
  <2>2. /\ limit \in Nat /\ stops \in Nat /\ Cardinality(TasksOf(x)) \in Nat
        /\ Cardinality(TasksOf(x)) <= limit + stops
    BY <2>1, Countable, SchedulingAssumption DEF CountInv, RunLimit, Inv, TypeOK, Template
  <2> QED
    BY <2>2
<1>7. RecordsInv'
  BY <1>1, IdleType DEF CountInv, RecordsInv
<1> QED
  BY <1>3, <1>5, <1>6, <1>7 DEF CountInv

(* Time, tasks that end and restarts.                                       *)
LEMMA WorldCounts ==
  ASSUME Inv, TimeInv, SteadyInv, CountInv, TypeOK',
         Clock \/ Recover \/ (\E t \in Tasks : TaskEnds(t) \/ CancelTask(t)) \/ UNCHANGED vars
  PROVE  SteadyInv' /\ CountInv'
<1>1. UNCHANGED <<rows, template, owner, recordedFor, todo, tick, client, stops, raced>>
  BY DEF Clock, Recover, Boot, TaskEnds, CancelTask, EndTask, tables, vars
<1>2. now' # 0
  BY DEF Clock, Recover, Boot, TaskEnds, CancelTask, EndTask, vars, Inv, TypeOK,
         CountInv, RecordsInv
<1>3. \A t \in Tasks : state'[t] = "none" => state[t] = "none"
  BY DEF Clock, Recover, Boot, TaskEnds, CancelTask, EndTask, tables, vars, Inv, TypeOK
<1>4. CountInv' /\ RunsGoOn
  BY <1>1, <1>2, <1>3, QuietCounts
<1> QED
  BY <1>1, <1>4, TickStaysSteady, ClientStaysSteady, TodoStaysSteady DEF SteadyInv

LEMMA InitCounts == Init => SteadyInv /\ CountInv
<1> SUFFICES ASSUME Init PROVE SteadyInv /\ CountInv
  OBVIOUS
<1>1. TypeOK
  BY InitInv DEF Inv
<1>2. SteadyInv
  <2>1. Idle.stage = "idle" /\ DOMAIN todo = {}
    BY IdleType DEF Init
  <2> QED
    BY <2>1 DEF Init, SteadyInv, Steady, SteadyTo
<1>3. \A s \in Schedules : TasksOf(s) = {} /\ Recorded(s) = {}
  BY SchedulingAssumption DEF Init, TasksOf, Recorded
<1>4. \A s : ~ Starting(s) /\ ~ Counting(s)
  BY IdleType DEF Init, Starting, Counting
<1>5. Cardinality({}) = 0
  BY FS_EmptySet
<1>6. ASSUME NEW s \in Schedules PROVE Counted(s)
  <2>1. /\ rows[s].status = "none" /\ rows[s].runs = 0 /\ stops = 0
    BY DEF Init, NoRow
  <2>2. Cardinality(TasksOf(s)) = 0 /\ Cardinality(Recorded(s)) = 0
    BY <1>3, <1>5
  <2> QED
    BY <1>4, <2>1, <2>2 DEF Counted
<1>7. RunLimit
  BY DEF Init, RunLimit
<1>8. RecordsInv
  BY IdleType DEF Init, NoRow, RecordsInv
<1> QED
  BY <1>2, <1>6, <1>7, <1>8 DEF CountInv

LEMMA StepCounts ==
  Inv /\ TimeInv /\ SteadyInv /\ CountInv /\ [Next]_vars => SteadyInv' /\ CountInv'
<1> SUFFICES ASSUME Inv, TimeInv, SteadyInv, CountInv, [Next]_vars
             PROVE  SteadyInv' /\ CountInv'
  OBVIOUS
<1>0. TypeOK'
  BY StepInv DEF Inv
<1>1. CASE TickStep
  BY <1>0, <1>1, TickCounts, RecordCounts, TickWriteCounts, SaveCounts
     DEF TickStep, ExecuteSchedule
<1>2. CASE Stop
  BY <1>0, <1>2, StopCounts
<1>3. CASE \E c \in Clients : ClientStep(c)
  BY <1>0, <1>3, ClientCounts
<1>4. CASE \E s \in Schedules, temp \in Templates, at \in 2 .. MaxTime :
             CreateSchedule(s, temp, at)
  BY <1>4, CreateCounts
<1>5. CASE Clock \/ Recover \/ (\E t \in Tasks : TaskEnds(t) \/ CancelTask(t))
           \/ UNCHANGED vars
  BY <1>0, <1>5, WorldCounts
<1> QED
  BY <1>1, <1>2, <1>3, <1>4, <1>5 DEF Next

(* runCount, the records of executions and the tasks agree up to the        *)
(* trigger under way and one run for each stop, and no schedule is run      *)
(* more often than maxRuns and the number of stops allow.                   *)
THEOREM RunsAreCounted == Spec => []RunsCounted
<1>1. ASSUME Inv, CountInv PROVE RunsCounted
  <2>1. ASSUME NEW s \in Schedules \ raced
        PROVE  LET unsettled == stops + (IF Triggering(s) THEN 1 ELSE 0)
               IN /\ rows[s].runs <= Cardinality(Recorded(s))
                  /\ Cardinality(TasksOf(s)) <= rows[s].runs + unsettled
    <3>1. Counted(s) /\ rows[s].runs \in Nat /\ stops \in Nat
      BY <1>1 DEF CountInv, Inv, TypeOK, Row
    <3>2. Cardinality(TasksOf(s)) \in Nat /\ Cardinality(Recorded(s)) \in Nat
      BY <1>1, Countable DEF Inv
    <3>3. Starting(s) => Triggering(s)
      BY DEF Starting, Counting, Triggering
    <3>4. /\ rows[s].runs + (IF Counting(s) THEN 1 ELSE 0) <= Cardinality(Recorded(s))
          /\ Cardinality(TasksOf(s)) <= rows[s].runs + stops + (IF Starting(s) THEN 1 ELSE 0)
      BY <3>1 DEF Counted
    <3> QED
      BY <3>1, <3>2, <3>3, <3>4
  <2>2. RunLimit
    BY <1>1 DEF CountInv
  <2> QED
    BY <2>1, <2>2 DEF RunsCounted, RunsMatchHistory
<1>2. Spec => [](Inv /\ TimeInv /\ SteadyInv /\ CountInv)
  BY InitInv, StepInv, InitTime, StepTime, InitCounts, StepCounts, PTL DEF Spec
<1> QED
  BY <1>1, <1>2, PTL

-----------------------------------------------------------------------------
(* Chains.  Without a stop of the server, what a schedule has recorded last *)
(* is what it runs.  So each time that a row has, or will get from a        *)
(* request that nothing crosses, is later than every record: runCount tells *)
(* a request whether a trigger has come in between.                         *)

(* The records of a schedule are for times before `x', all but the one of a *)
(* trigger whose row is still to be written.                                *)
Before(s, x) ==
  \A v \in Recorded(s) : (Counting(s) /\ v = tick.task) \/ recordedFor[v] < x

(* The record of task `u' is for a later time than all others of `s'.       *)
Top(s, u) ==
  u \in Recorded(s) /\ \A v \in Recorded(s) : v = u \/ recordedFor[v] < recordedFor[u]

(* The first session of the server: only the trigger under way has a task   *)
(* that no process runs yet.                                                *)
SessionInv ==
  /\ up /\ recovered = {}
  /\ \A t \in Tasks : state[t] = "saved" => InTrigger /\ tick.task = t
  /\ \A s \in Schedules : rows[s].status # "none" => template[s] \in Templates

(* The executor handles rows whose time has come, and writes times to come. *)
TickInv ==
  /\ tick.stage # "idle" => tick.change.next = 0 \/ tick.change.next > now
  /\ \A s \in DOMAIN todo : todo[s].next # 0 /\ todo[s].next <= now
  /\ tick.stage \in {"record", "delegate"} => tick.op = "trigger"
  /\ tick.stage = "missed" => tick.op = "fail"
  /\ tick.stage # "idle" /\ tick.op = "fail" =>
       /\ tick.change.status \in Ended
       /\ running[tick.schedule] = 0
       /\ tick.stage = "missed" /\ tick.schedule \notin raced =>
            rows[tick.schedule].status \in Ended

(* The records of a schedule follow the time in its row, and the task it    *)
(* runs has the last one.  A schedule with a missed record has ended.       *)
Ordered(s) ==
  /\ \A v \in Recorded(s) : recordedFor[v] <= now
  /\ rows[s].status \notin Ended => Before(s, rows[s].next)
  /\ running[s] # 0 => Top(s, running[s])
  /\ tick.schedule = s /\ tick.stage = "record" =>
       tick.seen.next \in 1 .. now /\ Before(s, tick.seen.next)
  /\ Counting(s) \/ (tick.schedule = s /\ tick.stage = "delegate") => Top(s, tick.task)
  /\ missedFor[s] # 0 =>
       /\ rows[s].status \in Ended /\ running[s] = 0
       /\ ~ (InTrigger /\ tick.schedule = s)

(* What a request would write, were it to write now without crossing, is    *)
(* later than the records: the time it was given, or the one it has read.   *)
Later(a) ==
  LET s == a.schedule
  IN a.stage # "idle" /\ s \notin raced /\ rows[s].status \notin Ended
       /\ a.seen.runs = rows[s].runs =>
       /\ a.stage # "handle" /\ a.change.next > 0 => Before(s, a.change.next)
       /\ a.stage = "write" => Before(s, a.base.next)


-----------------------------------------------------------------------------
(* getNextRunTime yields a later time.                                      *)
LEMMA NextRunTimeLater == \A t \in Nat : NextRunTime(t) \in Nat /\ NextRunTime(t) > t
<1> SUFFICES ASSUME NEW t \in Nat PROVE NextRunTime(t) > t
  BY NextRunTimeType
<1>1. Period \in Nat /\ Period > 0
  BY SchedulingAssumption
<1> DEFINE q == t \div Period
           r == t % Period
<1>2. q \in Nat
  BY <1>1, SMT
<1>3. r \in 0 .. Period - 1
  BY <1>1, SMT
<1>4. t = Period * q + r
  BY <1>1, SMT
<1>5. NextRunTime(t) = (q + 1) * Period
  BY DEF NextRunTime
<1> HIDE DEF q, r
<1>6. (q + 1) * Period = Period * q + Period
  BY <1>1, <1>2, SMT
<1>7. Period * q \in Nat
  BY <1>1, <1>2, SMT
<1> QED
  BY <1>1, <1>3, <1>4, <1>5, <1>6, <1>7

(* The invariants proved so far.                                            *)
Strong == Inv /\ TimeInv /\ SteadyInv /\ CountInv

Chain ==
  /\ SessionInv
  /\ TickInv
  /\ \A s \in Schedules \ raced : Ordered(s)
  /\ \A c \in Clients : Later(client[c])

ChainInv == stops = 0 => Chain

(* Initially there are no records.                                          *)
LEMMA InitChain == Init => Chain
<1> SUFFICES ASSUME Init PROVE Chain
  OBVIOUS
<1>1. DOMAIN todo = {} /\ tick.stage = "idle" /\ Idle.stage = "idle"
  BY IdleType DEF Init
<1>2. SessionInv /\ TickInv
  BY <1>1 DEF Init, SessionInv, TickInv, NoRow
<1>3. ASSUME NEW s \in Schedules PROVE Ordered(s)
  <2>1. Recorded(s) = {} /\ running[s] = 0 /\ missedFor[s] = 0
    BY DEF Init, Recorded
  <2> QED
    BY <1>1, <2>1 DEF Ordered, Before, Counting
<1>4. ASSUME NEW c \in Clients PROVE Later(client[c])
  BY <1>1 DEF Init, Later
<1> QED
  BY <1>2, <1>3, <1>4 DEF Chain

(* A request that a step leaves alone, unless the step triggers the same    *)
(* schedule: then it is too late or crosses.                                *)
LEMMA LaterStays ==
  ASSUME NEW c \in Clients, Later(client[c]), UNCHANGED client[c], raced \subseteq raced',
         LET s == client[c].schedule
         IN client[c].stage # "idle" /\ s \notin raced' /\ rows'[s].status \notin Ended
              /\ client[c].seen.runs = rows'[s].runs =>
              /\ rows[s].status \notin Ended /\ client[c].seen.runs = rows[s].runs
              /\ \A x \in Int : Before(s, x) => Before(s, x)',
         client \in [Clients -> Activity]
  PROVE  Later(client[c])'
<1>1. client[c].change.next \in Int /\ client[c].base.next \in Int
  BY DEF Activity, Changes, Row
<1> QED
  BY <1>1 DEF Later

(* The order of the records is a matter of three variables.                 *)
LEMMA BeforeStays ==
  ASSUME UNCHANGED <<owner, recordedFor, tick>>
  PROVE  \A s, x : Before(s, x)' <=> Before(s, x)
BY DEF Before, Counting, Recorded

(* Steps that leave the records and the trigger alone.                      *)
LEMMA OrderedRewritten ==
  ASSUME Strong, NEW s \in Schedules, Ordered(s),
         UNCHANGED <<owner, recordedFor, missedFor, tick>>,
         rows'[s].status \notin Ended => Before(s, rows'[s].next),
         missedFor[s] # 0 => rows'[s].status \in Ended,
         running'[s] \in {0, running[s]}, now' \in Nat, now' >= now
  PROVE  Ordered(s)'
<1>1. Recorded(s)' = Recorded(s)
  BY DEF Recorded
<1>2. \A v \in Recorded(s) : recordedFor[v] \in Nat /\ now \in Nat
  BY DEF Recorded, Strong, Inv, TypeOK
<1>3. (\A v \in Recorded(s) : recordedFor[v] <= now)'
  BY <1>1, <1>2 DEF Ordered
<1>4. \A x : (Before(s, x)' <=> Before(s, x)) /\ (Top(s, x)' <=> Top(s, x))
  BY <1>1, BeforeStays DEF Top
<1>5. tick.stage = "record" /\ tick.schedule = s =>
        tick.seen.next \in 1 .. now' /\ Before(s, tick.seen.next)
  <2>1. tick.seen.next \in Nat /\ now \in Nat
    BY DEF Strong, Inv, TypeOK, Activity, Row
  <2> QED
    BY <2>1 DEF Ordered
<1>6. (running[s] # 0 => Top(s, running[s]))'
  BY <1>4 DEF Ordered
<1>7. (missedFor[s] # 0 => /\ rows[s].status \in Ended /\ running[s] = 0
                           /\ ~ (InTrigger /\ tick.schedule = s))'
  BY DEF Ordered, InTrigger
<1> QED
  BY <1>3, <1>4, <1>5, <1>6, <1>7 DEF Ordered, Counting

(* In particular those that leave the row alone too.                        *)
LEMMA OrderedStays ==
  ASSUME Strong, NEW s \in Schedules, Ordered(s),
         UNCHANGED <<owner, recordedFor, missedFor, tick>>, rows'[s] = rows[s],
         running'[s] \in {0, running[s]}, now' \in Nat, now' >= now
  PROVE  Ordered(s)'
BY OrderedRewritten DEF Ordered

(* A client's steps.                                                        *)
LEMMA ClientChain ==
  ASSUME Strong, Chain, Inv', NEW c \in Clients, ClientStep(c)
  PROVE  Chain'
<1> USE DEF Strong
<1> DEFINE a == client[c]
           s == client[c].schedule
<1>0. /\ client \in [Clients -> Activity] /\ a \in Activity
      /\ Sound(a) /\ Fit(a) /\ Steady(a) /\ Later(a) /\ (a.stage # "idle" => a.op # "trigger")
      /\ now \in Nat
  BY DEF Inv, TypeOK, ActivityInv, TimeInv, SteadyInv, Chain
<1>1. UNCHANGED <<now, template, state, owner, recordedFor, missedFor, up, running, todo,
                  tick, recovered>>
  BY DEF ClientStep, Request, HandleResume, ClientReads, ClientWrites, tables
<1>2. ASSUME UNCHANGED <<rows, raced>>, NEW new, client' = [client EXCEPT ![c] = new],
             LET x == new.schedule
             IN new.stage # "idle" /\ x \notin raced /\ rows[x].status \notin Ended
                  /\ new.seen.runs = rows[x].runs =>
                  /\ new.stage # "handle" /\ new.change.next > 0 => Before(x, new.change.next)
                  /\ new.stage = "write" => Before(x, new.base.next)
      PROVE  Chain'
  <2>1. SessionInv' /\ TickInv'
    BY <1>1, <1>2 DEF Chain, SessionInv, TickInv, InTrigger
  <2>2. ASSUME NEW x \in Schedules \ raced' PROVE Ordered(x)'
    BY <1>0, <1>1, <1>2, OrderedStays DEF Chain
  <2>3. ASSUME NEW d \in Clients PROVE Later(client[d])'
    <3>1. \A x, y : Before(x, y)' <=> Before(x, y)
      BY <1>1, BeforeStays
    <3>2. CASE d = c
      <4>1. client'[d] = new
        BY <1>0, <1>2, <3>2
      <4> QED
        BY <1>2, <3>1, <4>1 DEF Later
    <3>3. CASE d # c
      <4>1. client'[d] = client[d] /\ Later(client[d])
        BY <1>0, <1>2, <3>3 DEF Chain
      <4> QED
        BY <1>0, <1>2, <3>1, <4>1, LaterStays
    <3> QED
      BY <3>2, <3>3
  <2> QED
    BY <2>1, <2>2, <2>3 DEF Chain
<1>3. ASSUME NEW op \in {"pause", "resume", "cancel"}, NEW x \in Schedules,
             Request(c, op, x)
      PROVE  Chain'
  <2> DEFINE new == [Idle EXCEPT !.stage = IF op = "resume" THEN "handle" ELSE "read",
                                 !.op = op, !.schedule = x, !.seen = rows[x],
                                 !.change = Requested(op)]
  <2>1. client' = [client EXCEPT ![c] = new] /\ UNCHANGED <<rows, raced>>
    BY <1>3 DEF Request, tables
  <2>2. /\ new.stage = IF op = "resume" THEN "handle" ELSE "read"
        /\ new.change = Requested(op)
    BY DEF Idle
  <2>3. new.stage # "write" /\ (new.stage = "handle" \/ ~ new.change.next > 0)
    BY <2>2 DEF Requested, Change
  <2> HIDE DEF new
  <2> QED
    BY <1>2, <2>1, <2>3
<1>4. CASE HandleResume(c)
  <2> DEFINE next == IF template[s].type = "cron" THEN NextRunTime(now) ELSE rows[s].next
             new == [a EXCEPT !.stage = "read", !.change = Change("active", next, -1)]
  <2>1. client' = [client EXCEPT ![c] = new] /\ UNCHANGED <<rows, raced>> /\ a.stage = "handle"
    BY <1>0, <1>4 DEF HandleResume, Activity, tables
  <2>2. /\ new.stage = "read" /\ new.schedule = s /\ new.change.next = next
    BY <1>0 DEF Activity, Change
  <2>3. ASSUME s \notin raced, rows[s].status \notin Ended PROVE Before(s, next)
    <3>1. s \in Schedules
      BY <1>0, <2>1 DEF Sound
    <3>2. Before(s, rows[s].next) /\ \A v \in Recorded(s) : recordedFor[v] <= now
      BY <2>3, <3>1 DEF Chain, Ordered
    <3>3. Before(s, NextRunTime(now))
      <4>1. NextRunTime(now) \in Nat /\ NextRunTime(now) > now
        BY <1>0, NextRunTimeLater
      <4>2. \A v \in Recorded(s) : recordedFor[v] \in Nat
        BY DEF Recorded, Inv, TypeOK
      <4> QED
        BY <1>0, <3>2, <4>1, <4>2 DEF Before
    <3> QED
      BY <3>2, <3>3
  <2> HIDE DEF new, next
  <2> QED
    BY <1>2, <2>1, <2>2, <2>3
<1>5. CASE ClientReads(c)
  <2> DEFINE new == [a EXCEPT !.stage = "write", !.base = rows[s]]
  <2>1. client' = [client EXCEPT ![c] = new] /\ UNCHANGED <<rows, raced>> /\ a.stage = "read"
    BY <1>0, <1>5 DEF ClientReads, Activity, tables
  <2>2. /\ new.stage = "write" /\ new.schedule = s /\ new.base = rows[s]
        /\ new.seen = a.seen /\ new.change = a.change
    BY <1>0 DEF Activity
  <2>3. s \in Schedules
    BY <1>0, <2>1 DEF Sound
  <2>4. ASSUME s \notin raced, rows[s].status \notin Ended, a.seen.runs = rows[s].runs
        PROVE  /\ a.change.next > 0 => Before(s, a.change.next)
               /\ Before(s, rows[s].next)
    BY <1>0, <2>1, <2>3, <2>4 DEF Later, Chain, Ordered
  <2> HIDE DEF new
  <2> QED
    BY <1>2, <2>1, <2>2, <2>4
<1>6. CASE ClientWrites(c)
  <2>1. /\ a.stage = "write" /\ WriteRow(a) /\ client' = [client EXCEPT ![c] = Idle]
        /\ rows' = [rows EXCEPT ![s] = Merged(a)] /\ s \in Schedules
    BY <1>0, <1>6 DEF ClientWrites, WriteRow, Sound
  <2>2. /\ RunsGoOn /\ RowsGoOn
        /\ \A x \in Schedules \ raced' : rows'[x].runs = rows[x].runs
    BY <1>0, <1>1, <2>1, WriteCounts, WriteFits
  <2>3. \A x, y : Before(x, y)' <=> Before(x, y)
    BY <1>1, BeforeStays
  <2>4. SessionInv'
    <3>1. \A x \in Schedules : rows'[x].status # "none" => rows[x].status # "none"
      BY <1>0, <2>1 DEF Fit, FitTo, Inv, TypeOK
    <3> QED
      BY <1>1, <3>1 DEF Chain, SessionInv, InTrigger
  <2>5. TickInv'
    <3>1. tick.stage = "missed" /\ tick.schedule \notin raced' =>
            rows'[tick.schedule].status \in Ended
      BY <2>2 DEF Chain, TickInv, RowsGoOn, Inv, ActivityInv, Sound
    <3> QED
      BY <1>1, <3>1 DEF Chain, TickInv
  <2>6. ASSUME NEW x \in Schedules \ raced' PROVE Ordered(x)'
    <3>1. Ordered(x) /\ x \notin raced
      BY <2>2 DEF Chain, RowsGoOn
    <3>2. CASE x # s
      <4>1. rows'[x] = rows[x]
        BY <2>1, <3>2 DEF Inv, TypeOK
      <4> QED
        BY <1>0, <1>1, <3>1, <4>1, OrderedStays
    <3>3. CASE x = s
      <4>1. rows'[x] = Merged(a) /\ rows[x] = a.seen
        BY <2>1, <2>6, <3>3 DEF WriteRow, Inv, TypeOK
      <4>2. ASSUME Merged(a).status \notin Ended PROVE Before(x, Merged(a).next)
        <5>1. rows[x].status \notin Ended
          BY <2>2, <2>6, <4>1, <4>2 DEF RowsGoOn
        <5>2. /\ a.change.next > 0 => Before(x, a.change.next)
              /\ Before(x, a.base.next)
          BY <1>0, <2>1, <3>1, <3>3, <4>1, <5>1 DEF Later
        <5>3. a.change \in Changes
          BY <1>0 DEF Activity
        <5>4. a.change.status \notin Ended
          BY <4>2, <5>3, MergeType, <1>0 DEF Merged, Activity
        <5>5. a.change.next = -1 \/ a.change.next > 0
          BY <1>0, <2>1, <3>1, <3>3, <5>1, <5>4 DEF Fit, FitTo
        <5> QED
          BY <5>2, <5>5 DEF Merged, Merge
      <4>3. missedFor[x] # 0 => rows'[x].status \in Ended
        BY <2>2, <2>6, <3>1 DEF Ordered, RowsGoOn
      <4>4. rows'[x].status \notin Ended => Before(x, rows'[x].next)
        BY <4>1, <4>2
      <4> QED
        BY <1>0, <1>1, <3>1, <4>3, <4>4, OrderedRewritten
    <3> QED
      BY <3>2, <3>3
  <2>7. ASSUME NEW d \in Clients PROVE Later(client[d])'
    <3>1. CASE d = c
      <4>1. client'[d].stage = "idle"
        BY <1>0, <2>1, <3>1, IdleType
      <4> QED
        BY <4>1 DEF Later
    <3>2. CASE d # c
      <4>1. client'[d] = client[d] /\ Later(client[d]) /\ Sound(client[d])
        BY <1>0, <2>1, <3>2 DEF Chain, Inv, ActivityInv
      <4>2. client[d].stage # "idle" => client[d].schedule \in Schedules
        BY <4>1 DEF Sound
      <4>3. raced \subseteq raced'
        BY <2>2 DEF RowsGoOn
      <4> QED
        BY <1>0, <2>2, <2>3, <4>1, <4>2, <4>3, LaterStays DEF RowsGoOn
    <3> QED
      BY <3>1, <3>2
  <2> QED
    BY <2>4, <2>5, <2>6, <2>7 DEF Chain
<1> QED
  BY <1>3, <1>4, <1>5, <1>6 DEF ClientStep
(* A new schedule has no records.                                           *)
LEMMA CreateChain ==
  ASSUME Strong, stops = 0, Chain, NEW s \in Schedules, NEW temp \in Templates,
         NEW at \in 2 .. MaxTime, CreateSchedule(s, temp, at)
  PROVE  Chain'
<1> USE DEF Strong
<1>1. /\ rows[s].status = "none" /\ rows \in [Schedules -> Row]
      /\ rows' = [rows EXCEPT ![s] = [status |-> "active", next |-> at, runs |-> 0]]
      /\ template' = [template EXCEPT ![s] = temp]
      /\ template \in [Schedules -> Templates \cup {None}]
      /\ UNCHANGED <<now, state, owner, recordedFor, missedFor, up, running, todo, tick,
                     client, recovered, raced>>
      /\ now \in Nat /\ client \in [Clients -> Activity]
  BY DEF CreateSchedule, Inv, TypeOK
<1>2. SessionInv'
  BY <1>1 DEF Chain, SessionInv, InTrigger
<1>3. TickInv'
  <2>1. tick.stage # "idle" => tick.schedule \in Schedules /\ tick.schedule # s
    BY <1>1 DEF TimeInv, Fit, FitTo, Inv, ActivityInv, Sound
  <2>2. tick.stage # "idle" => rows'[tick.schedule] = rows[tick.schedule]
    BY <1>1, <2>1
  <2> QED
    BY <1>1, <2>2 DEF Chain, TickInv
<1>4. ASSUME NEW x \in Schedules \ raced' PROVE Ordered(x)'
  <2>1. Ordered(x)
    BY <1>1, <1>4 DEF Chain
  <2>2. CASE x # s
    <3>1. rows'[x] = rows[x]
      BY <1>1, <2>2
    <3> QED
      BY <1>1, <2>1, <3>1, OrderedStays
  <2>3. CASE x = s
    <3>1. Counted(s) /\ rows[s].runs = 0 /\ ~ Starting(s)
      BY <1>1, <1>4, <2>3 DEF CountInv, RecordsInv, TimeInv, Fit, FitTo, Starting, Counting
    <3>2. Cardinality(TasksOf(s)) = 0 /\ IsFiniteSet(TasksOf(s))
      BY <3>1, Countable DEF Counted, Inv
    <3>3. Recorded(s) = {}
      BY <3>2, FS_EmptySet DEF Recorded, TasksOf
    <3>4. Before(s, rows'[s].next)
      BY <3>3 DEF Before
    <3>5. missedFor[s] = 0
      BY <1>1, <2>1, <2>3 DEF Ordered, Ended
    <3> QED
      BY <1>1, <2>1, <2>3, <3>4, <3>5, OrderedRewritten
  <2> QED
    BY <2>2, <2>3
<1>5. ASSUME NEW d \in Clients PROVE Later(client[d])'
  <2>1. client[d].stage # "idle" => client[d].schedule \in Schedules /\ client[d].schedule # s
    BY <1>1 DEF TimeInv, Fit, FitTo, Inv, ActivityInv, Sound
  <2>2. client[d].stage # "idle" => rows'[client[d].schedule] = rows[client[d].schedule]
    BY <1>1, <2>1
  <2>3. Later(client[d]) /\ \A x, y : Before(x, y)' <=> Before(x, y)
    BY <1>1, BeforeStays DEF Chain
  <2> QED
    BY <1>1, <2>2, <2>3, LaterStays
<1> QED
  BY <1>2, <1>3, <1>4, <1>5 DEF Chain

(* Time and the end of tasks.                                               *)
LEMMA WorldChain ==
  ASSUME Strong, Chain,
         Clock \/ (\E t \in Tasks : TaskEnds(t) \/ CancelTask(t)) \/ UNCHANGED vars
  PROVE  Chain'
<1> USE DEF Strong
<1>1. /\ UNCHANGED <<rows, template, owner, recordedFor, missedFor, up, todo, tick,
                     client, recovered, raced>>
      /\ now \in Nat /\ now' \in Nat /\ now' >= now /\ client \in [Clients -> Activity]
      /\ now' = now \/ (tick.stage = "idle" /\ todo = << >>)
  BY DEF Clock, TaskEnds, CancelTask, EndTask, tables, vars, TickIdle, Inv, TypeOK
<1>2. \A s \in Schedules : running'[s] \in {0, running[s]}
  BY DEF Clock, TaskEnds, CancelTask, EndTask, ClearRunning, vars
<1>3. \A t \in Tasks : state'[t] = "saved" => state[t] = "saved"
  BY DEF Clock, TaskEnds, CancelTask, EndTask, tables, vars, Inv, TypeOK
<1>4. SessionInv'
  BY <1>1, <1>3 DEF Chain, SessionInv, InTrigger
<1>5. TickInv'
  <2>1. CASE now' = now
    <3>1. tick.stage # "idle" => tick.schedule \in Schedules
      BY DEF Inv, ActivityInv, Sound
    <3> QED
      BY <1>1, <1>2, <2>1, <3>1 DEF Chain, TickInv
  <2>2. CASE tick.stage = "idle" /\ todo = << >>
    <3>1. DOMAIN todo = {}
      BY <2>2
    <3> QED
      BY <1>1, <2>2, <3>1 DEF TickInv
  <2> QED
    BY <1>1, <2>1, <2>2
<1>6. ASSUME NEW x \in Schedules \ raced' PROVE Ordered(x)'
  BY <1>1, <1>2, OrderedStays DEF Chain
<1>7. ASSUME NEW d \in Clients PROVE Later(client[d])'
  <2>1. Later(client[d]) /\ \A x, y : Before(x, y)' <=> Before(x, y)
    BY <1>1, BeforeStays DEF Chain
  <2> QED
    BY <1>1, <2>1, LaterStays
<1> QED
  BY <1>4, <1>5, <1>6, <1>7 DEF Chain

(* The executor looks at a row, or takes one and leaves it; or the missed   *)
(* run begins to be dealt with.                                             *)
LEMMA TakeChain ==
  ASSUME Strong, Chain,
         \/ Tick
         \/ \E s \in Schedules : SkipRunning(s) \/ DropInactive(s)
                               \/ SkipMissed(s) \/ FailMissed(s)
  PROVE  Chain'
<1> USE DEF Strong
<1>1. /\ UNCHANGED <<now, rows, template, state, owner, recordedFor, missedFor, up, running,
                     client, recovered, raced>>
      /\ tick.stage = "idle" /\ tick'.stage \in {"idle", "read"}
      /\ now \in Nat /\ client \in [Clients -> Activity]
  BY IdleType DEF Tick, SkipRunning, DropInactive, SkipMissed, FailMissed, TakeToTrigger, Take,
         TickIdle, tables, Idle, Inv, TypeOK
<1>2. ~ InTrigger /\ ~ InTrigger' /\ \A s : ~ Counting(s) /\ ~ Counting(s)'
  BY <1>1 DEF InTrigger, Counting
<1>3. SessionInv'
  BY <1>1, <1>2 DEF Chain, SessionInv
<1>4. NextRunTime(now) > now
  BY <1>1, NextRunTimeLater
<1>5. \A s \in DOMAIN todo' : todo'[s].next # 0 /\ todo'[s].next <= now
  <2>1. CASE Tick
    BY <2>1 DEF Tick, Due
  <2>2. ASSUME NEW s \in Schedules, Take(s)
        PROVE  \A x \in DOMAIN todo' : todo'[x].next # 0 /\ todo'[x].next <= now
    BY <2>2, TakeDrops DEF Chain, TickInv
  <2> QED
    BY <2>1, <2>2 DEF SkipRunning, DropInactive, SkipMissed, FailMissed, TakeToTrigger
<1>6. TickInv'
  <2>1. CASE tick' = tick
    BY <1>1, <1>5, <2>1 DEF TickInv
  <2>2. ASSUME NEW s \in Schedules, SkipMissed(s)
        PROVE  TickInv'
    <3>1. tick'.op = "skip" /\ tick'.change = UpdateNextRun(s)
      BY <2>2 DEF SkipMissed, Idle
    <3>2. tick'.change.next = 0 \/ tick'.change.next > now
      BY <1>4, <3>1 DEF UpdateNextRun, Change
    <3> QED
      BY <1>1, <1>5, <3>1, <3>2 DEF TickInv
  <2>3. ASSUME NEW s \in Schedules, FailMissed(s)
        PROVE  TickInv'
    <3>1. /\ tick'.change = Change("cancelled", 0, -1)
          /\ tick'.schedule = s /\ running'[s] = 0 /\ tick'.stage = "read"
      BY <1>1, <2>3 DEF FailMissed, IsScheduleRunning, Idle
    <3>2. tick'.change.next = 0 /\ tick'.change.status \in Ended
      BY <3>1 DEF Change, Ended
    <3> QED
      BY <1>1, <1>5, <3>1, <3>2 DEF TickInv
  <2> QED
    BY <2>1, <2>2, <2>3 DEF Tick, SkipRunning, DropInactive
<1>7. \A x, y : Before(x, y)' <=> Before(x, y)
  BY <1>1, <1>2 DEF Before, Recorded
<1>8. ASSUME NEW x \in Schedules \ raced' PROVE Ordered(x)'
  <2>1. Ordered(x)
    BY <1>1, <1>8 DEF Chain
  <2>2. Recorded(x)' = Recorded(x) /\ \A y : Top(x, y)' <=> Top(x, y)
    BY <1>1 DEF Top, Recorded
  <2> QED
    BY <1>1, <1>2, <1>7, <2>1, <2>2 DEF Ordered
<1>9. ASSUME NEW d \in Clients PROVE Later(client[d])'
  BY <1>1, <1>7, LaterStays DEF Chain
<1> QED
  BY <1>3, <1>6, <1>8, <1>9 DEF Chain

(* A trigger begins: the row it has seen is for a time after all records.   *)
LEMMA SaveChain ==
  ASSUME Strong, Chain, NEW s \in Schedules, NEW t \in Tasks, SaveTask(s, t)
  PROVE  Chain'
<1> USE DEF Strong
<1>1. /\ Take(s) /\ running[s] = 0 /\ state[t] = "none" /\ rows[s].status = "active"
      /\ tick.stage = "idle"
      /\ state' = [state EXCEPT ![t] = "saved"] /\ owner' = [owner EXCEPT ![t] = s]
      /\ raced' = IF rows[s] # todo[s] THEN raced \cup {s} ELSE raced
      /\ UNCHANGED <<now, rows, template, recordedFor, missedFor, up, running, client,
                     recovered>>
  BY DEF SaveTask, TakeToTrigger, IsScheduleRunning, Fresh, Take
<1>2. /\ tick'.stage = "record" /\ tick'.op = "trigger" /\ tick'.schedule = s
      /\ tick'.task = t /\ tick'.seen = rows[s]
      /\ tick'.change = AfterTrigger(s, rows[s].runs + 1)
  BY DEF SaveTask, Idle
<1>3. /\ now \in Nat /\ client \in [Clients -> Activity] /\ recordedFor[t] = 0
      /\ owner \in [Tasks -> Schedules \cup {None}]
      /\ state \in [Tasks -> {"none", "saved", "live", "stranded", "ended"}]
      /\ rows \in [Schedules -> Row]
  BY <1>1 DEF Inv, TypeOK, CountInv, RecordsInv
<1>4. ~ InTrigger /\ InTrigger' /\ \A x : ~ Counting(x) /\ ~ Counting(x)'
  BY <1>1, <1>2 DEF InTrigger, Counting
<1>5. SessionInv'
  BY <1>1, <1>2, <1>3, <1>4 DEF Chain, SessionInv
<1>6. TickInv'
  <2>1. NextRunTime(now) > now
    BY <1>3, NextRunTimeLater
  <2>2. tick'.change.next = 0 \/ tick'.change.next > now
    BY <1>2, <2>1 DEF AfterTrigger, Change
  <2>3. \A x \in DOMAIN todo' : todo'[x].next # 0 /\ todo'[x].next <= now
    BY <1>1, TakeDrops DEF Chain, TickInv
  <2> QED
    BY <1>1, <1>2, <2>2, <2>3 DEF TickInv
<1>7. \A x : Recorded(x)' = Recorded(x)
  BY <1>1, <1>3 DEF Recorded
<1>8. \A x, y : (Before(x, y)' <=> Before(x, y)) /\ (Top(x, y)' <=> Top(x, y))
  BY <1>1, <1>4, <1>7 DEF Before, Top
<1>9. ASSUME NEW x \in Schedules \ raced' PROVE Ordered(x)'
  <2>1. Ordered(x) /\ x \notin raced
    BY <1>1, <1>9 DEF Chain
  <2>2. x = s => /\ rows[s].next \in 1 .. now /\ Before(s, rows[s].next)
                 /\ missedFor[s] = 0
    <3>1. SUFFICES ASSUME x = s
                   PROVE  rows[s].next \in 1 .. now /\ Before(s, rows[s].next) /\ missedFor[s] = 0
      OBVIOUS
    <3>2. rows[s] = todo[s] /\ s \in DOMAIN todo
      BY <1>1, <1>9, <3>1 DEF Take
    <3>3. rows[s].next \in Nat
      BY <1>3 DEF Row
    <3>4. rows[s].status \notin Ended
      BY <1>1 DEF Ended
    <3> QED
      BY <1>3, <2>1, <3>1, <3>2, <3>3, <3>4 DEF Chain, TickInv, Ordered
  <2>3. (\A v \in Recorded(x) : recordedFor[v] <= now)'
    BY <1>1, <1>7, <2>1 DEF Ordered
  <2>4. (rows[x].status \notin Ended => Before(x, rows[x].next))'
    BY <1>1, <1>8, <2>1 DEF Ordered
  <2>5. (running[x] # 0 => Top(x, running[x]))'
    BY <1>1, <1>8, <2>1 DEF Ordered
  <2>6. (tick.schedule = x /\ tick.stage = "record" =>
           tick.seen.next \in 1 .. now /\ Before(x, tick.seen.next))'
    BY <1>1, <1>2, <1>8, <2>2
  <2>7. (missedFor[x] # 0 => /\ rows[x].status \in Ended /\ running[x] = 0
                             /\ ~ (InTrigger /\ tick.schedule = x))'
    BY <1>1, <1>2, <2>1, <2>2 DEF Ordered
  <2> QED
    BY <1>2, <1>4, <2>3, <2>4, <2>5, <2>6, <2>7 DEF Ordered
<1>10. ASSUME NEW d \in Clients PROVE Later(client[d])'
  BY <1>1, <1>3, <1>8, LaterStays DEF Chain
<1> QED
  BY <1>5, <1>6, <1>9, <1>10 DEF Chain

(* The record of the execution is for a later time than all records there   *)
(* were.                                                                    *)
LEMMA RecordChain ==
  ASSUME Strong, Chain, RecordExecution
  PROVE  Chain'
<1> USE DEF Strong
<1>0. PICK s \in Schedules, t \in Tasks :
        /\ s = tick.schedule /\ t = tick.task
        /\ owner[t] = s /\ state[t] = "saved" /\ recordedFor[t] = 0 /\ running[s] = 0
  BY DEF RecordExecution, Inv, TriggerInv, InTrigger, ActivityInv, Sound, CountInv, RecordsInv
<1>1. /\ tick.stage = "record" /\ tick.op = "trigger" /\ tick \in Activity
      /\ tick' = [tick EXCEPT !.stage = "write", !.base = rows[s]]
      /\ recordedFor' = [recordedFor EXCEPT ![t] = IF tick.seen.next # 0
                                                   THEN tick.seen.next ELSE now]
      /\ UNCHANGED <<now, rows, template, state, owner, missedFor, up, running, todo,
                     client, recovered, raced>>
      /\ now \in Nat /\ recordedFor \in [Tasks -> Nat] /\ client \in [Clients -> Activity]
  BY <1>0 DEF RecordExecution, Inv, TypeOK, Chain, TickInv
<1>2. /\ tick'.stage = "write" /\ tick'.schedule = s /\ tick'.task = t
      /\ tick'.op = "trigger" /\ tick'.change = tick.change
  BY <1>0, <1>1 DEF Activity
<1>3. InTrigger /\ InTrigger' /\ \A x : ~ Counting(x) /\ (Counting(x)' <=> x = s)
  BY <1>1, <1>2 DEF InTrigger, Counting
<1>4. SessionInv'
  BY <1>0, <1>1, <1>2, <1>3 DEF Chain, SessionInv
<1>5. TickInv'
  BY <1>1, <1>2 DEF Chain, TickInv
<1>6. \A x : x # s => /\ Recorded(x)' = Recorded(x)
                      /\ \A v \in Recorded(x) : recordedFor'[v] = recordedFor[v]
  BY <1>0, <1>1 DEF Recorded
<1>7. /\ Recorded(s)' \subseteq Recorded(s) \cup {t} /\ t \notin Recorded(s)
      /\ Recorded(s) \subseteq Recorded(s)'
      /\ \A v \in Recorded(s) : recordedFor'[v] = recordedFor[v]
  BY <1>0, <1>1 DEF Recorded
<1>8. \A x, y : Before(x, y)' <=> Before(x, y)
  <2>1. ASSUME NEW x, NEW y, x # s PROVE Before(x, y)' <=> Before(x, y)
    BY <1>3, <1>6, <2>1 DEF Before
  <2>2. ASSUME NEW y PROVE Before(s, y)' <=> Before(s, y)
    BY <1>2, <1>3, <1>7 DEF Before
  <2> QED
    BY <2>1, <2>2
<1>9. ASSUME NEW x \in Schedules \ raced' PROVE Ordered(x)'
  <2>1. Ordered(x)
    BY <1>1, <1>9 DEF Chain
  <2>2. CASE x # s
    <3>1. \A y : Top(x, y)' <=> Top(x, y)
      BY <1>6, <2>2 DEF Top
    <3>2. (\A v \in Recorded(x) : recordedFor[v] <= now)'
      BY <1>1, <1>6, <2>1, <2>2 DEF Ordered
    <3> QED
      BY <1>0, <1>1, <1>2, <1>3, <1>8, <2>1, <2>2, <3>1, <3>2 DEF Ordered
  <2>3. CASE x = s
    <3>1. tick.seen.next \in 1 .. now /\ Before(s, tick.seen.next)
      BY <1>0, <1>1, <2>1, <2>3 DEF Ordered
    <3>2. recordedFor'[t] = tick.seen.next /\ recordedFor'[t] # 0
      BY <1>1, <3>1
    <3>3. Top(s, t)'
      <4>1. t \in Recorded(s)'
        BY <1>0, <1>1, <3>2 DEF Recorded
      <4>2. \A v \in Recorded(s) : recordedFor[v] < tick.seen.next
        BY <1>3, <3>1 DEF Before
      <4> QED
        BY <1>7, <3>2, <4>1, <4>2 DEF Top
    <3>4. (\A v \in Recorded(s) : recordedFor[v] <= now)'
      <4>1. \A v \in Recorded(s) : recordedFor[v] <= now
        BY <2>1, <2>3 DEF Ordered
      <4> QED
        BY <1>1, <1>7, <3>1, <3>2, <4>1
    <3>5. missedFor[s] = 0
      BY <1>0, <1>3, <2>1, <2>3 DEF Ordered
    <3> QED
      BY <1>0, <1>1, <1>2, <1>3, <1>8, <2>1, <2>3, <3>3, <3>4, <3>5 DEF Ordered
  <2> QED
    BY <2>2, <2>3
<1>10. ASSUME NEW d \in Clients PROVE Later(client[d])'
  BY <1>1, <1>8, LaterStays DEF Chain
<1> QED
  BY <1>4, <1>5, <1>9, <1>10 DEF Chain

(* The executor writes what it has worked out at this time: a row that goes *)
(* on is for a time still to come.                                          *)
LEMMA TickWriteChain ==
  ASSUME Strong, Chain, TickWrites
  PROVE  Chain'
<1> USE DEF Strong
<1>0. /\ tick \in Activity /\ Sound(tick) /\ Fit(tick) /\ Steady(tick)
      /\ tick.stage = "write" /\ WriteRow(tick) /\ rows \in [Schedules -> Row]
      /\ now \in Nat /\ client \in [Clients -> Activity] /\ recordedFor \in [Tasks -> Nat]
  BY DEF TickWrites, Inv, TypeOK, ActivityInv, TimeInv, SteadyInv
<1>1. PICK s \in Schedules : s = tick.schedule
  BY <1>0 DEF Sound
<1>2. /\ UNCHANGED <<now, template, state, owner, recordedFor, missedFor, up, running, todo,
                     client, recovered>>
      /\ rows' = [rows EXCEPT ![s] = Merged(tick)]
      /\ s \notin raced' => rows[s] = tick.seen
  BY <1>1 DEF TickWrites, WriteRow
<1>3. /\ RowsGoOn /\ RunsGoOn
      /\ \A x \in Schedules \ raced' :
           rows'[x].runs = IF x = tick.schedule /\ tick.op = "trigger"
                           THEN rows[x].runs + 1 ELSE rows[x].runs
  BY <1>0, <1>2, WriteCounts, WriteFits
<1>4. raced \subseteq raced'
  BY <1>3 DEF RunsGoOn
<1>5. /\ tick.op = "trigger" => /\ tick'.stage = "delegate" /\ tick'.schedule = s
                                /\ tick'.task = tick.task /\ tick'.op = tick.op
                                /\ tick'.change = tick.change
      /\ tick.op = "fail" => /\ tick'.stage = "missed" /\ tick'.schedule = s
                             /\ tick'.op = tick.op /\ tick'.change = tick.change
      /\ tick.op \notin {"trigger", "fail"} => tick'.stage = "idle"
  BY <1>0, <1>1, IdleType DEF TickWrites, Activity
<1>6. /\ InTrigger <=> tick.op = "trigger"
      /\ InTrigger' <=> tick.op = "trigger"
      /\ \A x : (Counting(x) <=> x = s /\ tick.op = "trigger") /\ ~ Counting(x)'
  BY <1>0, <1>1, <1>5 DEF InTrigger, Counting
<1>7. SessionInv'
  <2>1. \A x \in Schedules : rows'[x].status # "none" => rows[x].status # "none"
    BY <1>0, <1>1, <1>2 DEF Fit, FitTo
  <2> QED
    BY <1>2, <1>5, <1>6, <2>1 DEF Chain, SessionInv
<1>8. ASSUME s \notin raced', rows'[s].status \notin Ended
      PROVE  rows[s].status \notin Ended /\ rows'[s].next > now /\ tick.op # "fail"
  <2>1. rows[s].status \notin Ended /\ s \notin raced
    BY <1>3, <1>8 DEF RowsGoOn
  <2>2. rows'[s] = Merged(tick) /\ tick.change \in Changes /\ tick.base \in Row
    BY <1>0, <1>2 DEF Activity
  <2>3. tick.change.status \notin Ended
    BY <1>8, <2>2, MergeType DEF Merged
  <2>4. tick.change.next > now
    BY <1>0, <1>1, <2>1, <2>3 DEF Fit, FitTo, Chain, TickInv
  <2>5. rows'[s].next = tick.change.next
    BY <1>0, <2>2, <2>4 DEF Merged, Merge
  <2> QED
    BY <1>0, <2>1, <2>3, <2>4, <2>5 DEF Chain, TickInv
<1>9. TickInv'
  <2>1. CASE tick'.stage = "idle"
    BY <1>2, <2>1 DEF Chain, TickInv
  <2>2. CASE tick.op = "trigger"
    BY <1>0, <1>2, <1>5, <2>2 DEF Chain, TickInv
  <2>3. CASE tick.op = "fail"
    <3>1. s \notin raced' => rows'[s].status \in Ended
      BY <1>8, <2>3
    <3> QED
      BY <1>0, <1>1, <1>2, <1>5, <2>3, <3>1 DEF Chain, TickInv
  <2> QED
    BY <1>5, <2>1, <2>2, <2>3
<1>10. \A x : Recorded(x)' = Recorded(x) /\ \A y : Top(x, y)' <=> Top(x, y)
  BY <1>2 DEF Recorded, Top
<1>11. ASSUME NEW x, x # s \/ tick.op # "trigger"
       PROVE  \A y : Before(x, y)' <=> Before(x, y)
  BY <1>2, <1>6, <1>10, <1>11 DEF Before
<1>12. ASSUME NEW x \in Schedules \ raced' PROVE Ordered(x)'
  <2>1. Ordered(x)
    BY <1>4, <1>12 DEF Chain
  <2>2. (\A v \in Recorded(x) : recordedFor[v] <= now)'
    BY <1>2, <1>10, <2>1 DEF Ordered
  <2>3. (running[x] # 0 => Top(x, running[x]))'
    BY <1>2, <1>10, <2>1 DEF Ordered
  <2>4. (Counting(x) \/ (tick.schedule = x /\ tick.stage = "delegate") => Top(x, tick.task))'
    <3>1. PICK u : u = tick.task
      OBVIOUS
    <3>2. tick'.schedule = x /\ tick'.stage = "delegate" =>
            x = s /\ tick.op = "trigger" /\ tick'.task = u
      BY <1>5, <3>1
    <3>3. x = s /\ tick.op = "trigger" => Top(x, u)
      BY <1>6, <2>1, <3>1 DEF Ordered
    <3>4. Top(x, u)' <=> Top(x, u)
      BY <1>10
    <3> QED
      BY <1>6, <3>2, <3>3, <3>4
  <2>5. (missedFor[x] # 0 => /\ rows[x].status \in Ended /\ running[x] = 0
                             /\ ~ (InTrigger /\ tick.schedule = x))'
    <3>1. rows[x].status \in Ended => rows'[x].status \in Ended
      BY <1>3, <1>12 DEF RowsGoOn
    <3>2. InTrigger' /\ tick'.schedule = x => InTrigger /\ tick.schedule = x
      BY <1>1, <1>5, <1>6
    <3> QED
      BY <1>2, <2>1, <3>1, <3>2 DEF Ordered
  <2>6. (rows[x].status \notin Ended => Before(x, rows[x].next))'
    <3>1. CASE x # s
      <4>1. rows'[x] = rows[x]
        BY <1>0, <1>2, <3>1
      <4> QED
        BY <1>11, <2>1, <3>1, <4>1 DEF Ordered
    <3>2. CASE x = s
      <4>1. \A v \in Recorded(x) : recordedFor[v] \in Nat /\ recordedFor[v] <= now
        BY <1>0, <2>1 DEF Ordered, Recorded
      <4>2. rows'[x].next \in Nat
        <5>1. Merged(tick) \in Row
          BY <1>0, MergeType DEF Merged, Activity
        <5> QED
          BY <1>0, <1>2, <3>2, <5>1 DEF Row
      <4>3. rows'[x].status \notin Ended =>
              \A v \in Recorded(x) : recordedFor[v] < rows'[x].next
        BY <1>0, <1>8, <1>12, <3>2, <4>1, <4>2
      <4> QED
        BY <1>2, <1>10, <4>3 DEF Before
    <3> QED
      BY <3>1, <3>2
  <2>7. tick'.stage # "record"
    BY <1>5
  <2> QED
    BY <2>2, <2>3, <2>4, <2>5, <2>6, <2>7 DEF Ordered
<1>13. ASSUME NEW d \in Clients PROVE Later(client[d])'
  <2>1. client[d] \in Activity /\ Steady(client[d]) /\ Sound(client[d]) /\ Later(client[d])
    BY <1>0 DEF SteadyInv, Inv, ActivityInv, Chain
  <2> DEFINE y == client[d].schedule
  <2>2. SUFFICES ASSUME client[d].stage # "idle", y \notin raced', rows'[y].status \notin Ended,
                        client[d].seen.runs = rows'[y].runs
                 PROVE  /\ rows[y].status \notin Ended /\ client[d].seen.runs = rows[y].runs
                        /\ \A z \in Int : Before(y, z) => Before(y, z)'
    <3>1. \A v, z : client[d].schedule = v => (Before(y, z)' <=> Before(v, z)')
      BY <1>2
    <3> HIDE DEF y
    <3> QED
      BY <1>0, <1>2, <1>4, <2>1, <3>1, LaterStays DEF y
  <2>3. y \in Schedules /\ y \notin raced
    BY <1>4, <2>1, <2>2 DEF Sound
  <2>4. rows[y].status \notin Ended
    BY <1>3, <2>2, <2>3 DEF RowsGoOn
  <2>5. /\ client[d].seen.runs <= rows[y].runs
        /\ client[d].seen.runs \in Nat /\ rows[y].runs \in Nat
    BY <1>0, <2>1, <2>2, <2>3 DEF Steady, SteadyTo, Activity, Row
  <2>6. y # s \/ tick.op # "trigger"
    BY <1>1, <1>3, <2>2, <2>3, <2>5
  <2>7. client[d].seen.runs = rows[y].runs
    BY <1>1, <1>3, <2>2, <2>3, <2>6
  <2> QED
    BY <1>2, <1>11, <2>4, <2>6, <2>7
<1> QED
  BY <1>7, <1>9, <1>12, <1>13 DEF Chain

(* The other steps of an activity under way.                                *)
LEMMA TickEndChain ==
  ASSUME Strong, Chain, TickReads \/ RecordMissed
                        \/ \E outcome \in {"live", "stranded"} : Delegate(outcome)
  PROVE  Chain'
<1> USE DEF Strong
<1>0. /\ tick \in Activity /\ Sound(tick) /\ now \in Nat /\ client \in [Clients -> Activity]
      /\ missedFor \in [Schedules -> Nat] /\ running \in [Schedules -> 0 .. MaxTasks]
      /\ state \in [Tasks -> {"none", "saved", "live", "stranded", "ended"}]
  BY DEF Inv, TypeOK, ActivityInv
<1>1. PICK s \in Schedules : s = tick.schedule
  BY <1>0 DEF Sound, TickReads, RecordMissed, Delegate
<1>2. /\ UNCHANGED <<now, rows, template, owner, recordedFor, up, todo, client, recovered,
                     raced>>
      /\ ~ Counting(s) /\ tick.stage # "write" /\ tick'.stage # "record"
  BY IdleType, <1>0 DEF TickReads, RecordMissed, Delegate, Counting, tables, Activity
<1>3. /\ \A x : ~ Counting(x) /\ ~ Counting(x)'
      /\ tick'.stage = "idle" \/ (TickReads /\ tick'.stage = "write" /\ tick'.op # "trigger")
  BY IdleType, <1>0, <1>2 DEF TickReads, RecordMissed, Delegate, Counting, Inv, TriggerInv,
     Activity
<1>4. ~ InTrigger' /\ tick'.stage # "delegate"
  BY <1>2, <1>3 DEF InTrigger
<1>5. SessionInv'
  <2>1. \A t \in Tasks : state'[t] # "saved"
    <3>1. CASE TickReads \/ RecordMissed
      BY <3>1 DEF TickReads, RecordMissed, Chain, SessionInv, InTrigger, tables
    <3>2. CASE \E outcome \in {"live", "stranded"} : Delegate(outcome)
      BY <1>0, <3>2 DEF Delegate, Chain, SessionInv
    <3> QED
      BY <3>1, <3>2
  <2> QED
    BY <1>2, <2>1 DEF Chain, SessionInv
<1>6. TickInv'
  <2>1. CASE tick'.stage = "idle"
    BY <1>2, <2>1 DEF Chain, TickInv
  <2>2. CASE TickReads
    <3>1. /\ tick.stage = "read" /\ tick'.stage = "write" /\ tick'.change = tick.change
          /\ tick'.op = tick.op /\ tick'.schedule = tick.schedule /\ UNCHANGED running
      BY <1>0, <2>2 DEF TickReads, Activity, tables
    <3> QED
      BY <1>2, <3>1 DEF Chain, TickInv
  <2> QED
    BY <1>3, <2>1, <2>2
<1>7. \A x : Recorded(x)' = Recorded(x)
  BY <1>2 DEF Recorded
<1>8. \A x, y : (Before(x, y)' <=> Before(x, y)) /\ (Top(x, y)' <=> Top(x, y))
  BY <1>2, <1>3, <1>7 DEF Before, Top
<1>9. ASSUME NEW x \in Schedules \ raced' PROVE Ordered(x)'
  <2>1. Ordered(x)
    BY <1>2, <1>9 DEF Chain
  <2>2. (\A v \in Recorded(x) : recordedFor[v] <= now)'
    BY <1>2, <1>7, <2>1 DEF Ordered
  <2>3. (running[x] # 0 => Top(x, running[x]))'
    <3>1. CASE running'[x] = running[x]
      BY <1>8, <2>1, <3>1 DEF Ordered
    <3>2. CASE running'[x] # running[x]
      <4>1. tick.stage = "delegate" /\ x = s /\ running'[x] = tick.task
        BY <1>0, <1>1, <3>2 DEF TickReads, RecordMissed, Delegate
      <4>2. Top(x, tick.task)
        BY <1>1, <2>1, <4>1 DEF Ordered
      <4> QED
        BY <1>8, <4>1, <4>2
    <3> QED
      BY <3>1, <3>2
  <2>4. (missedFor[x] # 0 => /\ rows[x].status \in Ended /\ running[x] = 0
                             /\ ~ (InTrigger /\ tick.schedule = x))'
    <3>1. CASE TickReads
      <4>1. UNCHANGED <<missedFor, running>>
        BY <3>1 DEF TickReads, tables
      <4> QED
        BY <1>2, <1>4, <2>1, <4>1 DEF Ordered
    <3>2. CASE RecordMissed
      <4>1. /\ UNCHANGED running /\ tick.stage = "missed"
            /\ x # s => missedFor'[x] = missedFor[x]
        BY <1>0, <1>1, <3>2 DEF RecordMissed
      <4>2. x = s => rows[x].status \in Ended /\ running[x] = 0
        BY <1>1, <1>2, <1>9, <4>1 DEF Chain, TickInv
      <4> QED
        BY <1>2, <1>4, <2>1, <4>1, <4>2 DEF Ordered
    <3>3. CASE \E outcome \in {"live", "stranded"} : Delegate(outcome)
      <4>1. /\ UNCHANGED missedFor /\ tick.stage = "delegate"
            /\ x # s => running'[x] = running[x]
        BY <1>0, <1>1, <3>3 DEF Delegate
      <4>2. x = s => missedFor[x] = 0
        BY <1>1, <2>1, <4>1 DEF Ordered, InTrigger
      <4> QED
        BY <1>2, <1>4, <2>1, <4>1, <4>2 DEF Ordered
    <3> QED
      BY <3>1, <3>2, <3>3
  <2>5. (rows[x].status \notin Ended => Before(x, rows[x].next))'
    BY <1>2, <1>8, <2>1 DEF Ordered
  <2> QED
    BY <1>2, <1>3, <1>4, <2>2, <2>3, <2>4, <2>5 DEF Ordered
<1>10. ASSUME NEW d \in Clients PROVE Later(client[d])'
  BY <1>0, <1>2, <1>8, LaterStays DEF Chain
<1> QED
  BY <1>5, <1>6, <1>9, <1>10 DEF Chain

(* Every step of the first session keeps the order of the records.          *)
LEMMA StepChain == Strong /\ ChainInv /\ [Next]_vars => ChainInv'
<1> SUFFICES ASSUME Strong, stops = 0 => Chain, [Next]_vars, stops' = 0 PROVE Chain'
  BY DEF ChainInv
<1>1. Inv' /\ stops \in Nat
  BY StepInv DEF Strong, Inv, TypeOK
<1>2. stops = 0 /\ Chain
  <2>1. stops' = stops \/ stops' = stops + 1
    BY DEF Next, TickStep, Tick, TickReads, RecordExecution, TickWrites, RecordMissed, Delegate,
           ExecuteSchedule, SkipRunning, SkipMissed, FailMissed, DropInactive, SaveTask, Clock,
           Stop, Recover, Boot, TaskEnds, CancelTask, EndTask, ClientStep, HandleResume,
           ClientReads, ClientWrites, Request, CreateSchedule, vars
  <2> QED
    BY <1>1, <2>1
<1>3. CASE TickStep
  BY <1>2, <1>3, TakeChain, SaveChain, RecordChain, TickWriteChain, TickEndChain
     DEF TickStep, ExecuteSchedule
<1>4. CASE Stop \/ Recover
  BY <1>1, <1>2, <1>4 DEF Stop, Recover, Boot, Chain, SessionInv
<1>5. CASE \E c \in Clients : ClientStep(c)
  BY <1>1, <1>2, <1>5, ClientChain
<1>6. CASE \E s \in Schedules, temp \in Templates, at \in 2 .. MaxTime :
             CreateSchedule(s, temp, at)
  BY <1>2, <1>6, CreateChain
<1>7. CASE Clock \/ (\E t \in Tasks : TaskEnds(t) \/ CancelTask(t)) \/ UNCHANGED vars
  BY <1>2, <1>7, WorldChain
<1> QED
  BY <1>3, <1>4, <1>5, <1>6, <1>7 DEF Next

(* The task of the latest record is the one that the schedule runs.         *)
LEMMA ChainStep ==
  ASSUME Strong, ChainInv, [Next]_vars, NEW t \in Tasks,
         state[t] = "none", state'[t] = "saved", stops = 0,
         NEW a, a = template[owner'[t]].after, a \notin raced \cup {None},
         NEW u \in TasksOf(a), NonTerminal(u)
  PROVE  waitsFor'[t] = u
<1> USE DEF Strong
<1>0. Chain
  BY DEF ChainInv
<1>1. PICK s \in Schedules : SaveTask(s, t)
  <2>1. \A v \in Tasks, x \in Schedules : SaveTask(x, v) => state' = [state EXCEPT ![v] = "saved"]
    BY DEF SaveTask
  <2>2. state \in [Tasks -> {"none", "saved", "live", "stranded", "ended"}]
    BY DEF Inv, TypeOK
  <2>3. (\E x \in Schedules, v \in Tasks : SaveTask(x, v)) \/ state'[t] = state[t]
        \/ state'[t] # "saved"
    BY <2>2
       DEF Next, TickStep, Tick, TickReads, RecordExecution, TickWrites, RecordMissed, Delegate,
           ExecuteSchedule, SkipRunning, SkipMissed, FailMissed, DropInactive, Clock,
           Stop, Recover, Boot, TaskEnds, CancelTask, EndTask, ClientStep, HandleResume,
           ClientReads, ClientWrites, Request, CreateSchedule, tables, vars, NonTerminal
  <2>4. PICK x \in Schedules, v \in Tasks : SaveTask(x, v)
    BY <2>3
  <2>5. v = t
    BY <2>1, <2>2, <2>4
  <2> QED
    BY <2>4, <2>5
<1>2. /\ rows[s].status = "active" /\ tick.stage = "idle" /\ owner'[t] = s
      /\ \E d \in AfterSchedule(s) : waitsFor' = [waitsFor EXCEPT ![t] = d]
  BY <1>1 DEF SaveTask, TakeToTrigger, Take, Inv, TypeOK
<1>3. a \in Schedules \ raced /\ a = template[s].after
  <2>1. template[s] \in Templates
    BY <1>0, <1>2 DEF Chain, SessionInv
  <2> QED
    BY <1>2, <2>1, SchedulingAssumption DEF Template
<1>4. u \in Tasks /\ owner[u] = a /\ running[a] = u /\ u # 0
  <2>1. state[u] # "saved"
    BY <1>0, <1>2 DEF Chain, SessionInv, InTrigger, TasksOf
  <2>2. Delegated(u) /\ u \in Tasks \ recovered /\ up
    BY <1>0, <2>1 DEF Delegated, NonTerminal, Chain, SessionInv, TasksOf
  <2> QED
    BY <2>2 DEF Inv, RunInv, TasksOf, Tasks
<1>5. Top(a, u) /\ missedFor[a] = 0
  BY <1>0, <1>3, <1>4 DEF Chain, Ordered
<1>6. recordedFor[u] \in Nat \ {0} /\ \A v \in Recorded(a) : recordedFor[v] \in Nat
  BY <1>5 DEF Top, Recorded, Inv, TypeOK
<1>7. LatestRecords(a) = {u}
  BY <1>5, <1>6 DEF LatestRecords, Top
<1>8. AfterSchedule(s) = {u}
  BY <1>3, <1>5, <1>6, <1>7 DEF AfterSchedule
<1> QED
  BY <1>2, <1>8 DEF Inv, TypeOK

(* A task that is triggered with afterScheduleId waits for the task of the  *)
(* other schedule that has not ended, whatever requests come in between, as *)
(* long as nothing crosses and the server does not stop.                    *)
THEOREM ChainsAreRespected == Spec => ChainRespected
<1>1. Spec => []Strong
  BY InitInv, StepInv, InitTime, StepTime, InitCounts, StepCounts, PTL DEF Spec, Strong
<1>2. Init => ChainInv
  BY InitChain DEF ChainInv
<1>3. Spec => [](Strong /\ ChainInv)
  BY <1>1, <1>2, StepChain, PTL DEF Spec
<1>4. Strong /\ ChainInv /\ [Next]_vars =>
        [\A t \in Tasks : state[t] = "none" /\ state'[t] = "saved" =>
           LET after == template[owner'[t]].after
           IN stops = 0 /\ after \notin raced \cup {None} =>
                \A u \in TasksOf(after) : NonTerminal(u) => waitsFor'[t] = u]_vars
  BY ChainStep
<1> QED
  BY <1>3, <1>4, PTL DEF Spec, ChainRespected
=============================================================================
