----------------------------- MODULE Scheduling -----------------------------
(***************************************************************************)
(* Schedules: the executor's tick (services/schedule-executor.ts), the     *)
(* handler of triggers (services/handlers/schedule-handler.ts) and the     *)
(* requests to pause, resume and cancel (services/schedule-manager.ts).    *)
(*                                                                         *)
(* A trigger is several writes to the database: the task, the execution    *)
(* record, the schedule's row.  The row is updated by reading it, merging  *)
(* fields and writing all of it back (SQLiteScheduleRepository.update).    *)
(* The server may stop between two of these steps, and requests may come   *)
(* in between: the command line is a process of its own on the same        *)
(* database.                                                               *)
(*                                                                         *)
(* Time counts grace units; a tick takes no time.  The tasks that triggers *)
(* create live on as in TaskLifecycle, here only as their four states.     *)
(***************************************************************************)
EXTENDS Integers, FiniteSets

CONSTANTS
  Schedules,
  Templates,     \* what createSchedule may be asked for
  Clients,       \* requests in progress, each a process or an MCP call
  None,
  Period,        \* cron schedules are due at its multiples
  Grace,         \* missedRunGracePeriodMs
  MaxTasks, MaxTime, MaxStops, MaxRequests   \* bounds

Template == [type : {"cron", "one_time"}, policy : {"skip", "catchup", "fail"},
             maxRuns : Nat, expiresAt : Nat, after : Schedules \cup {None}]

ASSUME SchedulingAssumption ==
  /\ Templates \subseteq Template
  /\ None \notin Schedules
  /\ Period \in Nat \ {0}
  /\ {Grace, MaxTasks, MaxTime, MaxStops, MaxRequests} \subseteq Nat

Tasks == 1..MaxTasks

VARIABLES
  now,
  rows,         \* table schedules: status, nextRunAt (0: NULL), runCount
  template,     \* its columns that never change
  state,        \* of a task: none, saved, live, stranded, ended
  owner,        \* the schedule that created the task
  waitsFor,     \* the dependency injected for afterScheduleId
  recordedFor,  \* table schedule_executions: scheduled_for of a task's record
  missedFor,    \* scheduled_for of a schedule's `missed' record
  up,           \* is the server running?
  running,      \* runningSchedules
  todo,         \* the rows findDue returned that are still to be handled
  tick,         \* what the executor or handler is doing
  client,       \* what each client is doing
  stops, requests, \* counts, bounded
  recovered,    \* history: tasks of an earlier session
  raced         \* history: schedules triggered or written on the strength of
                \* a row that had changed meanwhile

tables == <<rows, template, state, owner, waitsFor, recordedFor, missedFor>>
vars == <<now, tables, up, running, todo, tick, client, stops, requests,
          recovered, raced>>

Ended == {"completed", "cancelled", "expired"}
NoRow == [status |-> "none", next |-> 0, runs |-> 0]
Idle == [stage |-> "idle", op |-> None, schedule |-> None, task |-> 0,
         seen |-> NoRow, base |-> NoRow, change |-> NoRow]

Init ==
  /\ now = 1
  /\ rows = [s \in Schedules |-> NoRow]
  /\ template = [s \in Schedules |-> None]
  /\ state = [t \in Tasks |-> "none"]
  /\ owner = [t \in Tasks |-> None]
  /\ waitsFor = [t \in Tasks |-> 0]
  /\ recordedFor = [t \in Tasks |-> 0]
  /\ missedFor = [s \in Schedules |-> 0]
  /\ up = TRUE
  /\ running = [s \in Schedules |-> 0]
  /\ todo = << >>
  /\ tick = Idle
  /\ client = [c \in Clients |-> Idle]
  /\ stops = 0
  /\ requests = 0
  /\ recovered = {}
  /\ raced = {}

(* getNextRunTime: the first time after `t' that the expression names. *)
NextRunTime(t) == ((t \div Period) + 1) * Period

-----------------------------------------------------------------------------
(* The rows of schedules. *)

(* handleScheduleCreated, for a request that createSchedule accepts: the    *)
(* time of a one-time schedule is in the future.  afterScheduleId is not    *)
(* checked, but ids are generated: only an existing one can be known.       *)
CreateSchedule(s, temp, at) ==
  /\ rows[s].status = "none"
  /\ temp.after # None => rows[temp.after].status # "none"
  /\ at > now
  /\ temp.type = "cron" => at = NextRunTime(now)
  /\ rows' = [rows EXCEPT ![s] = [status |-> "active", next |-> at, runs |-> 0]]
  /\ template' = [template EXCEPT ![s] = temp]
  /\ UNCHANGED <<now, state, owner, waitsFor, recordedFor, missedFor, up, running,
                 todo, tick, client, stops, requests, recovered, raced>>

(* Mutant: an absent status overwrites the old one. *)
MergeStatus(base, change) ==
  [status |-> change.status,
   next |-> IF change.next = -1 THEN base.next ELSE change.next,
   runs |-> IF change.runs = -1 THEN base.runs ELSE change.runs]

(* update: the fields of `change' over the row read before.  Fields are     *)
(* absent from `change' when their value is -1 or "same".                   *)
Merge(base, change) ==
  [status |-> IF change.status = "same" THEN base.status ELSE change.status,
   next |-> IF change.next = -1 THEN base.next ELSE change.next,
   runs |-> IF change.runs = -1 THEN base.runs ELSE change.runs]

Change(status, next, runs) == [status |-> status, next |-> next, runs |-> runs]

Merged(a) == Merge(a.base, a.change)

(* The second half of update.  A row that has changed since activity `a'    *)
(* looked at it first is overwritten all the same.                          *)
WriteRow(a) ==
  /\ rows' = [rows EXCEPT ![a.schedule] = Merged(a)]
  /\ raced' = IF rows[a.schedule] # a.seen THEN raced \cup {a.schedule} ELSE raced

-----------------------------------------------------------------------------
(* Requests.  fetchScheduleOrError looks at the row, the handler's update   *)
(* reads it again and writes it.  MaxRequests bounds pauses and             *)
(* cancellations; a resumption needs a pause.                               *)

(* Mutant: a cancelled schedule keeps its time. *)
CancelKeepsTime(op) ==
  CASE op = "pause"  -> Change("paused", -1, -1)
    [] op = "cancel" -> Change("cancelled", -1, -1)
    [] op = "resume" -> NoRow

Requested(op) ==
  CASE op = "pause"  -> Change("paused", -1, -1)
    [] op = "cancel" -> Change("cancelled", 0, -1)
    [] op = "resume" -> NoRow   \* handleScheduleResumed decides

(* Mutant: pausing does not ask for an active schedule. *)
AcceptedAlways(op, row) == row.status # "none"

Accepted(op, row) ==
  CASE op = "pause"  -> row.status = "active"
    [] op = "cancel" -> row.status # "none"
    [] op = "resume" -> row.status = "paused"

Request(c, op, s) ==
  /\ client[c].stage = "idle"
  /\ Accepted(op, rows[s])
  /\ op # "resume" => requests < MaxRequests
  /\ requests' = IF op = "resume" THEN requests ELSE requests + 1
  /\ client' = [client EXCEPT ![c] =
       [Idle EXCEPT !.stage = IF op = "resume" THEN "handle" ELSE "read",
                    !.op = op, !.schedule = s, !.seen = rows[s],
                    !.change = Requested(op)]]
  /\ UNCHANGED <<now, tables, up, running, todo, tick, stops, recovered, raced>>

(* handleScheduleResumed: a cron schedule gets a new time, a one-time       *)
(* schedule keeps the one it has.                                           *)
HandleResume(c) ==
  /\ client[c].stage = "handle"
  /\ LET s == client[c].schedule
         next == IF template[s].type = "cron" THEN NextRunTime(now) ELSE rows[s].next
     IN client' = [client EXCEPT ![c].stage = "read",
                                 ![c].change = Change("active", next, -1)]
  /\ UNCHANGED <<now, tables, up, running, todo, tick, stops, requests, recovered, raced>>

ClientReads(c) ==
  /\ client[c].stage = "read"
  /\ client' = [client EXCEPT ![c].stage = "write",
                              ![c].base = rows[client[c].schedule]]
  /\ UNCHANGED <<now, tables, up, running, todo, tick, stops, requests, recovered, raced>>

ClientWrites(c) ==
  /\ client[c].stage = "write"
  /\ WriteRow(client[c])
  /\ client' = [client EXCEPT ![c] = Idle]
  /\ UNCHANGED <<now, template, state, owner, waitsFor, recordedFor, missedFor, up,
                 running, todo, tick, stops, requests, recovered>>

ClientStep(c) ==
  \/ HandleResume(c) \/ ClientReads(c) \/ ClientWrites(c)
  \/ \E op \in {"pause", "resume", "cancel"}, s \in Schedules : Request(c, op, s)

-----------------------------------------------------------------------------
(* The executor. *)

Due(s) == rows[s].status = "active" /\ rows[s].next # 0 /\ rows[s].next <= now

TickIdle == tick.stage = "idle" /\ todo = << >>

(* tick: findDue. *)
Tick ==
  /\ up /\ TickIdle
  /\ \E s \in Schedules : Due(s)
  /\ todo' = [s \in {x \in Schedules : Due(x)} |-> rows[s]]
  /\ UNCHANGED <<now, tables, up, running, tick, client, stops, requests, recovered,
                 raced>>

(* The rows are handled in the order of nextRunAt. *)
Take(s) ==
  /\ tick.stage = "idle"
  /\ s \in DOMAIN todo
  /\ \A x \in DOMAIN todo : todo[s].next <= todo[x].next
  /\ todo' = [x \in DOMAIN todo \ {s} |-> todo[x]]

(* Mutant: the executor does not look. *)
NeverRunning(s) == FALSE

IsScheduleRunning(s) == running[s] # 0

Missed(s) == now - todo[s].next > Grace

(* The run is tried again on the next tick. *)
SkipRunning(s) ==
  /\ Take(s)
  /\ IsScheduleRunning(s)
  /\ UNCHANGED <<now, tables, up, running, tick, client, stops, requests, recovered,
                 raced>>

(* Mutant: a skipped one-time schedule stays as it is. *)
SkipCronOnly(s) ==
  Change("same", IF template[s].type = "cron" THEN NextRunTime(now) ELSE -1, -1)

(* Mutant: a skipped run is counted. *)
SkipCounts(s) ==
  IF template[s].type = "one_time"
  THEN Change("completed", 0, todo[s].runs + 1)
  ELSE Change("same", NextRunTime(now), todo[s].runs + 1)

(* updateNextRun *)
UpdateNextRun(s) ==
  IF template[s].type = "one_time"
  THEN Change("completed", 0, -1)
  ELSE Change("same", NextRunTime(now), -1)

SkipMissed(s) ==
  /\ Take(s)
  /\ ~ IsScheduleRunning(s)
  /\ Missed(s) /\ template[s].policy = "skip"
  /\ tick' = [Idle EXCEPT !.stage = "read", !.op = "skip", !.schedule = s,
                          !.seen = todo[s], !.change = UpdateNextRun(s)]
  /\ UNCHANGED <<now, tables, up, running, client, stops, requests, recovered, raced>>

FailMissed(s) ==
  /\ Take(s)
  /\ ~ IsScheduleRunning(s)
  /\ Missed(s) /\ template[s].policy = "fail"
  /\ tick' = [Idle EXCEPT !.stage = "read", !.op = "fail", !.schedule = s,
                          !.seen = todo[s], !.change = Change("cancelled", 0, -1)]
  /\ UNCHANGED <<now, tables, up, running, client, stops, requests, recovered, raced>>

TakeToTrigger(s) ==
  /\ Take(s)
  /\ ~ IsScheduleRunning(s)
  /\ Missed(s) => template[s].policy = "catchup"

DropInactive(s) ==
  /\ TakeToTrigger(s)
  /\ rows[s].status # "active"
  /\ UNCHANGED <<now, tables, up, running, tick, client, stops, requests, recovered,
                 raced>>

Fresh(t) == state[t] = "none" /\ \A u \in 1 .. t - 1 : state[u] # "none"

NonTerminal(t) == state[t] \in {"saved", "live", "stranded"}

Recorded(s) == {t \in Tasks : owner[t] = s /\ recordedFor[t] # 0}

(* Mutant: the history is read in ascending order. *)
OldestRecords(s) == {t \in Recorded(s) : \A u \in Recorded(s) : recordedFor[t] <= recordedFor[u]}

LatestRecords(s) == {t \in Recorded(s) : \A u \in Recorded(s) : recordedFor[u] <= recordedFor[t]}

(* The dependency injected for afterScheduleId: the task of the execution   *)
(* that was scheduled for the latest time, if it has one (a missed run has  *)
(* none) and it has not ended.  Ties may be broken in any way.              *)
AfterSchedule(s) ==
  LET a == template[s].after
      latest == IF a = None THEN {} ELSE LatestRecords(a)
      tasks == {t \in latest : missedFor[a] <= recordedFor[t]}
      noTask == \A t \in latest : missedFor[a] >= recordedFor[t]
  IN {IF NonTerminal(t) THEN t ELSE 0 : t \in tasks} \cup (IF noTask THEN {0} ELSE {})

(* Mutant: the limit is passed by one. *)
AfterTriggerLate(s, runs) ==
  LET temp == template[s]
      status == IF temp.expiresAt # 0 /\ now >= temp.expiresAt THEN "expired"
                ELSE IF temp.maxRuns # 0 /\ runs > temp.maxRuns THEN "completed"
                ELSE IF temp.type = "one_time" THEN "completed" ELSE "same"
  IN Change(status, IF status = "same" THEN NextRunTime(now) ELSE 0, runs)

(* The new fields of a triggered row: the later tests overrule the earlier. *)
AfterTrigger(s, runs) ==
  LET temp == template[s]
      status == IF temp.expiresAt # 0 /\ now >= temp.expiresAt THEN "expired"
                ELSE IF temp.maxRuns # 0 /\ runs >= temp.maxRuns THEN "completed"
                ELSE IF temp.type = "one_time" THEN "completed" ELSE "same"
  IN Change(status, IF status = "same" THEN NextRunTime(now) ELSE 0, runs)

(* handleScheduleTriggered as far as the new task in table tasks. *)
SaveTask(s, t) ==
  /\ TakeToTrigger(s)
  /\ rows[s].status = "active"
  /\ Fresh(t)
  /\ state' = [state EXCEPT ![t] = "saved"]
  /\ owner' = [owner EXCEPT ![t] = s]
  /\ \E d \in AfterSchedule(s) : waitsFor' = [waitsFor EXCEPT ![t] = d]
  /\ tick' = [Idle EXCEPT !.stage = "record", !.op = "trigger", !.schedule = s,
                          !.task = t, !.seen = rows[s],
                          !.change = AfterTrigger(s, rows[s].runs + 1)]
  /\ raced' = IF rows[s] # todo[s] THEN raced \cup {s} ELSE raced
  /\ UNCHANGED <<now, rows, template, recordedFor, missedFor, up, running, client,
                 stops, requests, recovered>>

(* recordExecution, and the first half of update. *)
RecordExecution ==
  /\ tick.stage = "record"
  /\ recordedFor' = [recordedFor EXCEPT ![tick.task] =
                       IF tick.seen.next # 0 THEN tick.seen.next ELSE now]
  /\ tick' = [tick EXCEPT !.stage = "write", !.base = rows[tick.schedule]]
  /\ UNCHANGED <<now, rows, template, state, owner, waitsFor, missedFor, up, running,
                 todo, client, stops, requests, recovered, raced>>

TickReads ==
  /\ tick.stage = "read"
  /\ tick' = [tick EXCEPT !.stage = "write", !.base = rows[tick.schedule]]
  /\ UNCHANGED <<now, tables, up, running, todo, client, stops, requests, recovered,
                 raced>>

TickWrites ==
  /\ tick.stage = "write"
  /\ WriteRow(tick)
  /\ tick' = CASE tick.op = "trigger" -> [tick EXCEPT !.stage = "delegate"]
               [] tick.op = "fail"    -> [tick EXCEPT !.stage = "missed"]
               [] OTHER               -> Idle
  /\ UNCHANGED <<now, template, state, owner, waitsFor, recordedFor, missedFor, up,
                 running, todo, client, stops, requests, recovered>>

RecordMissed ==
  /\ tick.stage = "missed"
  /\ missedFor' = [missedFor EXCEPT ![tick.schedule] = tick.seen.next]
  /\ tick' = Idle
  /\ UNCHANGED <<now, rows, template, state, owner, waitsFor, recordedFor, up, running,
                 todo, client, stops, requests, recovered, raced>>

(* TaskDelegated and ScheduleExecuted, which markScheduleRunning answers.   *)
(* No process can end in between.  A full queue refuses the task: it stays  *)
(* in the database and no event tells.                                      *)
Delegate(outcome) ==
  /\ tick.stage = "delegate"
  /\ outcome \in {"live", "stranded"}
  /\ state' = [state EXCEPT ![tick.task] = outcome]
  /\ running' = [running EXCEPT ![tick.schedule] = tick.task]
  /\ tick' = Idle
  /\ UNCHANGED <<now, rows, template, owner, waitsFor, recordedFor, missedFor, up,
                 todo, client, stops, requests, recovered, raced>>

ExecuteSchedule(s) ==
  \/ SkipRunning(s) \/ SkipMissed(s) \/ FailMissed(s) \/ DropInactive(s)
  \/ \E t \in Tasks : SaveTask(s, t)

TickStep ==
  \/ Tick \/ TickReads \/ RecordExecution \/ TickWrites \/ RecordMissed
  \/ \E outcome \in {"live", "stranded"} : Delegate(outcome)
  \/ \E s \in Schedules : ExecuteSchedule(s)

-----------------------------------------------------------------------------
(* The world around. *)

(* clearRunningScheduleByTask: only the entry that names the task. *)
ClearRunning(t) == [s \in Schedules |-> IF running[s] = t THEN 0 ELSE running[s]]

EndTask(t) ==
  /\ up /\ TickIdle
  /\ state' = [state EXCEPT ![t] = "ended"]
  /\ running' = ClearRunning(t)
  /\ UNCHANGED <<now, rows, template, owner, waitsFor, recordedFor, missedFor, up, todo,
                 tick, client, stops, requests, recovered, raced>>

(* A task runs to its end once its dependency has ended; recovery enqueues  *)
(* tasks without asking for that.                                           *)
TaskEnds(t) ==
  /\ state[t] = "live"
  /\ waitsFor[t] # 0 /\ t \notin recovered => ~ NonTerminal(waitsFor[t])
  /\ EndTask(t)

CancelTask(t) == state[t] \in {"live", "stranded"} /\ EndTask(t)

(* A tick and a request take milliseconds, a unit of time takes minutes. *)
Clock ==
  /\ now < MaxTime
  /\ TickIdle
  /\ \A c \in Clients : client[c].stage = "idle"
  /\ now' = now + 1
  /\ UNCHANGED <<tables, up, running, todo, tick, client, stops, requests, recovered,
                 raced>>

(* The server stops anywhere; requests of other processes go on. *)
Stop ==
  /\ up
  /\ stops < MaxStops
  /\ up' = FALSE
  /\ running' = [s \in Schedules |-> 0]
  /\ todo' = << >>
  /\ tick' = Idle
  /\ stops' = stops + 1
  /\ UNCHANGED <<now, tables, client, requests, recovered, raced>>

(* RecoveryManager enqueues what has not ended, tasks that no trigger       *)
(* delegated included; tasks running for too long, `stale', are failed.     *)
(* runningSchedules starts empty.                                           *)
Boot(stale) ==
  /\ ~ up
  /\ stale \subseteq {t \in Tasks : state[t] = "live"}
  /\ up' = TRUE
  /\ state' = [t \in Tasks |-> IF t \in stale THEN "ended"
                               ELSE IF NonTerminal(t) THEN "live" ELSE state[t]]
  /\ recovered' = {t \in Tasks : state[t] # "none"}
  /\ UNCHANGED <<now, rows, template, owner, waitsFor, recordedFor, missedFor, running,
                 todo, tick, client, stops, requests, raced>>

Recover == \E stale \in SUBSET Tasks : Boot(stale)

Next ==
  \/ TickStep \/ Clock \/ Stop \/ Recover
  \/ \E t \in Tasks : TaskEnds(t) \/ CancelTask(t)
  \/ \E c \in Clients : ClientStep(c)
  \/ \E s \in Schedules, temp \in Templates, at \in 2 .. MaxTime :
       CreateSchedule(s, temp, at)

Spec == Init /\ [][Next]_vars

(* The tick timer and the event loop go on and a stopped server is started  *)
(* again.  Processes end, between ticks: strong fairness since in the model *)
(* one tick may follow another at once.                                     *)
FairSpec ==
  /\ Spec
  /\ WF_vars(TickStep)
  /\ WF_vars(Recover)
  /\ SF_vars(\E t \in Tasks : TaskEnds(t))

-----------------------------------------------------------------------------
(* Properties. *)

Status == {"none", "active", "paused"} \cup Ended
Row == [status : Status, next : Nat, runs : Nat]
Changes == [status : Status \cup {"same"}, next : Nat \cup {-1}, runs : Nat \cup {-1}]
Activity ==
  [stage : {"idle", "handle", "read", "record", "write", "delegate", "missed"},
   op : {"pause", "cancel", "resume", "skip", "fail", "trigger", None},
   schedule : Schedules \cup {None}, task : 0 .. MaxTasks,
   seen : Row, base : Row, change : Changes]

(* Every variable has its type; a row of table schedules always has a       *)
(* status that ScheduleStatus names, whichever fields a write merges.       *)
TypeOK ==
  /\ rows \in [Schedules -> Row]
  /\ template \in [Schedules -> Templates \cup {None}]
  /\ state \in [Tasks -> {"none", "saved", "live", "stranded", "ended"}]
  /\ owner \in [Tasks -> Schedules \cup {None}]
  /\ waitsFor \in [Tasks -> 0 .. MaxTasks]
  /\ recordedFor \in [Tasks -> Nat]
  /\ missedFor \in [Schedules -> Nat]
  /\ running \in [Schedules -> 0 .. MaxTasks]
  /\ DOMAIN todo \subseteq Schedules
  /\ \A s \in DOMAIN todo : todo[s] \in Row
  /\ tick \in Activity
  /\ client \in [Clients -> Activity]
  /\ now \in Nat /\ stops \in Nat /\ requests \in Nat /\ up \in BOOLEAN
  /\ recovered \subseteq Tasks
  /\ raced \subseteq Schedules

TasksOf(s) == {t \in Tasks : owner[t] = s}

Delegated(t) == state[t] \in {"live", "stranded"}

(* runningSchedules does its work within one session of the server: of the  *)
(* tasks a schedule has triggered since the start, at most one has not      *)
(* ended.                                                                   *)
OneExecutionAtATime ==
  \A s \in Schedules : \A t, u \in TasksOf(s) \ recovered :
    Delegated(t) /\ Delegated(u) => t = u

(* A schedule is triggered at most as often as maxRuns allows, a one-time   *)
(* schedule once; a stop of the server in the middle of a trigger repeats   *)
(* it at most once.                                                         *)
RunLimit ==
  \A s \in Schedules \ raced : template[s] # None =>
    LET limit == IF template[s].type = "one_time" THEN 1 ELSE template[s].maxRuns
    IN limit # 0 => Cardinality(TasksOf(s)) <= limit + stops

Triggering(s) == tick.schedule = s /\ tick.stage \in {"record", "write"}

(* The three accounts of a schedule's runs agree: runCount, the records in  *)
(* schedule_executions and the tasks, except for the trigger under way and  *)
(* one for each stop of the server.                                         *)
RunsMatchHistory ==
  \A s \in Schedules \ raced :
    LET unsettled == stops + (IF Triggering(s) THEN 1 ELSE 0)
    IN /\ rows[s].runs <= Cardinality(Recorded(s))
       /\ Cardinality(TasksOf(s)) <= rows[s].runs + unsettled

(* Runs are counted: the accounts agree, and the limit holds. *)
RunsCounted == RunLimit /\ RunsMatchHistory

(* An active schedule has a time at which it will run, one that has ended   *)
(* has none; over all orders of triggers, missed runs and requests.         *)
TimeMatchesStatus ==
  \A s \in Schedules \ raced :
    /\ rows[s].status = "active" => rows[s].next # 0
    /\ rows[s].status \in Ended => rows[s].next = 0

(* A schedule that is completed, cancelled or expired never becomes active  *)
(* or paused again, unless a request and a trigger have crossed.            *)
EndedIsFinal ==
  [][\A s \in Schedules :
       rows[s].status \in Ended => rows'[s].status \in Ended \/ s \in raced']_vars

(* afterScheduleId: a new task waits for the task of the other schedule     *)
(* that has not ended.  (After a stop there may be two such tasks.)         *)
ChainRespected ==
  [][\A t \in Tasks : state[t] = "none" /\ state'[t] = "saved" =>
       LET after == template[owner'[t]].after
       IN stops = 0 /\ after \notin raced \cup {None} =>
            \A u \in TasksOf(after) : NonTerminal(u) => waitsFor'[t] = u]_vars

(* A due schedule is handled: it runs, or its missed run is skipped or      *)
(* fails it.  Only a task that a full queue has refused may prevent it, and *)
(* the bound on tasks.                                                      *)
EveryDueScheduleIsHandled ==
  \A s \in Schedules :
    Due(s) ~> \/ ~ Due(s)
              \/ \E t \in Tasks : state[t] = "stranded"
              \/ \A t \in Tasks : state[t] # "none"

(* The comment of runningSchedules: it prevents concurrent execution of the *)
(* same schedule.                                                           *)
NoOverlap ==
  \A s \in Schedules : \A t, u \in TasksOf(s) :
    Delegated(t) /\ Delegated(u) => t = u
=============================================================================
