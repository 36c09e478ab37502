------------------------------ MODULE Services ------------------------------
(***************************************************************************)
(* A process of the program from bootstrap to exit: the container, the     *)
(* handlers subscribing to the bus, the task manager's operations as the   *)
(* MCP server and the command line call them, the query handler that       *)
(* answers them, and the two ways to stop.                                 *)
(*                                                                         *)
(* What happens to a task between its delegation and its end is the        *)
(* subject of TaskLifecycle; here a task is a row that is open until it    *)
(* ends.  Four terminal events have become one, "TaskEnd", and a queued or *)
(* running task is "queued".                                               *)
(*                                                                         *)
(* delegate() returns when all handlers of TaskDelegated have, and these   *)
(* await nothing but promises: no process can exit before the command      *)
(* line, one promise later, listens to the end of its task.                *)
(***************************************************************************)
EXTENDS EventBus

CONSTANTS
  Tasks,
  OldTask,      \* a task of an earlier process
  NoTask

(* A call of the task manager makes at most one request, by its own name.   *)
Calls == Requests

Operations == {"status", "logs", "delegate", "continue", "cancel", "retry",
               "resume"}

VARIABLES
  mode,        \* "server" (index.ts), or the one command of the command line
  stage,       \* how far the process has come
  setUp,       \* how many handlers have subscribed
  taskManager, \* the container's instance: "none", "service" or "error"
  rows,        \* the table of tasks, rows[t] = NoTask without a row
  pending,     \* the table of dependencies: those of t that are not resolved
  dropped,     \* open tasks that a cancellation has taken out of the queue
  call,        \* call[c] = [op, task, seen, step]; seen is the status that the
               \* query handler read
  serving,     \* requests whose handler is running
  waitsFor,    \* the task the command line waits for
  cancelledBySigint,
  exitCode

services == <<mode, stage, setUp, taskManager>>
callVars == <<call, serving>>
cliVars == <<waitsFor, cancelledBySigint, exitCode>>
tables == <<rows, pending, dropped>>
vars == <<busVars, services, tables, callVars, cliVars>>

(* What the handlers subscribe to, and in which order they are set up.      *)
SetupOrder == <<"Persistence", "Query", "Queue", "Worker", "Output",
                "Dependency", "Schedule", "Checkpoint">>

Subscribes(o) ==
  CASE o = "Persistence" -> {"TaskDelegated", "TaskEnd"}
    [] o = "Query"       -> {"TaskStatusQuery", "TaskLogsQuery"}
    [] o = "Queue"       -> {"TaskPersisted", "TaskCancellationRequested"}
    [] o = "Worker"      -> {"TaskQueued", "TaskCancellationRequested"}
    [] o = "Output"      -> {"OutputCaptured"}
    [] o = "Dependency"  -> {"TaskDelegated", "TaskEnd"}
    [] o = "Schedule"    -> {"ScheduleTriggered"}
    [] o = "Checkpoint"  -> {"TaskEnd"}
    [] o = "Executor"    -> {"ScheduleExecuted", "TaskEnd"}
    [] o = "Waiter"      -> {"OutputCaptured", "TaskEnd"}

Users == ToSet(SetupOrder) \cup {"Executor", "Waiter"}

(* Who has to be there for a delegated task to be saved and held back until *)
(* its dependencies have ended.                                             *)
Essential == {"Persistence", "Dependency"}

Terminal == {"completed", "failed"}

Row == [status : Terminal \cup {"queued"}, servedBy : SUBSET Owners,
        continueFrom : Tasks \cup {NoTask}, dependsOn : SUBSET Tasks,
        retryOf : Tasks \cup {NoTask}, parentTaskId : Tasks \cup {NoTask},
        retryCount : Nat]

ASSUME ServiceAssumption ==
  /\ OldTask \in Tasks /\ NoTask \notin Tasks /\ NoTask \notin Row
  /\ Users \subseteq Owners
  /\ \A o \in Users : Subscribes(o) \subseteq Events

NewRow(from, deps, original) ==
  [status |-> "queued", servedBy |-> Listeners("TaskDelegated"),
   continueFrom |-> from, dependsOn |-> deps,
   retryOf |-> original,
   parentTaskId |-> IF original = NoTask THEN NoTask
                    ELSE IF rows[original].parentTaskId # NoTask
                    THEN rows[original].parentTaskId ELSE original,
   retryCount |-> IF original = NoTask THEN 0
                  ELSE rows[original].retryCount + 1]

OldRow(status) ==
  [status |-> status, servedBy |-> Essential, continueFrom |-> NoTask,
   dependsOn |-> {}, retryOf |-> NoTask, parentTaskId |-> NoTask,
   retryCount |-> 0]

Delegations == {"delegate", "continue"}
HasRow(t) == t \in Tasks /\ rows[t] # NoTask

(* findById, or findAllUnbounded without a task *)
StatusOf(t) == CASE t = NoTask -> "all"
                 [] HasRow(t) -> rows[t].status
                 [] OTHER     -> "missing"

Fresh == {t \in Tasks \ {OldTask} : ~HasRow(t) /\ t # waitsFor}
Idle == [op |-> "none", task |-> NoTask, seen |-> "none", step |-> "idle"]
CommandLine == mode # "server"
Serves == stage \in {"ready", "stopping"}
DatabaseOpen == stage \notin {"closed", "exited"}

Init ==
  /\ BusInit
  /\ mode \in {"server"} \cup Operations
  /\ stage = "boot" /\ setUp = 0 /\ taskManager = "none"
  /\ \E s \in {"missing", "queued", "completed"} :
       rows = [t \in Tasks |-> IF t = OldTask /\ s # "missing" THEN OldRow(s)
                               ELSE NoTask]
  /\ pending = [t \in Tasks |-> {}] /\ dropped = {}
  /\ call = [c \in Calls |-> Idle]
  /\ serving = {}
  /\ waitsFor = NoTask /\ cancelledBySigint = FALSE /\ exitCode = -1

-----------------------------------------------------------------------------
(* Starting: bootstrap(), then the factory of taskManager. *)

(* Only the server has a schedule executor; it listens before all others.   *)
Bootstrap ==
  /\ stage = "boot"
  /\ stage' = "settingUp"
  /\ IF mode = "server" THEN Subscribe("Executor", Subscribes("Executor"))
     ELSE UNCHANGED listening
  /\ UNCHANGED <<requests, mode, setUp, taskManager, tables,
                 callVars, cliVars>>

(* setup(eventBus) or create() of the next handler.                         *)
SetUpNext ==
  /\ stage = "settingUp" /\ setUp < Len(SetupOrder)
  /\ LET o == SetupOrder[setUp + 1] IN Subscribe(o, Subscribes(o))
  /\ setUp' = setUp + 1
  /\ UNCHANGED <<requests, mode, stage, taskManager, tables,
                 callVars, cliVars>>

(* Mutant: the service is returned although its handlers are not there. *)
SetUpFailsUnnoticed ==
  /\ stage = "settingUp" /\ setUp < Len(SetupOrder)
  /\ SetupOrder[setUp + 1] = "Dependency"
  /\ taskManager' = "service" /\ stage' = "ready"
  /\ UNCHANGED <<busVars, mode, setUp, tables, callVars, cliVars>>

(* The table of dependencies cannot be read.  The handlers set up so far    *)
(* stay subscribed: none has a teardown().  The factory returns the error,  *)
(* which the container keeps as the instance of taskManager.                *)
SetUpFails ==
  /\ stage = "settingUp" /\ setUp < Len(SetupOrder)
  /\ SetupOrder[setUp + 1] = "Dependency"
  /\ taskManager' = "error" /\ stage' = "ready"
  /\ UNCHANGED <<busVars, mode, setUp, tables, callVars, cliVars>>

SetUpDone ==
  /\ stage = "settingUp" /\ setUp = Len(SetupOrder)
  /\ taskManager' = "service" /\ stage' = "ready"
  /\ UNCHANGED <<busVars, mode, setUp, tables, callVars, cliVars>>

-----------------------------------------------------------------------------
(* Events that end or create a task. *)

(* The terminal event of t: the row is updated, the rows of those that      *)
(* depend on t are resolved, and the command line that waits for t has its  *)
(* exit code and unsubscribes (resolveOnce).                                *)
EmitTaskEnd(t, s) ==
  /\ rows' = IF /\ DatabaseOpen /\ HasRow(t)
                /\ "Persistence" \in Listeners("TaskEnd")
             THEN [rows EXCEPT ![t].status = s] ELSE rows
  /\ pending' = IF DatabaseOpen /\ "Dependency" \in Listeners("TaskEnd")
                THEN [u \in Tasks |-> pending[u] \ {t}] ELSE pending
  /\ dropped' = dropped \ {t}
  /\ IF t = waitsFor /\ "Waiter" \in Listeners("TaskEnd")
     THEN /\ exitCode' = IF s = "completed" THEN 0 ELSE 1
          /\ Unsubscribe("Waiter")
     ELSE UNCHANGED <<exitCode, listening>>

(* The call returns: what is left of it is its result. *)
Finish(c, result) == call' = [call EXCEPT ![c] = [Idle EXCEPT !.step = result]]

(* Mutant: the command line listens to the end of its task when it gets to  *)
(* it, and the task may have ended by then.                                 *)
WaitLater(t) ==
  /\ waitsFor' = t
  /\ \/ Subscribe("Waiter", Subscribes("Waiter"))
     \/ UNCHANGED listening

WaitForTaskCompletion(t) ==
  /\ waitsFor' = t
  /\ Subscribe("Waiter", Subscribes("Waiter"))

(* TaskDelegated.  The bus does not tell delegate() that a save has failed. *)
(* A dependency is pending whether or not it has ended.                     *)
(* If the spawn of a process fails, emit() and delegate() never return      *)
(* (WorkerSpawning, LockAlwaysReleased).  Ids are new until Tasks runs out. *)
EmitTaskDelegated(c, row) ==
  /\ Fresh # {}
  /\ \E saved \in BOOLEAN, returns \in BOOLEAN :
     LET t == CHOOSE new \in Fresh : TRUE
     IN
       /\ returns \/ saved
       /\ rows' = IF saved THEN [rows EXCEPT ![t] = row] ELSE rows
       /\ pending' = IF saved THEN [pending EXCEPT ![t] = row.dependsOn] ELSE pending
       /\ Finish(c, IF returns THEN "ok" ELSE "hangs")
       /\ IF mode \in Delegations /\ returns
          THEN WaitForTaskCompletion(t) ELSE UNCHANGED <<waitsFor, listening>>
  /\ UNCHANGED <<dropped, cancelledBySigint, exitCode>>

-----------------------------------------------------------------------------
(* Calls, as the MCP tools and the commands make them. *)

Query(op) == IF op = "logs" THEN "TaskLogsQuery" ELSE "TaskStatusQuery"

(* The handler of a query is called at once, and reads the table at once.   *)
Ask(c, op, t) ==
  /\ Request(c, Query(op))
  /\ call' = [call EXCEPT ![c].op = op, ![c].task = t, ![c].step = "asked",
                          ![c].seen = StatusOf(t)]
  /\ serving' = serving \cup {c}

Sigint(op, t) == stage = "ready" /\ op = "cancel" /\ t = waitsFor

(* A command makes one call; SIGINT cancels the task it waits for. *)
MayCall(op, t) ==
  \/ mode = "server" /\ Serves
  \/ mode = op /\ stage = "ready" /\ \A c \in Calls : call[c].step = "idle"
  \/ Sigint(op, t)

(* The instance of taskManager is an error: it has no such method. *)
CallFails(c, op, t) ==
  /\ call[c].step = "idle" /\ MayCall(op, t) /\ taskManager = "error"
  /\ Finish(c, "failed")
  /\ UNCHANGED <<busVars, services, tables, serving, cliVars>>

DelegateTask(c) ==
  /\ call[c].step = "idle" /\ taskManager = "service"
  /\ MayCall("delegate", NoTask)
  /\ EmitTaskDelegated(c, NewRow(NoTask, {}, NoTask))
  /\ UNCHANGED <<requests, services, serving>>

(* QueueHandler takes a task that is cancelled out of the queue at once, if *)
(* it is there.                                                             *)
TakeFromQueue(op, t) ==
  \/ UNCHANGED dropped
  \/ /\ op = "cancel" /\ HasRow(t) /\ rows[t].status = "queued" /\ pending[t] = {}
     /\ dropped' = dropped \cup {t}

StartCall(c, op, t) ==
  /\ call[c].step = "idle" /\ MayCall(op, t) /\ taskManager = "service"
  /\ Ask(c, op, t)
  /\ TakeFromQueue(op, t)
  /\ cancelledBySigint' = (cancelledBySigint \/ Sigint(op, t))
  /\ UNCHANGED <<listening, services, rows, pending, waitsFor, exitCode>>

TaskStatus(c) == \E t \in Tasks \cup {NoTask} : StartCall(c, "status", t)
TaskLogs(c) == \E t \in Tasks : StartCall(c, "logs", t)
CancelTask(c) == \E t \in Tasks : StartCall(c, "cancel", t)
RetryTask(c) == \E t \in Tasks : StartCall(c, "retry", t)
ResumeTask(c) == \E t \in Tasks : StartCall(c, "resume", t)
ContinueTask(c) == \E t \in Tasks : StartCall(c, "continue", t)

(* The query handler answers, or fails; it may take any time.  There are no *)
(* logs of a task without a row.                                            *)
QueryAnswers(c) ==
  /\ c \in serving
  /\ serving' = serving \ {c}
  /\ \E o \in {"value", "error"} :
       /\ call[c].op = "logs" /\ call[c].seen = "missing" => o = "error"
       /\ Respond(c, o)
  /\ UNCHANGED <<listening, services, tables, call, cliVars>>

-----------------------------------------------------------------------------
(* What the callers do with the answer. *)

Answered(c, op) ==
  /\ stage # "exited" /\ call[c].op = op /\ call[c].step = "asked"
  /\ outcome[c] \in {"value", "error"}
Found(c) == outcome[c] = "value" /\ call[c].seen # "missing"

Tell(c) ==
  /\ Finish(c, IF Found(c) THEN "ok" ELSE "failed")
  /\ UNCHANGED <<busVars, services, tables, serving, cliVars>>

GetStatus(c) == Answered(c, "status") /\ Tell(c)
GetLogs(c) == Answered(c, "logs") /\ Tell(c)

(* handleTaskCancellation of WorkerHandler.  Its refusals do not reach the  *)
(* caller, who is told that the task is cancelled, and do not put a task    *)
(* back into the queue.  kill() fails if the worker is gone.                *)
Cancel(c) ==
  /\ Answered(c, "cancel")
  /\ \/ /\ Found(c) /\ call[c].seen = "queued"
        /\ EmitTaskEnd(call[c].task, "failed")
     \/ /\ Found(c) /\ call[c].seen = "queued" => call[c].task \notin dropped
        /\ UNCHANGED <<tables, exitCode, listening>>
  /\ Finish(c, "ok")
  /\ UNCHANGED <<requests, services, serving, waitsFor, cancelledBySigint>>

(* delegate() with continueFrom; dependsOn names the task already or not.   *)
DelegateContinue(c) ==
  /\ Answered(c, "continue")
  /\ LET from == call[c].task
     IN IF Found(c)
        THEN \E deps \in {{}, {from}} :
               EmitTaskDelegated(c, NewRow(from, deps \cup {from}, NoTask))
        ELSE Finish(c, "failed") /\ UNCHANGED <<tables, listening, cliVars>>
  /\ UNCHANGED <<requests, services, serving>>

(* Mutant: a task that has not ended is tried again. *)
TryAnyAgain(c) ==
  /\ IF Found(c)
     THEN EmitTaskDelegated(c, NewRow(NoTask, {}, call[c].task))
     ELSE Finish(c, "failed") /\ UNCHANGED <<tables, listening, cliVars>>
  /\ UNCHANGED <<requests, services, serving>>

TryAgain(c) ==
  /\ IF Found(c) /\ call[c].seen \in Terminal
     THEN EmitTaskDelegated(c, NewRow(NoTask, {}, call[c].task))
     ELSE Finish(c, "failed") /\ UNCHANGED <<tables, listening, cliVars>>
  /\ UNCHANGED <<requests, services, serving>>

Retry(c) == Answered(c, "retry") /\ TryAgain(c)

(* The prompt has the latest checkpoint in it, or has not. *)
Resume(c) == Answered(c, "resume") /\ TryAgain(c)

(* A task ends, unless it is out of the queue, or the row of a dependency   *)
(* is pending: of one that has not ended, or that had ended before the task *)
(* was delegated (TaskLifecycle, TerminalIsResolved).                       *)
TaskEnds(t, s) ==
  /\ Serves /\ HasRow(t) /\ rows[t].status = "queued"
  /\ pending[t] = {} /\ t \notin dropped
  /\ EmitTaskEnd(t, s)
  /\ UNCHANGED <<requests, services, callVars, waitsFor, cancelledBySigint>>

-----------------------------------------------------------------------------
(* Stopping. *)

(* A command ends when its call does: with its task's exit code, with 1 if  *)
(* there is no task, or without a task.                                     *)
Over(c) == CommandLine /\ stage = "ready" /\ call[c].step \in {"ok", "failed"}
ResultCode(c) == IF call[c].step = "ok" THEN 0 ELSE 1

(* process.exit() at once: what is pending is lost with the process. *)
CommandEnds(c) ==
  /\ Over(c) /\ mode \notin Delegations
  /\ stage' = "exited" /\ exitCode' = ResultCode(c)
  /\ DropRequests /\ serving' = {}
  /\ UNCHANGED <<listening, mode, setUp, taskManager, tables, call,
                 waitsFor, cancelledBySigint>>

(* container.dispose(): workers are killed and the database closed.  The    *)
(* schedule executor, if it does not exist yet, is made to be stopped: it   *)
(* subscribes and unsubscribes.                                             *)
DisposeContainer(c) ==
  /\ Over(c) /\ mode \in Delegations
  /\ stage' = "closed"
  /\ IF waitsFor = NoTask THEN exitCode' = 1
     ELSE exitCode # -1 /\ UNCHANGED exitCode
  /\ UNCHANGED <<busVars, mode, setUp, taskManager, tables, callVars,
                 waitsFor, cancelledBySigint>>

(* The bus is disposed of, and the process exits. *)
DisposeEnds ==
  /\ stage = "closed" /\ stage' = "exited"
  /\ DisposeBus /\ serving' = {}
  /\ exitCode' = IF cancelledBySigint THEN 130 ELSE exitCode
  /\ UNCHANGED <<mode, setUp, taskManager, tables, call, waitsFor,
                 cancelledBySigint>>

(* SIGTERM or SIGINT to the server: autoscaler and executor are stopped and *)
(* the workers killed; calls are accepted until the connection is closed.   *)
Shutdown ==
  /\ mode = "server" /\ stage = "ready" /\ stage' = "stopping"
  /\ Unsubscribe("Executor")
  /\ UNCHANGED <<requests, mode, setUp, taskManager, tables, callVars, cliVars>>

ServerExits ==
  /\ stage = "stopping" /\ stage' = "exited" /\ exitCode' = 0
  /\ DropRequests /\ serving' = {}
  /\ UNCHANGED <<listening, mode, setUp, taskManager, tables, call, waitsFor,
                 cancelledBySigint>>

-----------------------------------------------------------------------------
Timers ==
  /\ stage \notin {"boot", "exited"}
  /\ Tick \/ CleanupStaleRequests \/ \E c \in Calls : TimeoutFires(c)
  /\ UNCHANGED <<services, tables, callVars, cliVars>>

SetUpStep == Bootstrap \/ SetUpNext \/ SetUpDone

Asks(c) ==
  \/ TaskStatus(c) \/ TaskLogs(c) \/ CancelTask(c)
  \/ RetryTask(c) \/ ResumeTask(c) \/ ContinueTask(c)

Continue(c) ==
  \/ GetStatus(c) \/ GetLogs(c) \/ Cancel(c)
  \/ DelegateContinue(c) \/ Retry(c) \/ Resume(c)

Ends == DisposeEnds \/ \E c \in Calls : CommandEnds(c) \/ DisposeContainer(c)

Next ==
  \/ SetUpStep \/ SetUpFails
  \/ \E c \in Calls :
       \/ DelegateTask(c) \/ Asks(c) \/ QueryAnswers(c) \/ Continue(c)
       \/ \E op \in Operations, t \in Tasks : CallFails(c, op, t)
  \/ \E t \in Tasks, s \in Terminal : TaskEnds(t, s)
  \/ Ends \/ Shutdown \/ ServerExits
  \/ Timers

(* Code runs on, timers fire, and a task that runs ends: every task has a   *)
(* timeout.  Nobody has to call or to stop the server, and no handler has   *)
(* to answer.                                                               *)
Fairness ==
  /\ WF_vars(SetUpStep) /\ WF_vars(Timers) /\ WF_vars(Ends)
  /\ \A c \in Calls : WF_vars(Continue(c))
  /\ \A t \in Tasks : WF_vars(\E s \in Terminal : TaskEnds(t, s))

Spec == Init /\ [][Next]_vars /\ Fairness

-----------------------------------------------------------------------------
TypeOK ==
  /\ BusTypeOK
  /\ mode \in {"server"} \cup Operations
  /\ stage \in {"boot", "settingUp", "ready", "stopping", "closed", "exited"}
  /\ setUp \in 0..Len(SetupOrder)
  /\ taskManager \in {"none", "service", "error"}
  /\ rows \in [Tasks -> Row \cup {NoTask}]
  /\ pending \in [Tasks -> SUBSET Tasks] /\ dropped \subseteq Tasks
  /\ call \in [Calls ->
       [op : Operations \cup {"none"}, task : Tasks \cup {NoTask},
        seen : Terminal \cup {"queued", "missing", "all", "none"},
        step : {"idle", "asked", "ok", "failed", "hangs"}]]
  /\ serving \subseteq Calls /\ waitsFor \in Tasks \cup {NoTask}
  /\ exitCode \in {-1, 0, 1, 130}

(* Subscriptions and pending requests are the same in both of the bus's     *)
(* tables through set-up, failures, waiting commands and disposal.          *)
BusConsistent == SubscriptionsAgree /\ PendingAgrees

(* A task is created only when the handlers that save it and guard its      *)
(* dependencies listen; one that continues another names it among its       *)
(* dependencies; one that retries or resumes another comes after its end,   *)
(* one retry further in a chain with a single root.  All of it is decided   *)
(* on an answer that may be late (task-manager.ts delegate, retry, resume). *)
AcceptedCalls ==
  \A t \in Tasks \ {OldTask} : HasRow(t) =>
    LET row == rows[t]
    IN /\ Essential \subseteq row.servedBy
       /\ row.continueFrom # NoTask =>
            HasRow(row.continueFrom) /\ row.continueFrom \in row.dependsOn
       /\ row.retryOf # NoTask =>
            /\ StatusOf(row.retryOf) \in Terminal
            /\ row.retryCount = rows[row.retryOf].retryCount + 1
            /\ HasRow(row.parentTaskId)
            /\ rows[row.parentTaskId].retryOf = NoTask

(* Every request is settled once, by an answer, an error or the timeout,    *)
(* also if its handler never answers; a late answer changes nothing         *)
(* (event-bus.ts request).  It takes a cleaning interval no shorter than    *)
(* the timeout: cleaning forgets a request without settling it.             *)
Replies == INSTANCE RequestReply
RequestsSettle == Replies!Spec

(* Nothing will end t: it waits for a task that had ended before t came, or *)
(* the query of a cancellation that has taken t out of the queue has failed *)
(* or timed out.                                                            *)
Stranded(t) ==
  /\ HasRow(t)
  /\ \/ \E d \in pending[t] : StatusOf(d) \in Terminal
     \/ /\ t \in dropped
        /\ \A c \in Calls : call[c].op = "cancel" => call[c].step # "asked"

(* A command returns: it never waits for an event that is past, unless its  *)
(* task was never saved, which nobody tells it, or is stranded, or a failed *)
(* spawn holds it up.  It exits with what became of the task, or with 130   *)
(* after SIGINT (cli/commands/delegate.ts).                                 *)
CliReturns ==
  /\ \A c \in Calls :
       (CommandLine /\ call[c].step # "idle") ~>
         \/ stage = "exited"
         \/ waitsFor # NoTask /\ (~HasRow(waitsFor) \/ Stranded(waitsFor))
         \/ \E d \in Calls : call[d].step = "hangs"
  /\ [](stage = "exited" /\ waitsFor # NoTask =>
          exitCode = IF cancelledBySigint THEN 130
                     ELSE IF rows[waitsFor].status = "completed" THEN 0 ELSE 1)
=============================================================================
