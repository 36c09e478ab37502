SPECIFICATION Spec
CONSTANTS
  Requests = {c1, c2}
  Tasks = {old, t1, t2}
  OldTask = old
  NoTask = none
  Owners = {"Persistence", "Query", "Queue", "Worker", "Output", "Dependency", "Schedule", "Checkpoint", "Executor", "Waiter"}
  Events = {"TaskDelegated", "TaskEnd", "TaskStatusQuery", "TaskLogsQuery", "TaskPersisted", "TaskCancellationRequested", "TaskQueued", "OutputCaptured", "ScheduleTriggered", "ScheduleExecuted"}
  RequestTimeout = 1
  MaxRequestAge = 1
INVARIANTS TypeOK BusConsistent AcceptedCalls
PROPERTIES RequestsSettle CliReturns
CHECK_DEADLOCK FALSE
