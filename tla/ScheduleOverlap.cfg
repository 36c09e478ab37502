CONSTANTS
  s1 = s1
  s2 = s2
  c1 = c1
  None = None
  Schedules = {s1, s2}
  Clients = {c1}
  Templates <- MCTemplates
  Period = 1
  Grace = 0
  MaxTasks = 3
  MaxTime = 3
  MaxStops = 1
  MaxRequests = 1
SPECIFICATION Spec
INVARIANT NoOverlap
CHECK_DEADLOCK FALSE
