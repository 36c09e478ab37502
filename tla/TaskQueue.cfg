SPECIFICATION Spec
CONSTANTS
  Tasks = {t1, t2}
  Priorities = {0, 1}
  MaxQueueSize = 6
  MaxInsertions = 6
SYMMETRY Symmetry
CHECK_DEADLOCK FALSE
INVARIANT HeapSound
PROPERTIES QueueSpec
