SPECIFICATION FairSpec
CONSTANTS
  Tasks = {t1, t2}
  WorkerIds = {w1, w2, w3}
  None = None
  MaxWorkers = 3
  TotalMemory = 7
  MemoryPerWorker = 2
  MemoryReserve = 1
CHECK_DEADLOCK FALSE
INVARIANTS TypeOK MemoryReserved LimitHolds NoStrayProcess
PROPERTIES SlotReturns
