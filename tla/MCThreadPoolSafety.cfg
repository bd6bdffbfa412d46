CONSTANTS
  Workers = {w1, w2}
  Main = main
  None = none
  a = a
  b = b
  k1 = k1
  k2 = k2
  k3 = k3
  Tasks <- FamilyTasks
  Batches <- FamilyBatches
  Kids <- FamilyKids
  IdleTasks = {i}
  CAPACITY = 2
  max_threads = 2
  WarmCount = 1
  MaxSpawnFails = 1
  DropEarly = TRUE
CHECK_DEADLOCK FALSE
SYMMETRY Symmetry
SPECIFICATION Spec
INVARIANTS TypeOK OneWakingThread SyncCounts ExactlyOnce PoolOutlivesWorkers
  StacksOutliveAccess IdleTasksRunBeforeFree
PROPERTIES WaitForAllMeansDone
