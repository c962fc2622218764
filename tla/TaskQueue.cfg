SPECIFICATION FairSpec
CONSTANTS
  Producers = {t1}
  Waiters = {t1}
  Capacity = 4
  MaxTasks = 5
  Failures = TRUE
  Shutdown = FALSE
  None = None
INVARIANTS
  TypeOK
  ReleasedInOrder
PROPERTIES
  KeepsOrder
  EnqueueReturns
  TasksRun
CHECK_DEADLOCK FALSE
