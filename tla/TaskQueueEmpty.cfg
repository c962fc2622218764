SPECIFICATION FairSpec
CONSTANTS
  Producers = {t1}
  Waiters = {t2}
  Capacity = 2
  MaxTasks = 2
  Failures = TRUE
  Shutdown = TRUE
  None = None
INVARIANT EmptyMeansExecuted
PROPERTIES
  EmptyReturns
  DestroyReturns
CHECK_DEADLOCK FALSE
