SPECIFICATION FairSpec
CONSTANTS
  Producers = {t1}
  Waiters = {t1}
  Capacity = 2
  MaxTasks = 2
  Failures = TRUE
  Shutdown = FALSE
  None = None
PROPERTY ErrorReaches
CHECK_DEADLOCK FALSE
