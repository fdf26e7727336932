SPECIFICATION ServingSpec
CONSTANTS
  Tasks = {t1, t2}
  Workers = {w1}
  Users = {u1}
  NoTask = NoTask
  NoWorker = NoWorker
  Free = Free
  Dispatcher = Dispatcher
  MaxActive = 1
  MaxAutoRetry = 0
  CommandBudget = 1
  CrashBudget = 0
CHECK_DEADLOCK FALSE
PROPERTIES CancelledRunsEnd CommandsReturn QueuedIsServed
