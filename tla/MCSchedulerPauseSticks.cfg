SPECIFICATION Spec
CONSTANTS
  Tasks = {t1}
  Workers = {w1, w2}
  Users = {u1, u2}
  NoTask = NoTask
  NoWorker = NoWorker
  Free = Free
  Dispatcher = Dispatcher
  MaxActive = 1
  MaxAutoRetry = 1
  CommandBudget = 1
  CrashBudget = 0
CHECK_DEADLOCK FALSE
PROPERTY PauseSticks
