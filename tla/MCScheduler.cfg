SPECIFICATION Spec
CONSTANTS
  Tasks = {t1, t2}
  Workers = {w1, w2}
  Users = {u1}
  NoTask = NoTask
  NoWorker = NoWorker
  Free = Free
  Dispatcher = Dispatcher
  MaxActive = 1
  MaxAutoRetry = 1
  CommandBudget = 1
  CrashBudget = 0
SYMMETRY Symmetry
CHECK_DEADLOCK FALSE
INVARIANTS ActiveBound LiveRowHasOwner
