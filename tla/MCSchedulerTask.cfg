SPECIFICATION Spec
CONSTANTS
  Tasks = {t1}
  Workers = {w1, w2}
  Users = {u1, u2}
  NoTask = NoTask
  NoWorker = NoWorker
  Free = Free
  Dispatcher = Dispatcher
  MaxActive = 2
  MaxAutoRetry = 1
  CommandBudget = 2
  CrashBudget = 1
SYMMETRY Symmetry
CHECK_DEADLOCK FALSE
INVARIANTS OneOwner StopIsQuiet StopFindsHandle
PROPERTIES CompletedIsKept DrainedRowIsStill
