SPECIFICATION Spec
CONSTANTS
  Tasks = {t1}
  Seeders = {s1}
  Relaunchers = {r1}
  Exit = Exit
  Free = Free
  Dispatcher = Dispatcher
  NoTask = NoTask
  MaxSupervisors = 2
CHECK_DEADLOCK FALSE
INVARIANTS NoLockCycle
