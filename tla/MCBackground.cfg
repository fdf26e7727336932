SPECIFICATION BackgroundSpec
CONSTANTS
  Tasks = {t1}
  Seeders = {s1}
  Relaunchers = {r1, r2}
  Exit = Exit
  Free = Free
  Dispatcher = Dispatcher
  NoTask = NoTask
  MaxSupervisors = 2
  WinTasks = {w1}
  Checkers = {"monitor"}
  NoOne = NoOne
CHECK_DEADLOCK FALSE
INVARIANTS ReadyIsDrained RunningServes
PROPERTIES ExitIsFinal EndingsSettle WindowIsObeyed
