SPECIFICATION ScheduleSpec
CONSTANTS
  WinTasks = {w1}
  Checkers = {"monitor"}
  NoOne = NoOne
CHECK_DEADLOCK FALSE
PROPERTY ManualPauseIsKept
