SPECIFICATION Spec
CONSTANTS
  Tasks = {t1, t2}
  Workers = {w1, w2}
  NoTask = NoTask
  Checked = {}
  Seeders = {}
  IncludeFailures = FALSE
  ResumeBudget = 0
PROPERTIES RacedDecisionIsDropped
CHECK_DEADLOCK FALSE
