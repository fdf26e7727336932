SPECIFICATION Spec
CONSTANTS
  NoTask = NoTask
  Tasks = {t1, t2}
  Workers = {w1, w2}
  Checked = {t1}
  Seeders = {t2}
  IncludeFailures = FALSE
  ResumeBudget = 1
INVARIANTS RoundDecidedOnce
PROPERTIES RecordedFailureCounts VerificationHoldsAction DrainIsDecided
CHECK_DEADLOCK FALSE
