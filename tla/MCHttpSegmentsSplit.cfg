SPECIFICATION Spec
CONSTANTS
  Size = 4
  InitialSegments = 1
  MaxSegments = 2
  MinRemaining = 2
  MaxWorkers = 2
  Chunks = {2}
  ChannelBound = 1
  RestartBudget = 1
CHECK_DEADLOCK FALSE
INVARIANT RowsStayResumable
