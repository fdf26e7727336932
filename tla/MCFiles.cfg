SPECIFICATION PartsSpec
CONSTANTS
  Size = 4
  InitialSegments = 2
  MaxSegments = 3
  MinRemaining = 2
  MaxWorkers = 2
  Chunks = {2}
  ChannelBound = 1
  RestartBudget = 1
  FileTasks = {f1, f2}
  FileNames = {n1, n2}
  NoFile = NoFile
  UserFile = UserFile
  MaxActs = 2
SYMMETRY FileSymmetry
CHECK_DEADLOCK FALSE
INVARIANTS DurableProgress SegmentsTile PublishedIsWhole FilesAreSound
PROPERTIES ProgressIsKept PauseKeepsProgress WritesAreOwned
