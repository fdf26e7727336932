SPECIFICATION Spec
CONSTANTS
  Tasks = {t1, t2}
  InitialLists <- TwoRows
  StoreNavs = {"all", "downloading"}
  MaxChanges = 3
  MaxEvents = 6
  MaxOverlap = 2
  UndoTasks = {u1, u2}
  StackLimit = 2
  MaxToasts = 3
  MaxPointer = 1
  RowTasks = {r1}
  MaxCommands = 2
  MaxTurns = 2
  Urls = {url1, url2}
  FullSize = 1
  MaxSlots = 2
  MaxPreviewTasks = 2
  MaxListeners = 1
  MaxReloads = 1
  SettingFields = {"dir", "limit"}
  SetElsewhere = {"limit"}
  MaxSettingEdits = 2
  SettingCalls = {1, 2}
  SettingReads = {1, 2}
  MaxCaptureEdits = 3
  CaptureCalls = {1, 2}
  CaptureReads = {1, 2}
CHECK_DEADLOCK FALSE
INVARIANTS StoreSettles AnnouncedOnce DeletionIsSettled RefusalIsExplained PreviewIsSound AutosaveIsSound DraftIsPending
