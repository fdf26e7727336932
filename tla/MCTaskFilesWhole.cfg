SPECIFICATION FilesSpec
CONSTANTS
  FileTasks = {f1, f2}
  FileNames = {n1, n2}
  NoFile = NoFile
  UserFile = UserFile
  MaxActs = 2
SYMMETRY FileSymmetry
CHECK_DEADLOCK FALSE
INVARIANT WholeFiles
