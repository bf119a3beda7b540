CONSTANTS
  HeadSize = 2
  Text = 1
  Page = 1
  Script = 1
  FileSize = {0, 1, 3}
  Inode = {1, 2, 3}
  Directory = {3}
SPECIFICATION Spec
INVARIANTS Accounted UnreadableExplained Released
PROPERTIES ImplementsStream WholeFile
CHECK_DEADLOCK FALSE
