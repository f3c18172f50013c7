SPECIFICATION Spec
CONSTANTS
  Names = {".tmp", "rules"}
  Inodes = {1, 2, 3}
  None = None
  PowerFails = TRUE
  DiskFills = TRUE
  BufLines = 2
  MaxLines = 3
  MaxSaves = 3
INVARIANT
  RulesWholeIfSpared
PROPERTY
  RulesStay
CHECK_DEADLOCK FALSE
