SPECIFICATION Spec
CONSTANTS
  Names = {".tmp", "rules"}
  Inodes = {1, 2, 3}
  None = None
  PowerFails = TRUE
  DiskFills = FALSE
  BufLines = 2
  MaxLines = 4
  MaxSaves = 3
INVARIANTS
  RulesWhole
CHECK_DEADLOCK FALSE
