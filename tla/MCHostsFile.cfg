SPECIFICATION Spec
CONSTANTS
  Names = {"hosts.tmp", "hosts", "hosts.1"}
  Inodes = {1, 2, 3}
  None = None
  PowerFails = TRUE
  DiskFills = TRUE
  TableEntries = 2
  MaxEntries = 3
  MaxSaves = 3
INVARIANTS
  TypeOK
  HostsWhole
PROPERTIES
  HostsStay
  BackupKept
CHECK_DEADLOCK FALSE
