SPECIFICATION CoordSpec
CONSTANTS
  N = 3
  K = 2
  Bails = {0, 1}
  MaxFaults = 2
  MaxSpawnFailures = 1
  None = none
INVARIANTS CoordTypeOK FilesPartition AllFilesReported DeliveredResultsCount OneRunOutstanding
PROPERTIES DriveTerminates
CHECK_DEADLOCK FALSE
