SPECIFICATION FairSpec
CONSTANTS
  Programs = {"a", "b", "f"}
  Configured <- Configurations
  Foreign = {"f"}
  NoProc = NoProc
  MaxClients = 2
  MaxRecords = 2
  Procs <- Processes
INVARIANTS TypeOK OneEntryEach
PROPERTIES KeepsPlace DeadLeaveTable
CHECK_DEADLOCK FALSE
