SPECIFICATION FairSpec
CONSTANTS
  DataEnabled = TRUE
  MaxFaults = 1
  WaitForClients = TRUE
  Requests = {"SUSPEND", "TERMINATE"}
  MaxCommands = 1
PROPERTY TerminateEnds
CHECK_DEADLOCK FALSE
