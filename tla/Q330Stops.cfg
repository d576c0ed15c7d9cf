SPECIFICATION FairSpec
CONSTANTS
  DataEnabled = TRUE
  MaxFaults = 0
  WaitForClients = TRUE
  Requests = {"SUSPEND", "TERMINATE"}
  MaxCommands = 1
PROPERTIES StopEndsOrOverruled Settles
CHECK_DEADLOCK FALSE
