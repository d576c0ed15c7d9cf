SPECIFICATION Spec
CONSTANTS
  DataEnabled = TRUE
  MaxFaults = 2
  WaitForClients = TRUE
  Requests = {"SUSPEND", "RESUME", "TERMINATE"}
  MaxCommands = 1
INVARIANTS TypeOK RegisteredHasSocket RunsOnLinkUnlessEarly
CHECK_DEADLOCK FALSE
