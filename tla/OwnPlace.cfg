SPECIFICATION Spec
CONSTANTS
  Programs = {"a", "f"}
  Configured <- NoneNamed
  Foreign = {"f"}
  NoProc = NoProc
  MaxClients = 2
  MaxRecords = 2
  Procs <- OnceEach
PROPERTY KeepsPlaceEver
CHECK_DEADLOCK FALSE
