SPECIFICATION Spec
CONSTANTS
  Punctual = TRUE
  p1 = p1
  p2 = p2
  Procs <- MCProcs
  Nobody = Nobody
  NameOf <- MCName
  NoName = ""
  SlotName <- MCSlotReserved
  NSlots = 2
  MaxProc = 1
  Own <- MCOne
  Mortal <- MCOne
  Watched <- MCProcs
  MaxCrashes = 1
INVARIANTS TypeOK   NoLeftover 
PROPERTY ImplementsRequestReply
CHECK_DEADLOCK FALSE
