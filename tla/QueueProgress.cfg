SPECIFICATION FairSpec
CONSTANTS
  Punctual = FALSE
  p1 = p1
  p2 = p2
  Procs <- MCProcs
  Nobody = Nobody
  NameOf <- MCName
  NoName = ""
  SlotName <- MCSlotOpen
  NSlots = 1
  MaxProc = 1
  Own <- MCProcs
  Mortal <- MCOne
  Watched = {}
  MaxCrashes = 0
PROPERTY SlotsDrain CallReturns
CHECK_DEADLOCK FALSE
