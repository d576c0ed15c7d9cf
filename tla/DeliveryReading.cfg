CONSTANTS
  data = data
  msg = msg
  k1 = k1
  k2 = k2
  Queues = {data, msg}
  Count <- EvenRings
  Clients = {"b"}
  Kinds = {k1, k2}
  MaxRecords = 5
  Blockers = {}
  Blocking = {FALSE}
  Starts = {"FIRST", "NEXT", "LAST"}
  Mask <- AllRings
  Wanted <- FirstKind
  DataBufs = 1
  MaxStarts = 2
SPECIFICATION Spec
INVARIANTS TypeOK
PROPERTIES InOrderUnlessLapped
CHECK_DEADLOCK FALSE
