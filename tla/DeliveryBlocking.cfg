CONSTANTS
  data = data
  msg = msg
  k1 = k1
  k2 = k2
  Queues = {data, msg}
  Count <- TwoRings
  Clients = {"b"}
  Kinds = {k1}
  MaxRecords = 4
  Blockers = {"b"}
  Blocking = {TRUE, FALSE}
  Starts = {"FIRST"}
  Mask <- AllRings
  Wanted <- AllKinds
  DataBufs = 1
  MaxStarts = 2
SPECIFICATION Spec
INVARIANTS BitsOnlyOnHeld BitsOnlyOfMask RecordsAscend BlockersCanTimeOut
PROPERTIES DropsOnlyOldest NothingLost RestartSkipsAcked NothingTwice
CHECK_DEADLOCK FALSE
