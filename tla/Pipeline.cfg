SPECIFICATION MCSpec
CONSTANTS
  p1 = p1
  p2 = p2
  Packets = {p1, p2}
  Records = {p1}
  NoPacket = NoPacket
  QueueSize = 20
  Late = 1
INVARIANTS TypeOK CountMatchesSlots FlowTypeOK
PROPERTIES ImplementsDropOldest NoneGivenUp Recovers
CHECK_DEADLOCK FALSE
