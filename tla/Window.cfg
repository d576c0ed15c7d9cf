SPECIFICATION FairSpec
CONSTANTS
  SeqMod = 8
  NBufs = 4
  WinBufs = 2
  AckCnt = 2
  AckTo = 1
  OpenAfter = 2
  SendWin = 2
  MaxAge = 6
  First = 6
  Last = 11
  MaxBreaks = 1
INVARIANTS TypeOK BuffersInWindow 
PROPERTIES ImplementsOrderedFeed AllArrive
CHECK_DEADLOCK FALSE
