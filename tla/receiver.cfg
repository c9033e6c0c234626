SPECIFICATION Spec
CONSTANTS
  MaxSeg = 2
  RcvHiWat = 8
  MaxWin = 16
  Segs <- MCSegs
  Reads <- MCReads
  Junk <- NoJunk
INVARIANTS
  TypeOK
  InOrderDelivery
  AckHonest
  AppendFits
  SackHonest
  EofIsComplete
CHECK_DEADLOCK FALSE
