SPECIFICATION Spec
CONSTANTS
  MaxSeg = 2
  RcvHiWat = 8
  MaxWin = 16
  Segs <- MCSegs
  Reads <- MCReads
  Junk <- NoJunk
INVARIANT EofAfterData
CHECK_DEADLOCK FALSE
