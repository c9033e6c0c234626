SPECIFICATION EstSpec
CONSTANTS
  MaxSeg = 1
  RcvHiWat = 3
  MaxWin = 4
  SndHiWat = 3
  CwndSegs = 3
  RexmtThresh = 1
  MaxRxtShift = 1
  SendClamp = 10
  KeepAlive = TRUE
  Connectors = {"a"}
  Acceptors = {"b"}
  SendPlan <- ThreeBytes
  Reads = {3}
  Closers = {}
  Followers = {}
  Timers = {"rexmt", "persist"}
  Junk = {0}
  LossRates = {TRUE}
  NetCap = 3
  MaxLoss = 0
  MaxDup = 0
  MaxEarly = 1
INVARIANTS
  TypeOK
  NoAssertionFails
  SeqOrder
  RetransAccount
  NoDataLost
CHECK_DEADLOCK FALSE
