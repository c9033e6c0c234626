SPECIFICATION FairEstSpec
CONSTANTS
  MaxSeg = 1
  RcvHiWat = 2
  MaxWin = 4
  SndHiWat = 2
  CwndSegs = 2
  RexmtThresh = 2
  MaxRxtShift = 3
  SendClamp = 10
  KeepAlive = FALSE
  Connectors = {"a"}
  Acceptors = {"b"}
  SendPlan <- OneByte
  Reads = {1}
  Closers = {"a"}
  Followers = {"b"}
  Timers = {"rexmt", "persist", "msl"}
  Junk = {0}
  LossRates = {FALSE}
  NetCap = 2
  MaxLoss = 1
  MaxDup = 1
  MaxEarly = 0
INVARIANTS
  AcksTruthful
PROPERTIES
  AllClosed
CHECK_DEADLOCK FALSE
