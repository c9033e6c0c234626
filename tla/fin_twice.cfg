SPECIFICATION EstSpec
CONSTANTS
  MaxSeg = 1
  RcvHiWat = 2
  MaxWin = 4
  SndHiWat = 2
  CwndSegs = 2
  RexmtThresh = 2
  MaxRxtShift = 1
  SendClamp = 10
  KeepAlive = FALSE
  Connectors = {"a"}
  Acceptors = {"b"}
  SendPlan <- OneEach
  Reads = {1}
  Closers = {"a"}
  Followers = {"b"}
  Timers = {"rexmt", "persist", "msl"}
  Junk = {0}
  LossRates = {FALSE}
  NetCap = 2
  MaxLoss = 0
  MaxDup = 0
  MaxEarly = 0
INVARIANT AckWithinSent
CHECK_DEADLOCK FALSE
