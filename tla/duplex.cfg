SPECIFICATION EstSpec
CONSTANTS
  MaxSeg = 1
  RcvHiWat = 2
  MaxWin = 4
  SndHiWat = 2
  CwndSegs = 2
  RexmtThresh = 2
  MaxRxtShift = 1
  SendClamp = 10
  KeepAlive = TRUE
  Connectors = {"a"}
  Acceptors = {"b"}
  SendPlan <- OneEach
  Reads = {1}
  Closers = {}
  Followers = {}
  Timers = {"rexmt", "persist", "keep"}
  Junk = {0}
  LossRates = {FALSE}
  NetCap = 2
  MaxLoss = 0
  MaxDup = 0
  MaxEarly = 0
INVARIANTS
  WindowHonest
CHECK_DEADLOCK FALSE
