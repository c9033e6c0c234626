SPECIFICATION EstSpec
CONSTANTS
  MaxSeg = 1
  RcvHiWat = 2
  MaxWin = 4
  SndHiWat = 3
  CwndSegs = 2
  RexmtThresh = 2
  MaxRxtShift = 1
  SendClamp = 10
  KeepAlive = FALSE
  Connectors = {"a"}
  Acceptors = {"b"}
  SendPlan <- ThreeBytes
  Reads = {1}
  Closers = {"b"}
  Followers = {}
  Timers = {"rexmt", "persist"}
  Junk = {0}
  LossRates = {FALSE}
  NetCap = 2
  MaxLoss = 0
  MaxDup = 0
  MaxEarly = 0
INVARIANT TimerArmed
CHECK_DEADLOCK FALSE
