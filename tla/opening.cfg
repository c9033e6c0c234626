SPECIFICATION FairSpec
CONSTANTS
  MaxSeg = 1
  RcvHiWat = 2
  MaxWin = 4
  SndHiWat = 2
  CwndSegs = 2
  RexmtThresh = 2
  MaxRxtShift = 3
  SendClamp = 10
  KeepAlive = FALSE
  Connectors = {"a", "b"}
  Acceptors = {"b"}
  SendPlan <- NoSends
  Reads = {}
  Closers = {"a", "b"}
  Followers = {}
  Timers = {"rexmt", "persist", "msl"}
  Junk = {0}
  LossRates = {FALSE}
  NetCap = 2
  MaxLoss = 2
  MaxDup = 1
  MaxEarly = 0
INVARIANTS
  HandshakeAgreement
  FinAgreement
PROPERTY AllConnected
CHECK_DEADLOCK FALSE
