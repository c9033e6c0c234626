SPECIFICATION FairEstSpec
CONSTANTS
  MaxSeg = 2
  RcvHiWat = 3
  MaxWin = 6
  SndHiWat = 5
  CwndSegs = 2
  RexmtThresh = 1
  MaxRxtShift = 3
  SendClamp = 10
  KeepAlive = FALSE
  Connectors = {"a"}
  Acceptors = {"b"}
  SendPlan <- Shorts
  Reads = {2}
  Closers = {}
  Followers = {}
  Timers = {"rexmt", "persist"}
  Junk = {0}
  LossRates = {FALSE}
  NetCap = 2
  MaxLoss = 1
  MaxDup = 0
  MaxEarly = 0
INVARIANTS
  TimerArmed
  SentWhole
  TimersExclusive
PROPERTIES
  StreamSpec
  AllDelivered
CHECK_DEADLOCK FALSE
