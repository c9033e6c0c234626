SPECIFICATION MCSpec
CONSTANTS
  Users = {u1}
  Sockets = {s1}
  Reqs = {1, 2}
  NoSock = NoSock
  MaxRuns = 2
  QueueMax = 3
  MaxWork = 3
  MaxAgain = 1
  Threads = {t1, t2, t3}
  Addrs = {p1, p2, p3}
  NULL = NULL
  Ends = {e1, e2}
  Paths = {lan, wan}
  Natted = {wan}
  MaxTimeouts = 2
  MaxFaults = 1
  MaxEvents = 2
  Copies = 3
  Hops = {1500, 1492, 1006, 600}
  SilentBelow = 1006
  Limits = {1500, 1492}
  Samples = {1, 30, 102}
  MaxSamples = 3
INVARIANTS
  WaiterServed
  SlotOwned
  PendingOwned
  RunIsClean
  Owned
  GetIsLive
  PunchAgreement
  NatVerdict
  MtuFits
  RttFits
  Patience
PROPERTIES
  InvokeReturns
  RequestAnswered
  PunchEnds
  PunchBoth
  NatOneShot
  MtuOneShot
  BackoffMonotone
CHECK_DEADLOCK FALSE
