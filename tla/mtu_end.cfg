SPECIFICATION MtuSpec
CONSTANTS
  Copies = 3
  Hops = {1500, 1000}
  SilentBelow = 68
  Limits = {1500, 1492}
INVARIANT MarkerIsNoMtu
CHECK_DEADLOCK FALSE
