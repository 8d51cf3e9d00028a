SPECIFICATION TSFairSpec
CONSTANTS
  MaxThreads = 2
  Conns = {c1, c2, c3}
  MaxFds = 3
  MaxOthers = 1
INVARIANTS ConnectionsTracked Balanced
PROPERTIES ClosedIsDestroyed ClientIsServed
CHECK_DEADLOCK FALSE
