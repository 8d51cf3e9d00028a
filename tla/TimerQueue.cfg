SPECIFICATION TQFairSpec
CONSTANTS
  Addrs = {1, 2}
  Delays = {0, 1}
  Intervals = {0, 1}
  MaxTimers = 2
  MaxTime = 3
  MaxPending = 1
INVARIANTS QueueConsistent CancelledIsGone
PROPERTIES RunUnlessCancelled
CHECK_DEADLOCK FALSE
