SPECIFICATION ThreadFairSpec
CONSTANTS
  Functors = {f1, f2}
  Callers = {owner}
  Owner = owner
  LoopThread = io
  Channels = {c1}
  wakeupChannel_ = wake
PROPERTY JoinReturns
CHECK_DEADLOCK FALSE
