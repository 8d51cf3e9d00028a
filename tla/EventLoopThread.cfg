SPECIFICATION ThreadPromptSpec
CONSTANTS
  Functors = {f1, f2}
  Callers = {owner}
  Owner = owner
  LoopThread = io
  Channels = {c1}
  wakeupChannel_ = wake
INVARIANTS StartedLoopUsable
PROPERTIES StartsAndEnds
CHECK_DEADLOCK FALSE
