SPECIFICATION DPSpec
CONSTANTS
  Channels = {c1, c2, c3}
  Writers = {c2}
  Hanging = {c2}
  kInitEventListSize = 1
INVARIANT IndexFollows
PROPERTIES AssertsHold ImplementsPoller NoStarvation
CHECK_DEADLOCK FALSE
