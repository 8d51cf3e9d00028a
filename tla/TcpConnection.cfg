SPECIFICATION TCFairSpec
CONSTANTS
  MaxMessages = 2
  MaxLen = 3
  MaxUnread = 1
  highWaterMark_ = 3
INVARIANTS StreamInOrder PeerSeesPrefix OutputDrains EndsOnce
PROPERTY OrderlyEnd
CHECK_DEADLOCK FALSE
