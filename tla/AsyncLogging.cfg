SPECIFICATION ALFairSpec
CONSTANTS
  rollSize_ = 3
  flushInterval_ = 1
  kCheckTimeRoll_ = 1
  kRollPerSeconds_ = 2
  MaxNow = 4
  BufferSize = 3
  LineSize = 1
  kMaxBuffers = 2
  MaxLines = 6
INVARIANTS FilesRolled WriterKeepsUp LinesInOrder
PROPERTIES LoggerCompletes
CHECK_DEADLOCK FALSE
