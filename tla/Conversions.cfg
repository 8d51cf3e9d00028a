CONSTANTS
  kSmallBuffer = 24
  kMaxNumericSize = 5
  MaxTime = 5
  TicksPerSecond = 2
  Texts = {1, 9}
  Numbers = {1, 4}
  MaxItems = 2
  MaxFile = 5
  SmallBuf = 3
  FirstYear = 1900
  LastYear = 2500
  MaxNumber = 1023
SPECIFICATION ConversionsSpec
INVARIANTS CalendarExact LogLinesExact ReadsThePrefix
CHECK_DEADLOCK FALSE
