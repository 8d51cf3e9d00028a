SPECIFICATION TCLFairSpec
CONSTANTS
  Fds = {1, 2}
  kInitRetryDelayMs = 1
  kMaxRetryDelayMs = 2
  MaxCalls = 3
INVARIANTS SocketsOwned AttemptsBounded OnlyKnownFailures
PROPERTIES ConnectsInTheEnd
CHECK_DEADLOCK FALSE
