CONSTANTS
  kCheapPrepend = 2
  kInitialSize = 2
  ExtraSize = 2
  ByteBase = 4
  MaxLen = 4
  ProcCommands <- Proc
  Scripts <- SomeScripts
  Pipelining = {TRUE, FALSE}
  Callers = {t1, t2, t3}
  LoopCaller = t1
  Registered <- SomeRegistered
  FrameLen = 2
SPECIFICATION ServicesSpec
INVARIANTS BufferHolds HttpAnswers
PROPERTIES RpcCompletes
CHECK_DEADLOCK FALSE
