SPECIFICATION PromptSpec
CONSTANTS
  Functors = {f1, f2, f3}
  Callers = {t1, t2}
  LoopThread = io
  Channels = {c1}
  wakeupChannel_ = wake
INVARIANTS NoLostWakeup NoLostQuit FunctorsConserved
PROPERTIES PromptlyServed ImplementsFunctorQueue
CHECK_DEADLOCK FALSE
