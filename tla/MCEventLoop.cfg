SPECIFICATION FairSpec
CONSTANTS
  t1 = t1
  t2 = t2
  e1 = e1
  e2 = e2
  Threads <- MCThreads
  Value <- MCValue
  NoValue = NoValue
INVARIANTS
  NoLostWakeup
  NoLostStop
PROPERTIES
  FunctorsRun
  StopReturns
CHECK_DEADLOCK FALSE
