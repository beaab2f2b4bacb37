SPECIFICATION FairSpec
CONSTANTS
  Fd = {f1, f2, f3}
  NoFd = NoFd
  RetryDelay = 1
  MaxDelay = 10
  MaxStops = 2
INVARIANTS
  DescriptorsOwned
  OneWayForward
  BackoffFollows
PROPERTIES
  AttemptEnds
CHECK_DEADLOCK FALSE
