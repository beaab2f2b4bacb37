SPECIFICATION PoolFairSpec
CONSTANTS
  Workers = {1, 2}
  N = 2
  MaxStarts = 2
  MaxPosts = 1
  MaxCalls = 3
INVARIANTS
  PublishedLoopExists
  StartedMeansRunning
  PoolLoopsRun
  RoundRobin
PROPERTIES
  PoolCallsReturn
CHECK_DEADLOCK FALSE
