SPECIFICATION FairSpec
CONSTANTS
  MaxTimers = 2
  MaxTime = 4
  Requests <- MCRequests
  IntMax = 2
INVARIANTS
  TypeOK
  TimersAccounted
  NoOversleep
PROPERTIES
  RunsAreLegal
  TimersRun
