SPECIFICATION ELSpec
CONSTANTS
  Workers = {w1}
  MaxStarts = 1
  MaxPosts = 1
INVARIANT WakeupIsWritten
CHECK_DEADLOCK FALSE
