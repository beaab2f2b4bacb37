SPECIFICATION Spec
CONSTANTS
  Entry = {e1, e2}
  BucketNum = 2
  MaxTicks = 5
  MaxDelay = 9
  MaxRefs = 2
INVARIANTS
  TypeOK
  ReleasedOnTime
  NoneOutlivesWheels
CHECK_DEADLOCK FALSE
