SPECIFICATION FairSpec
CONSTANTS
  MaxBytes = 3
  MaxSend = 2
  MaxOps = 2
  RoomMax = 2
INVARIANTS
  StreamIntact
  PendingIsWatched
  EndsOnce
  DestroyedUnregistered
PROPERTIES
  RefinesTcpStream
  ShutdownFinishes
  PeerEndNoticed
CHECK_DEADLOCK FALSE
