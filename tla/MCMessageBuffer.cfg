SPECIFICATION Spec
CONSTANTS
  Byte <- MCByte
  Junk = Junk
  InitLength = 2
  ExtLength = 2
  MaxWrite = 3
  MaxContent = 3
INVARIANTS
  CapacityBounded
PROPERTY
  RefinesByteStream
