SPECIFICATION CodecSpec
CONSTANTS
  Byte <- MCByte
  Junk = Junk
  InitLength = 3
  ExtLength = 2
  Base = 2
  Widths = {1, 2, 4}
  MaxInts = 2
INVARIANTS
  IntsArrive
  WireFormat
CHECK_DEADLOCK FALSE
