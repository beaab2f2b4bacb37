SPECIFICATION Spec
CONSTANTS
  Channel = {c1, c2, c3}
  NoChannel = NoChannel
  FirstSize = 32
  MaxPeers = 1
  MaxSends = 0
PROPERTY EraseFinds
CHECK_DEADLOCK FALSE
