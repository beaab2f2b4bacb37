SPECIFICATION FairSpec
CONSTANTS
  Channel = {c1, c2, c3}
  NoChannel = NoChannel
  FirstSize = 1
  MaxPeers = 2
  MaxSends = 1
INVARIANTS
  RegistrationFollows
  ServerKnows
  StopClosesAccepted
PROPERTIES
  PeersAccepted
CHECK_DEADLOCK FALSE
