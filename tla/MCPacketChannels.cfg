CONSTANTS
  MaxDials = 3
  MaxUp = 3
  MaxDown = 3
  QueueSize = 2
  Client = {k1, k2}
  Handler = {h1, h2}
  MaxQueues = 2
SPECIFICATION MCSpec
INVARIANTS
  TypesOK WritersKeepOrder
PROPERTIES
  ImplementsPacketChannel ServerImplementsPacketChannel
SYMMETRY Symmetry
CHECK_DEADLOCK FALSE
