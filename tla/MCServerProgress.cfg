CONSTANTS
  Size <- BoundarySizes
  Padding <- BoundaryPadding
  Budget <- BoundaryBudgets
  Block = 1024
  Buffer = 1500
  MaxChunks = 2
  Client = {k1}
  Handler = {h1, h2}
  MaxQueues = 2
  MaxDown = 1
  MaxUp = 1
  QueueSize = 1
  Conn = {c1, c2, c3}
  None = None
  MaxStreams = 0
  Addr = {a1, a2}
  Timeout = 1
  MaxTime = 3
SPECIFICATION MCSpec

  
PROPERTIES
  HandlersEnd OverIsCleanedUp IdleIsForgotten
CHECK_DEADLOCK FALSE
