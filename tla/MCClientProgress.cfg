CONSTANTS
  WriteCaller = {w1, w2}
  none = none
  MaxWrites = 2
  WriteCap = 1
  MaxBatch = 2
  MaxChunks = 3
  ChunkLen = 2
  ReadCap = 1
  MaxDials = 2
  MaxUp = 1
  MaxDown = 1
  QueueSize = 1
SPECIFICATION MCSpec
INVARIANTS
  DownloadInOrder
PROPERTIES
  StreamEndReachesReader CloseEndsPumps  ExchangesEnd
CHECK_DEADLOCK FALSE
