CONSTANTS
  WriteCaller = {}
  none = none
  MaxWrites = 0
  WriteCap = 1
  MaxBatch = 1
  MaxChunks = 1
  ChunkLen = 1
  ReadCap = 1
SPECIFICATION FairSpec
PROPERTIES CloseUnblocksRead
CHECK_DEADLOCK FALSE
