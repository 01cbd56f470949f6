CONSTANTS
  Session = {x1, x2}
  Base = {b1, b2}
  None = None
  MaxRedirects = 2
  MaxSends = 1
  Resolver = {x1, x2}
  Name = {n1, n2}
  Fallback = 1
  Cap = 2
  Default = 2
  WriteCaller = {x1, x2}
  none = none
  MaxWrites = 3
  WriteCap = 1
  MaxBatch = 2
  MaxChunks = 0
  ChunkLen = 1
  ReadCap = 1
SPECIFICATION MCSpec
INVARIANTS
  TypesOK ReleasedOrKnown   

  
SYMMETRY Symmetry
CHECK_DEADLOCK FALSE
