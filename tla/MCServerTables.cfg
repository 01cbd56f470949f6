CONSTANTS
  Client = {k1, k2}
  Conn = {c1, c2, c3, c4}
  None = None
  MaxStreams = 1
  Addr = {c1, c2, c3, c4}
  Timeout = 2
  MaxTime = 4
  MaxQueues = 5
SPECIFICATION MCSpec
INVARIANTS
  TypesOK OneSessionPerClient IndexedHeap
PROPERTIES
  ForgetsTheIdle ImplementsSendQueues
SYMMETRY Symmetry
CHECK_DEADLOCK FALSE
