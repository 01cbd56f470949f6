CONSTANTS
  BufSize = 2
  WriteSizes = {1, 3}
  ReadSizes = {1, 3}
  MaxBytes = 5
  Kind = {"localSocks", "forward", "inbound", "exit", "obfsClient", "obfsExternal", "obfsServer", "httpProxy"}
  MaxData = 2
  Resolver = {r1, r2}
  Name = {n1}
  None = None
  Fallback = 1
  Cap = 1
  Default = 1
SPECIFICATION MCSpec
INVARIANTS
  TypesOK StreamIntact LossHasAReason NothingLeftOpen DialsWhatWasAsked
PROPERTIES
  RelayEnds 
CHECK_DEADLOCK FALSE
