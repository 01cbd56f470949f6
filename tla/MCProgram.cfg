CONSTANTS
  NumEntries = 3
  Obfs4 = {1, 2}
  MaxMade = 4
  MaxStarts = 4
  NoPort = NoPort
  p1 = p1
  p2 = p2
  p3 = p3
  p4 = p4
  p5 = p5
  MaxOthers = 1
  Handler = {h1, h2}
  NumListeners = 2
  MaxSignals = 2
SPECIFICATION MCSpec
INVARIANTS
  TypesOK IdentityNeverChanges ReportsMatchListeners
PROPERTIES
  ExitsRightly
CHECK_DEADLOCK FALSE
