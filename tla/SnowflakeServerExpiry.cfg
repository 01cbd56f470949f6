CONSTANTS
  Client = {c1}
  Handler = {h1}
  MaxQueues = 2
  MaxDown = 2
  MaxUp = 0
  QueueSize = 1
SPECIFICATION Spec
INVARIANT ExpiryLosesOnlyQueued
CHECK_DEADLOCK FALSE
