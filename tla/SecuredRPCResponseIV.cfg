CONSTANTS
  QueueSize = 1
  MaxSessions = 2
  MaxIV = 2
  MaxRequests = 2
  MaxSubs = 2
SPECIFICATION Spec
CHECK_DEADLOCK FALSE
INVARIANT ResponseIVsUnique
