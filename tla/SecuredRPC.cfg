CONSTANTS
  QueueSize = 1
  MaxSessions = 2
  MaxIV = 2
  MaxRequests = 2
  MaxSubs = 2
SPECIFICATION FairSpec
CHECK_DEADLOCK FALSE
INVARIANT TypeOK
INVARIANT RequestsOnce
INVARIANT CodeOnDisplay
INVARIANT AnswersReadable
PROPERTY CodeImplemented
PROPERTY ResponsesNotified
