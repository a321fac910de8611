CONSTANTS
  MaxUpdates = 2
  MaxCalls = 3
  MaxBus = 3
SPECIFICATION Spec
CHECK_DEADLOCK FALSE
INVARIANT ReportIsCurrent
INVARIANT ProgressNotLost
 
