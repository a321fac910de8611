CONSTANTS
  MaxBytes = 2
  MaxChunk = 2
  Lengths = {1, 2, 3}
  MaxTransfers = 2
  MaxSubs = 2
SPECIFICATION FairSpec
CHECK_DEADLOCK FALSE
INVARIANT TypeOK
INVARIANT Intact
INVARIANT NothingTwice
INVARIANT Resumable
INVARIANT ToldWhereToResume
PROPERTY HandlerReturns
