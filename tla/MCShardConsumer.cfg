SPECIFICATION FairSpec
CONSTANTS
  MaxRecords = 5
  MaxRecordsPerCall = 2
  NoCheckpoint = NoCheckpoint
  NoIterator = NoIterator
  AtEnd = AtEnd
CHECK_DEADLOCK FALSE
INVARIANT DeliveredInOrder
INVARIANT StateShowsLoop
PROPERTY QuietAfterShutdown
PROPERTY ShutdownCompletes
