CONSTANTS
  MaxBytes = 2
  Chunks = {1, 2, 3}
  MaxWritten = 4
  MaxFaults = 2
SPECIFICATION FairSpec
INVARIANTS
  QueueBounded
  NoSilentGap
  NoDuplicates
  ToldOnce
  FlushedOnClose
PROPERTIES
  CloseReturns
  Delivered
  ImplementsDelivery
CHECK_DEADLOCK FALSE
