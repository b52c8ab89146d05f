CONSTANTS
  ssc = ssc
  Posters = {ssc}
  OneShot = {}
  Batches <- WakeBatch
  QueueSize = 1
  MaxPending = 1
  MaxEvents = 1
  MaxAcks = 1
  MaxBatches = 1
  MaxInits = 2
SPECIFICATION FairSpec
CHECK_DEADLOCK FALSE
PROPERTIES
  InitializeReturns
