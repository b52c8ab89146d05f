CONSTANTS
  ssc = ssc
  Posters = {ssc}
  OneShot = {}
  Batches <- MixedBatches
  QueueSize = 1
  MaxPending = 2
  MaxEvents = 2
  MaxAcks = 1
  MaxBatches = 2
  MaxInits = 2
SPECIFICATION FairSpec
CHECK_DEADLOCK FALSE
PROPERTIES
  PostersFinish
  PendingDrains
  WakelockReleased
