CONSTANTS
  ssc = ssc
  Posters = {ssc}
  OneShot = {}
  Batches <- PickUpBatches
  QueueSize = 1
  MaxPending = 1
  MaxEvents = 1
  MaxAcks = 1
  MaxBatches = 1
  MaxInits = 1
SPECIFICATION Spec
CHECK_DEADLOCK FALSE
INVARIANTS
  NoWakeEventsUnlocked
