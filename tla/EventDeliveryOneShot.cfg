CONSTANTS
  nothing = nothing
  Posters = {nothing}
  OneShot = {nothing}
  Batches <- WakeBatch
  QueueSize = 1
  MaxPending = 1
  MaxEvents = 1
  MaxAcks = 1
  MaxBatches = 1
  MaxInits = 2
SPECIFICATION Spec
CHECK_DEADLOCK FALSE
INVARIANTS
  AssertedLocked
