CONSTANTS
  ssc = ssc
  nothing = nothing
  Posters = {ssc, nothing}
  OneShot = {nothing}
  Batches <- MixedBatches
  QueueSize = 1
  MaxPending = 2
  MaxEvents = 2
  MaxAcks = 1
  MaxBatches = 2
  MaxInits = 2
SPECIFICATION Spec
CHECK_DEADLOCK FALSE
INVARIANTS
  TypeOK
  InOrder
  PendingAccounting
  NoLostNotification
  WakeEventsLocked
  QueuesReplacedAlone
PROPERTIES
  NeverSilentlyLost
  ImplementsSharedWakelock
