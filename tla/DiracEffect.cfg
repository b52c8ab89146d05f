CONSTANTS
  MaxVolume = 5
  MaxStarts = 3
  MaxChanges = 4
  MaxTroubles = 2
SPECIFICATION Spec
INVARIANTS
  TypeOK
  OnlyRunningServiceHasEffect
  EffectFollowsRoute
CHECK_DEADLOCK FALSE
