CONSTANTS
  PipeSize = 2
  MaxCalls = 4
  MaxTouches = 2
SPECIFICATION Spec
CHECK_DEADLOCK FALSE
INVARIANTS
  TypeOK
  OneEventPerActivation
  ChangeNeverMissed
PROPERTIES
  FingerReported
  DisableTakesEffect
  ModeChangeReturns
  DestructorReturns
  ImplementsContract
