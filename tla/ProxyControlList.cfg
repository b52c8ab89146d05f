CONSTANTS
  LocalSize = 4
  IndexSize = 4
  Config <- MCConfig
  SensorList <- MCSensorList
  DynamicLists <- MCDynamicLists
  DirectDynamic <- MCDirectDynamic
  Strangers <- MCStrangers
  MaxInits = 1
SPECIFICATION Spec
INVARIANTS
  OnlyStaticSensorsListed
