CONSTANTS
  LocalSize = 4
  IndexSize = 4
  Config <- MCConfig
  SensorList <- MCSensorList
  DynamicLists <- MCDynamicLists
  DirectDynamic <- MCDirectDynamic
  Strangers <- MCStrangers
  MaxInits = 2
SPECIFICATION Spec
INVARIANTS
  TypeOK
  ModesAgree
  EnabledAsAsked
  DynamicSensorsAgree
  DirectReportsReachOwner
