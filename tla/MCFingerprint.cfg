CONSTANTS
  c1 = c1
  NoClient = NoClient
  Clients = {c1}
  Messages <- MCMessages
  DeviceErrors <- MCDeviceErrors
  MaxMessages = 2
  MaxCalls = 4
  MaxDeaths = 1
SPECIFICATION Spec
CHECK_DEADLOCK FALSE
INVARIANTS
  TypeOK
  NullDeviceUnused
  LightAgreesWithSensor
  LightNeedsFinger
  ErrorsTellable
PROPERTIES
  LightGoesOff
