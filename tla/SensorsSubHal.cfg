CONSTANTS
  NumSensors = 2
SPECIFICATION Spec
INVARIANTS
  CallbackReplacedAlone
  InjectionUndisturbed
PROPERTIES
  CallsReturn
