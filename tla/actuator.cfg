SPECIFICATION Spec
CONSTANTS
  N = 2
  Pins <- MCPins
  OutputPins <- MCOutputPins
  UnitPins <- MCTwoUnits
  HttpUnits = {0}
  CmdUnits = {1}
  NvsMayFail = TRUE
  QueueLength = 2
INVARIANTS TypeOK PinShowsStateUndisturbed StateIsStored RestoredAtBoot
PROPERTIES OthersPinsUntouched ImplementsMemory
