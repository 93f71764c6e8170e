SPECIFICATION Spec
CONSTANTS
  N = 1
  Pins <- MCPins
  OutputPins <- MCOutputPins
  UnitPins <- MCOneUnit
  HttpUnits = {0}
  CmdUnits = {0}
  NvsMayFail = TRUE
  QueueLength = 1
INVARIANT PinShowsState
