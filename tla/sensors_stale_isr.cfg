SPECIFICATION Spec
CONSTANTS
  Pins <- MCPins
  SensorPins <- MCSensorPins
  N = 2
  QueueLength = 2
  NvsMayFail = TRUE
  MaxEdges = 3
  MaxEdits = 1
  MaxResets = 1
INVARIANT EventFindsSensor
