SPECIFICATION FairSpec
CONSTANTS
  Pins <- MCPins
  SensorPins <- MCSensorPins
  N = 1
  QueueLength = 2
  NvsMayFail = TRUE
  MaxEdges = 3
  MaxEdits = 1
  MaxResets = 1
INVARIANTS TypeOK IsrOnPin StoredAtRest
PROPERTY FollowsContact
CHECK_DEADLOCK FALSE
