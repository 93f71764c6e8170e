SPECIFICATION FairSpec
CONSTANTS
  N = 3
  QueueLength = 1
  MaxInputs = 0
PROPERTY BrokerAgrees
CHECK_DEADLOCK FALSE
