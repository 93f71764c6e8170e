SPECIFICATION FairSpec
CONSTANTS
  N = 2
  QueueLength = 7
  MaxInputs = 3
INVARIANTS TypeOK SubscribedWhenReady
PROPERTY BrokerAgrees
CHECK_DEADLOCK FALSE
