SPECIFICATION FairSpec
CONSTANTS
  Publishers = {mqtt_event_task}
  Clients = {first, second, third}
  Null = Null
  MaxOutages = 1
PROPERTY StaysConnected
CHECK_DEADLOCK FALSE
