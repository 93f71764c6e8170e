SPECIFICATION FairSpec
CONSTANTS
  Unset = Unset
  Keys = {"mqtt_connect", "mqtt_prefix", "net_log_type", "net_log_host"}
  Defaults <- MCDefaults
  Requests <- MCRequests
  Forms <- MCForms
  Units <- MCUnits
  Sensors = {"relay_sn_0"}
  MaxInputs = 2
INVARIANTS TypeOK CountedMeansStored RefusedOnlyTyped CommandsResolve SessionIsComplete
PROPERTIES  AnnouncedIsSubscribed
CHECK_DEADLOCK FALSE
