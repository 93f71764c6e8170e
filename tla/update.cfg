SPECIFICATION FairSpec
CONSTANTS
  Tasks = {t1, t2}
  Blocks = 1
  Limit = 2
  MaxEvents = 3
INVARIANTS TypeOK GuardModeKept PagesFollowFirmware
PROPERTIES GuardHasCause GuardSparesUpdates GuardRescues UpdatesEnd
CHECK_DEADLOCK FALSE
