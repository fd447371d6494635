SPECIFICATION FairSpec
CONSTANTS
  MaxDid = 2
  ReadDids = {1, 2}
  FirstRead = 1
  MAX_EXTENDED_SESSION_RETRIES = 1
  Bounds <- Together
  MaxRequests = 2
INVARIANTS
  FrontIsCurrent
  ValuesOnTime
  UpdatesLostOnlyInClear
PROPERTIES
  EveryReadEnds
  EveryWriteEnds
CHECK_DEADLOCK FALSE
