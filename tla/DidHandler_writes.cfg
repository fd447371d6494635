SPECIFICATION Spec
CONSTANTS
  MaxDid = 2
  ReadDids = {1}
  FirstRead = 1
  MAX_EXTENDED_SESSION_RETRIES = 1
  Bounds <- WritesOnly
  MaxRequests = 1
INVARIANT WritesAreTried
CHECK_DEADLOCK FALSE
