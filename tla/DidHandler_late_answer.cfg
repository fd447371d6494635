SPECIFICATION Spec
CONSTANTS
  MaxDid = 2
  ReadDids = {1, 2}
  FirstRead = 1
  MAX_EXTENDED_SESSION_RETRIES = 1
  Bounds <- ReadsOnly
  MaxRequests = 2
INVARIANT ValueIsOfItsDid
CHECK_DEADLOCK FALSE
