SPECIFICATION FairSpec
CONSTANTS
  home = home
  office = office
  NoAddress = NoAddress
  Addresses <- OneAddress
  MaxSessions = 2
  MaxListeners = 2
  MaxBroadcasts = 0
PROPERTY IterationIsExclusive
CHECK_DEADLOCK FALSE
