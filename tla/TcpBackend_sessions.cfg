SPECIFICATION FairSpec
CONSTANTS
  home = home
  office = office
  NoAddress = NoAddress
  Addresses <- TwoAddresses
  MaxSessions = 3
  MaxListeners = 1
  MaxBroadcasts = 3
INVARIANTS
  TypeOK
  SetCountsOpenSessions
  MessagesAreKept
PROPERTIES
  NothingStaysPending
  RepliesEndTheSession
  DestructorEnds
CHECK_DEADLOCK FALSE
