SPECIFICATION FairSpec
CONSTANTS
  TX_QUEUE_MAX_SIZE = 2
  MaxFrames = 4
  MaxFaults = 2
  Removes <- LawicelRemoves
INVARIANTS
  TypeOK
  PopFindsAFrame
  LossIsAccounted
PROPERTIES
  ImplementsLossyFifo
  EveryFrameLeaves
  ReceivedBytesAreParsed
  DestroyEnds
CHECK_DEADLOCK FALSE
