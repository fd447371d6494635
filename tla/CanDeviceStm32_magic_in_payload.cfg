SPECIFICATION FairSpec
CONSTANTS
  FrameLen = 4
  Capacity = 24
  MagicPlaces = {3}
  MaxFrames = 6
  MaxFaults = 1
  MaxOutage = 3
INVARIANT Recovers
CHECK_DEADLOCK FALSE
