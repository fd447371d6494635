SPECIFICATION FairSpec
CONSTANTS
  FrameLen = 4
  Capacity = 7
  MagicPlaces = {}
  MaxFrames = 5
  MaxFaults = 3
  MaxOutage = 1
INVARIANTS
  DamagedNotReceived
  RecoversAfterOneFrame
PROPERTIES
  ImplementsLossyFifo
  IntactFramesArrive
CHECK_DEADLOCK FALSE
