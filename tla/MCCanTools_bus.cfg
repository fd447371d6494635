SPECIFICATION Spec
CONSTANTS
  Tools = {"bits", "script", "log", "grid", "uds", "did", "isotp"}
  CharBit = 4
  WordBytes = 4
  Behind <- AllOnes
  Fields <- MappedFields
  IntBytes = 2
  Frames <- FourNibbles
  Texts <- SomeTexts
  NoNumber = NoNumber
  MAX_BITEDITOR_FIELDS = 32
  Arrays <- NibbleArrays
  Offsets = {0, 1, 2, 3, 4, 5, 6, 7, 8, 9, 10, 11}
  Counts = {1, 2, 3, 4, 5, 7, 8, 9, 12}
  Scripts <- TwoScripts
  FrameIds = {1, 2}
  Values = {1, 2}
  NoFrame = NoFrame
  NoValue = NoValue
  MaxFrames = 2
  MaxRuns = 1
  MaxRecorded = 4
  Commented = {2, 3}
  MaxClears = 1
  MaxSearches = 1
  RxFrames = {"f1", "f2"}
  Addresses = {1, 2, 3}
  NoAddress = NoAddress
  TxEntries <- ThreeEntries
  FavouriteLevel <- TheirLevels
  Levels = {0, 1, 2}
  MaxSent = 2
  Hex = "hex"
  NoHex = "nohex"
  Delay = "delay"
  Empty = ""
  Inputs <- UdsInputs
  Ids = {1}
  Junk = Junk
  DefaultEcuId = 1
  MaxSends = 2
  MaxLate = 1
  DidIds <- ThreeDids
  Cleared = 99
  MaxChanges = 2
  Word = 6
  Timeout = 2
  Invalid = 9
  BlockSizes = {1, 2, 9}
  SeparationTimes = {0, 1}
  FramesOfAMessage = {1, 3}
CHECK_DEADLOCK FALSE
INVARIANTS CopyIsBitwise RowsFollowTheRecord RowsAreOfTheirEntries LinesAreAtMostOneLate RowsShowTheirDids
PROPERTIES FieldsReadBack ResultsAreOfThisWait SenderKeepsToFlowControl
