SPECIFICATION Spec
CONSTANTS
  Services = {"backup", "keys", "log", "coins", "screenshot", "antilock", "sha", "lifecycle", "map", "settings"}
  NameOrder <- Docs
  StartsWith <- DocsIsDocs
  To = 2
  Files <- KindsOfFile
  MaxBackups = 1
  CalculateHash = TRUE
  MaxStarts = 2
  MaxChanges = 1
  MaxFaults = 1
  MaxCancels = 1
  SerialKeys = {"k1", "k2"}
  GKeys = {"g1", "g2", "release"}
  Unmapped = {"release"}
  m_DebouncingInterval = 1
  MaxTime = 3
  MaxPortStarts = 2
  MaxPortFaults = 1
  Messages <- FourMessages
  Threads = 2
  m_LogFilters = {"noisy.cpp"}
  Filters <- Searched
  NoFilter = NoFilter
  LogLevels <- Levels
  All = All
  MaxSearches = 2
  MaxClears = 1
  Coin = {"eth", "btc"}
  Period = 1
  MaxClock = 5
  Word = 6
  Timeout = 2
  Titles = {"a", "b", "c"}
  NoWindow = ""
  Bar = "|"
  Lists <- TwoLists
  MaxTicks = 8
  Block = 64
  LengthAt = 56
  ByteBits = 8
  Pieces = {0, 1, 7, 54, 64}
  Junk = Junk
  MaxMessage = 150
  InitOrder <- InitOrderOfProgram
  DestroyOrder <- DestroyOrderOfProgram
  Singletons = {"Settings", "SerialPort", "CanSerialPort", "Server", "Sensors", "CustomMacro", "SerialForwarder", "CorsairHid", "DatabaseLogic", "Logger"}
  Threaded = {"can_entry", "did_handler", "SerialPort", "CanSerialPort", "Server", "SerialForwarder", "CorsairHid"}
  Uses <- UsesOfThreads
  MaxGets = 3
  Maps <- MapsToConvert
  Palette <- FourColors
  Noise = {9}
  Boxes = {"ONLY_CREATE_VEHICLE", "SAVE_NUMBER_PLATE", "HIDE_WHEN_ALPHA_NOT_255"}
  MaxClicks = 2
  WindowTitles = {"Notepad - a", "Word"}
  NoTitle = ""
  MacroKeys = {"1", "2"}
  Profiles <- FewProfiles
  OccursIn <- NamesInTitle
  Short = {"", "No"}
  Pages <- ThreePages
  Occurs <- EachInItself
  Names = {"UsePerApplicationMacros", "LastWindowSize", "Backups"}
  MaxProfiles = 4
  MaxRuns = 2
  Pictures <- OnClipboard
  NoPicture = NoPicture
  UintRange = 1024
  ShortRange = 32
  FileHeader = 2
  InfoHeader = 4
  MaxScreenshots = 2
  MaxTakeovers = 1
CHECK_DEADLOCK FALSE
INVARIANTS AcceptedCopiesAgree KeysAreExecutedOnce NothingIsMissed ReadsArePaced ScreenshotIsUpright DisturbsIdleOnly DigestIsOfThePaddedMessage NothingRunsOn ScriptIsOfTheMap RestartsKeepTheMacros
