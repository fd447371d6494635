SPECIFICATION BackupSpec
CONSTANTS
  NameOrder <- TwoSources
  StartsWith <- Beginnings
  Files <- OneFile
  To = 1
  MaxBackups = 2
  CalculateHash = TRUE
  MaxStarts = 3
  MaxChanges = 0
  MaxFaults = 0
  MaxCancels = 0
CHECK_DEADLOCK FALSE
PROPERTY RotationIsOfTheEntry
