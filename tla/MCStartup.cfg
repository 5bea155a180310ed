SPECIFICATION FairSpec
CONSTANTS
  None = None
  MasterMax = 2
  Files <- MCFiles
  Defaults <- MCDefaults
  MaxEdits = 2
INVARIANTS TypeOK SettingsFromFile
PROPERTIES InitFailureRetried ServesInTheEnd
CHECK_DEADLOCK FALSE
