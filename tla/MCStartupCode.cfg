SPECIFICATION Spec
CONSTANTS
  None = None
  MasterMax = 2
  Files <- MCFiles
  Defaults <- MCDefaults
  MaxEdits = 2
INVARIANT CodeToShow
CHECK_DEADLOCK FALSE
