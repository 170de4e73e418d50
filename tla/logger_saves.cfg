\* The logger as the terminal uses it, with partial saves and restarts
\* between two operations, until the array has wrapped round.
SPECIFICATION Spec
CONSTANTS
  LastPage = 4
  PageSize = 7
  ErasedSize = 4
  SetupBytes <- FirmwareSetup
  ReadCount = 4
  Commands = {"add", "save", "read"}
  Pace = "page"
  Restarts = {"planned"}
  Fills <- CleanFills
  MaxRestarts = 2
  MaxSets = 19
PROPERTIES
  SavedSetsStay
  OldestGoFirst
  ProgramSourceStable
