\* Partial saves and restarts between two operations: where does
\* Datalogger_Init continue?
SPECIFICATION Spec
CONSTANTS
  LastPage = 4
  PageSize = 5
  ErasedSize = 4
  SetupBytes <- FirmwareSetup
  ReadCount = 3
  Commands = {"add", "save"}
  Pace = "page"
  Restarts = {"planned"}
  Fills <- CleanFills
  MaxRestarts = 1
  MaxSets = 5
PROPERTIES
  ContinuesBehindLast
