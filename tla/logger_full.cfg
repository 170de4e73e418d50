\* A device that fills up and is started again with STOP_IF_FULL.
SPECIFICATION Spec
CONSTANTS
  LastPage = 1
  PageSize = 7
  ErasedSize = 4
  SetupBytes <- StopSetup
  ReadCount = 3
  Commands = {"add", "read"}
  Pace = "page"
  Restarts = {"planned"}
  Fills <- CleanFills
  MaxRestarts = 1
  MaxSets = 8
PROPERTIES
  StopsIfFull
