\* The logger without partial saves, while the array has room (three pages
\* before the last, and a set less than fills them), against SampleLog.
SPECIFICATION Spec
CONSTANTS
  LastPage = 3
  PageSize = 7
  ErasedSize = 4
  SetupBytes <- FirmwareSetup
  ReadCount = 4
  Commands = {"add", "init", "read"}
  Pace = "page"
  Restarts = {"planned", "power"}
  Fills <- CleanFills
  MaxRestarts = 2
  MaxSets = 8
PROPERTIES
  ImplementsLog
  ReadBackIsOldest
