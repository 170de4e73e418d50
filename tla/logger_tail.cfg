\* Chip buffers that power up with zeros, and one restart between two
\* operations: what do the pages start with?
SPECIFICATION Spec
CONSTANTS
  LastPage = 3
  PageSize = 5
  ErasedSize = 4
  SetupBytes <- FirmwareSetup
  ReadCount = 3
  Commands = {"add"}
  Pace = "page"
  Restarts = {"planned"}
  Fills <- BlankFills
  MaxRestarts = 1
  MaxSets = 8
INVARIANTS
  PagesStartWithHeader
