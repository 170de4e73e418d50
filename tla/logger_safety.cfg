\* The logger in the worst surroundings: commands that do not wait for the
\* chip, every option, restarts of every kind, arbitrary buffers at power up.
SPECIFICATION FairSpec
CONSTANTS
  LastPage = 1
  PageSize = 5
  ErasedSize = 4
  SetupBytes <- OtherSetups
  ReadCount = 2
  Commands = {"add", "save", "init", "read"}
  Pace = "any"
  Restarts = {"reset", "planned", "power"}
  Fills <- MixedFills
  MaxRestarts = 1
  MaxSets = 4
INVARIANTS
  TypeOK
  HeldSetsIntact
PROPERTIES
  MainLoopReturns
