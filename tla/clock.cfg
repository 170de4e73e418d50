\* The clock through all months and days of a leap year and another, read
\* at any moment, and set once at any moment.
SPECIFICATION Spec
CONSTANTS
  Seconds = 2
  Minutes = 2
  Hours = 1
  ByteSize = 2
  Settings <- MCSettings
  MaxSettings = 1
INVARIANTS
  TypeOK
PROPERTIES
  TickAdvances
  ReadNotFuture
