\* Does the clock stay in the ranges SetTime checks?
SPECIFICATION Spec
CONSTANTS
  Seconds = 2
  Minutes = 2
  Hours = 2
  ByteSize = 2
  Settings <- MCSettings
  MaxSettings = 1
PROPERTIES
  ClockStaysInRange
