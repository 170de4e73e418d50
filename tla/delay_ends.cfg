\* Does every delay end?
SPECIFICATION FairSpec
CONSTANTS
  Second = 15
  ByteSize = 4
  WordSize = 64
  Delays = {1, 2, 3, 4, 7, 10, 13, 14}
PROPERTIES
  DelayEnds
