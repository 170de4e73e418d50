\* All delays and all positions of the counter, with the proportions of the
\* real one: three bytes and a part of a fourth to the second.
SPECIFICATION FairSpec
CONSTANTS
  Second = 30
  ByteSize = 8
  WordSize = 128
  Delays = {1, 2, 3, 4, 5, 6, 7, 8, 12, 20, 28, 29}
INVARIANTS
  TypeOK
PROPERTIES
  NotEarly
  ReachableWaitEnds
  TargetIsTaken
