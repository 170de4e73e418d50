\* Two calls of any kind, with every failure of the bus and of the sensors.
SPECIFICATION FairSpec
CONSTANTS
  MaxPolls = 2
  MaxCalls = 2
  Words <- SomeWords
  Errors <- SomeErrors
  Serial <- SomeSerial
  RegValues <- SomeRegValues
  RegErrors <- SomeRegErrors
  TrueCal <- ExampleCal
  CalAnswers <- SomeCalAnswers
  Samples <- SomeSamples
  BadSamples <- SomeBadSamples
  Colors <- SomeColors
  BadColors <- SomeBadColors
  Now <- SomeTime
INVARIANTS
  TypeOK
PROPERTIES
  StartedValueIsTaken
  ChecksumDecides
  DataSetIsMeasured
  SerialIsRead
  ReservedBitsKept
  CallReturns
