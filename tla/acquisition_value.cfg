\* Is what a successful reading returns the quantity that was read?
SPECIFICATION Spec
CONSTANTS
  MaxPolls = 2
  MaxCalls = 2
  Words <- TwoWords
  Errors <- OneError
  Serial <- SomeSerial
  RegValues <- SomeRegValues
  RegErrors <- SomeRegErrors
  TrueCal <- ExampleCal
  CalAnswers <- SomeCalAnswers
  Samples <- SomeSamples
  BadSamples <- SomeBadSamples
  Colors <- SomeColors
  BadColors <- SomeBadColors
  Now <- SomeTime
PROPERTIES
  ReadingIsQuantity
