\* Every item, failing writers, answers cut anywhere between keys.
SPECIFICATION Spec
CONSTANTS
  MaxParams = 3
  ScreenSize = 3
  Batches <- FirstThenSecond
  Noise <- KeyBytes
  MaxNoise = 1
  DeviceAttributes <- Attributes62
  Debug = TRUE
INVARIANTS
  TypeOK
  LenIsExact
  TerminalAsAsked
  AnswersAreTrue
  NoAnswerStuck
  OneMeaning
PROPERTY DecisionIsFinal
CHECK_DEADLOCK FALSE
