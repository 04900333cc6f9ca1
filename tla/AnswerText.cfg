SPECIFICATION AnswerSpec
CONSTANTS
  Lines <- SomeLines
  MaxLines <- OneOnStderr
  Sizes = {13, 30}
  Footer = 4
  EmptyNote = 7
INVARIANTS
  LinesAsWritten UnmarkedIsClean ChunksAreSound
CHECK_DEADLOCK FALSE
