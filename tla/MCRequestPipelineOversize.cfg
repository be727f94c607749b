SPECIFICATION Spec
CONSTANTS
  MaxBody = 4
  MaxChunk = 2
  FailOpen = FALSE
  NoAnswer = NoAnswer
INVARIANT
  OversizeIs413
