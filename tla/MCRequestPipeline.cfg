\* Two messages fit whatever their size, three may not.
SPECIFICATION FairSpec
CONSTANTS
  MaxBody = 4
  MaxChunk = 2
  FailOpen = FALSE
  NoAnswer = NoAnswer
INVARIANTS
  TypeOK
  CountedAsSent
  HeadersOnEveryAnswer
  ErrorsTraceable
  OversizeNeverHandled
  SessionLeft
PROPERTY
  NothingHangs
