\* One caller, two instances, half-second ticks, two full windows and the start of a third.
SPECIFICATION Spec
CONSTANTS
  i1 = i1
  i2 = i2
  Instances = {i1, i2}
  Requests = {r1, r2, r3}
  Skew <- OneAhead
  MaxRequests = 1
  TicksPerSecond = 2
  WindowSeconds = 2
  RequestTimeout = 1
  FailOpen = TRUE
  NoInstance = NoInstance
  MaxTime = 8
SYMMETRY Symmetry
INVARIANTS
  TypeOK
  BucketLimit
  LeakOnlyAfterFailure
  RefusedOnlyWhenFull
  RetryMeetsNextBucket
