\* Three callers, room for two of them.
SPECIFICATION Spec
CONSTANTS
  Keys = {k1, k2, k3}
  MaxRequests = 2
  WindowSeconds = 2
  MaxKeys = 2
  TicksPerSecond = 2
  MaxTime = 6
SYMMETRY Symmetry
INVARIANTS
  TypeOK
  WindowBound
  TrackedKeysBounded
  RetryAfterHonest
PROPERTY
  ImplementsPolicy
