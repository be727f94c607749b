SPECIFICATION Spec
CONSTANTS
  w1 = w1
  w2 = w2
  old = old
  new = new
  Workers <- MCWorkers
  Requests = {r}
  Scopes = {write}
  Skew <- MCSkew
  TicksPerSecond = 2
  Spread = 1
  LifetimeSeconds = 2
  RequestTimeout = 1
  Generations <- MCRotation
  MaxTime = 6
  MaxTokens = 2
  MaxChanges = 1
  NoToken = NoToken
INVARIANTS
  StalenessBounded
  TokenLivesItsLife
