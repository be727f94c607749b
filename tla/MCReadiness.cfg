\* No symmetry: it would be unsound for the liveness property.
SPECIFICATION FairSpec
CONSTANTS
  Probes = {p1, p2}
  Others = {q}
  PoolSize = 1
  RedisBackend = TRUE
  MaxOutages = 1
INVARIANT
  ProbesAreHonest
PROPERTY
  ShutdownCompletes
