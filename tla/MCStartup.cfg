\* Three workers, everything enabled, two errors or acts of the operator.
\* No symmetry: it would be unsound for the liveness property.
SPECIFICATION FairSpec
CONSTANTS
  Workers = {w1, w2, w3}
  NoWorker = NoWorker
  AutoCreate = TRUE
  ConnectOnStartup = TRUE
  SeedAdmin = TRUE
  MaxUpsets = 2
INVARIANTS
  TypeOK
  ServesPrepared
  SeedingIsIdempotent
PROPERTIES
  AccountUntouched
  EveryWorkerServes
