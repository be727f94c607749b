\* One start of an application and then one upgrade are enough.
SPECIFICATION TurnsSpec
CONSTANTS
  Runners = {r1, r2}
  MaxRuns = 2
PROPERTY
  MigrationFailsOnlyToARival
