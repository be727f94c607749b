\* No symmetry: it would be unsound for the liveness property.
SPECIFICATION FairSpec
CONSTANTS
  Runners = {r1, r2, r3}
  MaxRuns = 5
INVARIANT
  VersionTellsSchema
PROPERTIES
  MigrationFailsWithCause
  EveryRunEnds
