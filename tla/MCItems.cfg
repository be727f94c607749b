\* No symmetry: it would be unsound for the liveness property.
SPECIFICATION FairSpec
CONSTANTS
  Requests = {r1, r2}
  Tenants = {public, acme}
  Public = public
  Absent = absent
  Prices <- MCPrices
  MaxPrice = 99990
  PoolSize = 1
  NoRow = NoRow
INVARIANT
  TypeOK
PROPERTIES
  ImplementsLedger
  EveryCreateEnds
