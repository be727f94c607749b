\* A login, then any mix of refreshes and logouts of its token.
\* No symmetry: it would be unsound for the liveness property.
SPECIFICATION FairSpec
CONSTANTS
  Users = {u1}
  Tokens = {r1, r2, r3}
  Requests = {r1, r2, r3}
  NoToken = NoToken
  NoUser = NoUser
  NoRequest = NoRequest
  NoRow = NoRow
  Mint <- NamedAfterRequest
  Lifetime = 1
  MaxTime = 1
INVARIANTS
  TypeOK
  SingleUse
  LogoutFinal
  DeadStaysDead
  DeliveredIsCommitted
PROPERTIES
  RotationIsAtomic
  ImplementsChain
  EveryRequestEnds
