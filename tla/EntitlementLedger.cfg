SPECIFICATION Spec
CONSTANTS
  p1 = p1
  p2 = p2
  u1 = u1
  u2 = u2
  org = org
  mine = mine
  c1 = c1
  c2 = c2
  c3 = c3
  a1 = a1
  Pools = {p1, p2}
  Users = {u1, u2}
  Items = {a1}
  Calls = {c1, c2, c3}
  Scopes = {org, mine}
  Sessions <- MCSessions
  SessionOf <- MCSessionOf
  Quantity <- MCQuantity
  PoolScope <- MixedPools
  Member <- MCMember
  NoPool = NoPool
  NoSession = NoSession
  NoUser = NoUser
  NoItem = NoItem
  NoScope = NoScope
SYMMETRY Symmetry
CHECK_DEADLOCK FALSE
INVARIANTS HeldCountsSeats OneOutcomePerSeat OneSeatPerItem
PROPERTIES ImplementsSeatPool
