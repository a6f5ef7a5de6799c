SPECIFICATION BillingSpec
CONSTANTS
  p1 = p1
  u1 = u1
  org = org
  c1 = c1
  a1 = a1
  Pools = {p1}
  Users = {u1}
  Items = {a1}
  Calls = {c1}
  Scopes = {org}
  Admins = {m1, m2, m3}
  MayFail = {"activate", "close"}
  Sessions <- MCSessions
  SessionOf <- MCSessionOf
  Quantity <- MCQuantity
  PoolScope <- MCPoolScope
  Member <- MCMember
  NoPool = NoPool
  NoSession = NoSession
  NoUser = NoUser
  NoItem = NoItem
  NoScope = NoScope
CHECK_DEADLOCK FALSE
INVARIANTS ClosedContractStopsItsPool
