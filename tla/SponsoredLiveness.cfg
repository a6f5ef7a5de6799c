SPECIFICATION FairSpec
CONSTANTS
  p1 = p1
  u1 = u1
  u2 = u2
  c1 = c1
  c2 = c2
  c3 = c3
  a1 = a1
  Pools = {p1}
  Users = {u1}
  Items = {a1}
  Assignment = a1
  Calls = {c1, c2}
  Sessions <- MCSessions
  SessionOf <- MCSessionOf
  Quantity <- OneSeat
  BilledOnStart = {p1}
  EngineTimeouts = TRUE
  MaxTurns = 1
  NoPool = NoPool
  NoSession = NoSession
  NoUser = NoUser
  NoCall = NoCall
CHECK_DEADLOCK FALSE
INVARIANTS StartBilledOnce
PROPERTIES QueuedStartEnds
