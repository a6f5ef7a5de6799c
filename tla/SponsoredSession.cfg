SPECIFICATION Spec
CONSTANTS
  p1 = p1
  u1 = u1
  u2 = u2
  c1 = c1
  c2 = c2
  c3 = c3
  a1 = a1
  Pools = {p1}
  Users = {u1, u2}
  Items = {a1}
  Assignment = a1
  Calls = {c1, c2, c3}
  Sessions <- MCSessions
  SessionOf <- MCSessionOf
  Quantity <- OneSeat
  BilledOnStart = {}
  EngineTimeouts = FALSE
  MaxTurns = 1
  NoPool = NoPool
  NoSession = NoSession
  NoUser = NoUser
  NoCall = NoCall
SYMMETRY Symmetry
CHECK_DEADLOCK FALSE
INVARIANTS TypeOK OneSessionPerStudent RosterSound
PROPERTIES ProgressIsKept ImplementsAssessment
