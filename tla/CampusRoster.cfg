SPECIFICATION Spec
CONSTANTS
  c1 = c1
  c2 = c2
  s1 = s1
  i1 = i1
  i2 = i2
  k1 = k1
  k2 = k2
  a1 = a1
  Calls = {c1, c2}
  Students = {s1}
  Invites = {i1, i2}
  Resent = {i2}
  Cohorts = {k1, k2}
  Assignments = {a1}
  None = None
SYMMETRY MCSymmetry
CHECK_DEADLOCK FALSE
INVARIANTS AcceptanceSound RosterFollowsTargets
