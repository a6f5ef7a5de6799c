SPECIFICATION OfficeSpec
CONSTANTS
  Chosen = {"contracts", "team", "import", "notices", "rating", "growth", "cycle", "redeem", "correction", "decision", "erasure"}
  p1 = p1
  u1 = u1
  org = org
  c1 = c1
  a1 = a1
  t1 = t1
  t2 = t2
  t3 = t3
  e1 = e1
  e2 = e2
  j1 = j1
  j2 = j2
  fa = fa
  fb = fb
  Pools = {p1}
  Users = {u1}
  Items = {a1}
  Calls = {c1}
  Scopes = {org}
  Admins = {r1, r2, r3}
  MayFail = {"activate"}
  Sessions <- MCSessions
  SessionOf <- MCSessionOf
  Quantity <- MCQuantity
  PoolScope <- MCPoolScope
  Member <- MCMember
  NoPool = NoPool
  NoSession = NoSession
  NoUser = NoUser
  NoItem = NoItem
  NoScope = NoScope
  Staff = {t1, t2, t3}
  TeamCalls = {r1, r2, r3}
  FirstRole <- MCFirstRole
  Invited <- MCInvited
  Jobs = {j1, j2}
  CommitKeys = {k1, k2}
  Emails = {e1, e2}
  RowsOf <- MCRowsOf
  Existing = {e2}
  Commits = {i1, i2}
  FirstLink = FirstLink
  NoKey = NoKey
  Learners = {s1, s2, s3}
  OnRoster = {s1, s2}
  Settles = {r1, r2, r3}
  Window = 3
  MaxOther = 1
  Units = {w1, w2}
  Raters = {b1, b2, b3}
  Queuers = {q1, q2}
  Submits = {r1, r2, r3}
  FormNames = {fa, fb}
  Forms <- MCForms
  Views = {g1, g2}
  MaxChanges = 4
  Enders = {r1, r2, r3}
  Guests = {g1, g2, g3}
  Redeems = {r1, r2, r3}
  MaxUses = 2
  NoRedeem = NoRedeem
  Correctors = {r1, r2, r3}
  Issued = Issued
  MaxApprovals = 2
  Desk = {r1, r2, r3}
  Decisions = {"upheld", "invalidated_reassessment", "second_review"}
  NoGrant = NoGrant
  Files = {h1, h2}
  Erasers = {w1, w2}
  Whole = Whole
  MaxHolds = 1
  MaxAsked = 2
  MaxAllowed = 1
SYMMETRY MCSymmetry
CHECK_DEADLOCK FALSE
INVARIANTS OfficeTypeOK ActivationSound ClosedContractStopsItsPool
  TeamSound ImportSound NoticesSound RatingSound SnapshotsAreOfApprovedForms CycleEndsWithItsAssignment RedeemSound CorrectionSound DecisionSound ErasureSound
PROPERTIES StoppedForGood ShownStays
