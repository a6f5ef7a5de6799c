SPECIFICATION CandidateSpec
CONSTANTS
  Chosen = {"material"}
  x1 = x1
  x2 = x2
  f1 = f1
  f2 = f2
  StartKeys = {y1, y2}
  Fields = {f1, f2}
  Criteria = {x1, x2}
  CheckOf <- MCCheckOf
  ShownBy <- MCShownBy
  MaxHints = 1
  Visits = {v1, v2, v3, v4}
  Dims <- MCDims
  Schedule <- MCSchedule
  Ratings <- MCRatings
  MaxExchanges = 7
  MaxFaults = 1
  Edits = {d1, d2}
  OtherEdits = {o1}
  MaxEvents = 2
  MaxTurns = 1
  MaxReads = 1
  MaxGivenUp = 1
  MaxCuts = 1
  MaxMishaps = 2
SYMMETRY MCSymmetry
CHECK_DEADLOCK FALSE
INVARIANT SavedStaysOnScreen
