SPECIFICATION Spec
CONSTANTS
  a1 = a1
  a2 = a2
  x1 = x1
  x2 = x2
  y1 = y1
  Calls = {c1, c2, c3}
  Texts = {m1}
  Edits = {x1, y1}
  Artifacts = {a1, a2}
  ArtifactOf <- MCArtifactOf
  Scenarios <- Undisturbed
  MaxCrashes = 0
  NoEvent = NoEvent
  NoReport = NoReport
  NoCall = NoCall
CHECK_DEADLOCK FALSE
INVARIANTS EditsKept
