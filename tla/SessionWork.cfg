SPECIFICATION FairSpec
CONSTANTS
  a1 = a1
  a2 = a2
  x1 = x1
  x2 = x2
  y1 = y1
  Calls = {c1, c2, c3}
  Texts = {m1, m2}
  Edits = {x1, x2, y1}
  Artifacts = {a1, a2}
  ArtifactOf <- MCArtifactOf
  Scenarios <- AllScenarios
  MaxCrashes = 1
  NoEvent = NoEvent
  NoReport = NoReport
  NoCall = NoCall
CHECK_DEADLOCK FALSE
INVARIANTS TypeOK TurnOncePerEvent CacheAgreesWithRow AnsweredTurnsKept ScoresWhatWasAnswered AnsweredEditsKept
PROPERTIES QueuedCallEnds
