\* Two sessions, and every shrink of at most five items.
SPECIFICATION FairFSpec
CONSTANTS
  Statuses = {"pass", "fail"}
  Nothing = Nothing
  Setups <- MCSetups
  Bytes = {0, 1}
  Items <- MCItems
  MaxSessions = 2
  Jobs <- MCJobs
CHECK_DEADLOCK FALSE
INVARIANTS
  FuzzKeepsCrashes
  ShrinkIsSound
PROPERTY FuzzEnds
