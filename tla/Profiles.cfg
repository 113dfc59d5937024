CONSTANTS
  None = None
  Blocks = {2}
  Sites = {1, 2}
  Waits = {5}
  MaxSteps = 4
  MaxGroup = 2
SPECIFICATION ProfilesSpec
INVARIANTS
  HeapAgreesWithRecorder
  ChecksAcceptReports
  MoreIsNeverBetter
CHECK_DEADLOCK FALSE
