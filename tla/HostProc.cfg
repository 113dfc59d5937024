\* A child that may close its streams early, and an heir of its streams.
SPECIFICATION FairSpec
CONSTANTS
  MaxBytes = 1
  PipeCap = 2
  MaxWritten = 2
  HasDeadline = TRUE
  Inherits = TRUE
CHECK_DEADLOCK FALSE
INVARIANTS
  CompletedHasAllOutput
  TimeoutIsClean
PROPERTY DeadlineEndsCall
