CONSTANTS
  None = None
  Setups <- MCSetups
SPECIFICATION WorkflowFairSpec
INVARIANTS
  StepsCoverMenu
  GreenMeansVerified
  OwnFilesRemoved
PROPERTY
  FullEnds
CHECK_DEADLOCK FALSE
