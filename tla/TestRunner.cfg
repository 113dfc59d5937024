\* Every suite of up to three scenarios, on up to three threads, recorded.
SPECIFICATION SuiteFairSpec
CONSTANTS
  MaxScenarios = 3
  MaxJobs = 3
  Verdicts = {"pass", "fail", "error", "panic"}
  Policies = {"none", "overwrite", "error", "append"}
  Old = Old
CHECK_DEADLOCK FALSE
INVARIANTS
  ReportIgnoresSchedule
  PlacesDecide
PROPERTY SuiteEnds
