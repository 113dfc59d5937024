\* Record under any fault, budget and schedule, then replay.
SPECIFICATION FairRSpec
CONSTANTS
  NumNodes = 3
  Unknown = {4}
  Keys = {k1}
  Values = {a, b}
  Null = Null
  MaxScript = 3
  MaxPuts = 2
  Strategies = {"fifo", "dfs", "random", "coverage_guided"}
  Checks <- MCChecks
  Budgets = {1}
  None = None
CHECK_DEADLOCK FALSE
INVARIANTS
  MessagesConserved
  Converges
  NeverDrifts
  ReplayReproducesFinished
PROPERTIES
  StoreFollowsWrites
  ExploreEnds
