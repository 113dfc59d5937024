\* Recordings of every menu, and their replays.
SPECIFICATION FairSpec
CONSTANTS
  Menus <- MCMenus
  HostResults <- MCHostResults
  MaxDraw = 2
  Nodes = {"x", "y"}
  None = None
CHECK_DEADLOCK FALSE
INVARIANTS
  PassIsEarned
  LogTellsNetwork
  ReplayableReproduces
PROPERTY RunEnds
