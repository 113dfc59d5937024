\* Sizes far below the u64 ceiling, and one of which two exceed it.
SPECIFICATION Spec
CONSTANTS
  MaxU64 = 1000
  Sizes = {20, 600}
  Callsites = {c1}
  Limits = {50}
  FailAfters = {2}
  Waves <- MCWaves
  Seeds = {7}
  FragPcts = {10}
  Budgets = {21}
  HostPeaks = {30}
  None = None
  MaxOps = 4
CHECK_DEADLOCK FALSE
INVARIANTS
  AccountingBalances
  GraphTracksLive
  MemoryIsAccounted
