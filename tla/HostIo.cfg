\* Scenarios of file steps or of http steps, recorded and replayed.
SPECIFICATION Spec
CONSTANTS
  Paths = {p, q, out}
  Refused = {out}
  Data = {d, e}
  Names = {a, b}
  Bodies = {x, y}
  Times = {1}
  MaxFileSteps = 4
  MaxWebSteps = 3
  MaxMeddling = 1
  None = None
CHECK_DEADLOCK FALSE
INVARIANTS
  ReplayReproduces
PROPERTY HostLooksVirtual
