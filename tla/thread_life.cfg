SPECIFICATION FairSpec
CONSTANTS
  Clients = {c1, c2}
  Objects = {x1, x2}
  NULL = NULL
  Hazards = {"signal", "two join", "rename"}
INVARIANTS
  ReadyWhenConstructed
  NoDeadAccess
  ReleasedOnce
PROPERTY CallsReturn
CHECK_DEADLOCK FALSE
