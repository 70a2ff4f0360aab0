SPECIFICATION Spec
CONSTANTS
  Threads = {t1, t2}
  Start = 3
  MaxTime = 8
  MaxChanges = 2
  NULL = NULL
INVARIANTS
  FollowsPath
  NotBetweenCloseAndOpen
CHECK_DEADLOCK FALSE
