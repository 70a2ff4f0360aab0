SPECIFICATION FairSpec
CONSTANTS
  Threads = {t1, t2}
  Fibers = {f1, f2}
  NULL = NULL
  Duties <- Disciplined
  Throws = {"std", "other"}
  Captures = {"plain"}
INVARIANTS
  TypeOK
  CurrentFiberIsRunning
  StateMatchesContext
  MainContextIsHome
  OwnReferences
  OnlyStrandedFibersAbort
PROPERTIES
  MainRegainsControl
  FibersAreCoroutines
CHECK_DEADLOCK FALSE
