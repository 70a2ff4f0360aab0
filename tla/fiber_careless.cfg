SPECIFICATION Spec
CONSTANTS
  Threads = {t1, t2}
  Fibers = {f1, f2}
  NULL = NULL
  Duties <- SerialOnly
  Throws = {"std", "other"}
  Captures = {"plain", "self"}
SYMMETRY Symmetry
INVARIANTS
  OneThreadPerStack
  CountIsExact
CHECK_DEADLOCK FALSE
