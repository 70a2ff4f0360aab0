SPECIFICATION Spec
CONSTANTS
  Threads = {t1, t2}
  Fibers = {f1, f2}
  NULL = NULL
  Duties <- Disciplined
  Throws = {"std"}
  Captures = {"plain"}
SYMMETRY Symmetry
INVARIANTS
  NoFault
CHECK_DEADLOCK FALSE
