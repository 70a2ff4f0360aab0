SPECIFICATION Spec
CONSTANTS
  Threads = {t1, t2}
  Guards = {g1, g2, g3}
  Flags = {cas}
  RWMutexes = {rw}
  NULL = NULL
INVARIANTS
  MutualExclusion
  FreeWhenUnheld
PROPERTY GuardsImplementRWLock
CHECK_DEADLOCK FALSE
