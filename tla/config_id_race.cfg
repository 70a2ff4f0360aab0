SPECIFICATION Spec
CONSTANTS
  Threads = {t1, t2}
  Vars = {a, b}
  Values = {0, 1}
  Default = 0
  Listeners = {l1, l2, l3}
  Profiles <- ManyAdders
  MaxSets = 1
  NULL = NULL
SYMMETRY Symmetry
INVARIANTS
  ModulesNotified
CHECK_DEADLOCK FALSE
