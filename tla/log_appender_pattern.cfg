SPECIFICATION Spec
CONSTANTS
  Threads = {t1, t2}
  Names <- Sorted
  Root = "root"
  OwnAppenders = {}
  NewAppenders = {b0, b1}
  Formats = {"f0", "f1"}
  Bad = "bad"
  Files = {"log"}
  Default = "f0"
  Profiles <- PatternProfile
  MaxCalls = 4
  NULL = NULL
INVARIANTS
  DocumentApplied
CHECK_DEADLOCK FALSE
