SPECIFICATION FairSpec
CONSTANTS
  Threads = {t1, t2}
  Names <- Sorted
  Root = "root"
  OwnAppenders = {a1, a2}
  NewAppenders = {b0, b1, b2, b3}
  Formats = {"f0", "f1"}
  Bad = "bad"
  Files = {"log"}
  Default = "f0"
  Profiles <- MostProfiles
  MaxCalls = 5
  NULL = NULL
INVARIANTS
  NoFault
  LogIsWritten
  OwnFormatterKept
  InheritsFormatter
  ConfigApplied
PROPERTY CallsEnd
CHECK_DEADLOCK FALSE
