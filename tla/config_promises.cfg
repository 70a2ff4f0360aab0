SPECIFICATION FairSpec
CONSTANTS
  Threads = {t1, t2, t3}
  Vars = {a, b}
  Values = {0, 1}
  Default = 0
  Listeners = {l1, l2}
  Profiles <- SomeProfiles
  MaxSets = 3
  NULL = NULL
INVARIANTS
  TypeOK
  Informed
  RegistrationsKept
  OldIsReplaced
  IterationIsStable
PROPERTIES
  CallsReturn
  ChangesAreNotified
CHECK_DEADLOCK FALSE
