SPECIFICATION FairSpec
CONSTANTS
  Threads = {t1, t2}
  Parts <- SmallParts
  Valid = {"a", "b"}
  Lower <- SmallLower
  Names <- SmallNames
  Types = {"int", "set<string>", "map<vector<int>>"}
  Default <- SmallDefault
  Docs <- SmallDocs
  MaxCalls = 3
  NULL = NULL
INVARIANTS
  OneVariable
  LoadApplied
  VisitIsStable
  TextRoundTrip
PROPERTY CallsReturn
CHECK_DEADLOCK FALSE
