CONSTANTS
  Documents <- MCDocuments
  Texts = {"", "k", "l"}
  Visitors <- MCVisitors
  Strategies = {"FirstWins", "LastWins", "Error"}
  DepthLimits = {0, 1, 2}
  AliasLimits = {0, 1, 2}
  AutoFactor = 1
  MaxEnums = 2
SPECIFICATION MCSpec
CHECK_DEADLOCK FALSE
INVARIANTS
  EventDeTypeOK
  CheckedDepthBounded
  WorkBounded
  EnumsClosed
  TagUsedOnce
  RecursionErrorIsDeep
  KeysGiven
PROPERTIES
  OneNodeRead
