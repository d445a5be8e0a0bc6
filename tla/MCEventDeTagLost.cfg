CONSTANTS
  Documents <- TagKeyDocuments
  Texts = {"", "k", "l"}
  Visitors <- AnyOnly
  Strategies = {"LastWins"}
  DepthLimits = {0}
  AliasLimits = {1}
  AutoFactor = 1
  MaxEnums = 1
SPECIFICATION Spec
CHECK_DEADLOCK FALSE
INVARIANTS
  TagsAreSeen
