CONSTANTS
  Documents <- NestDocuments
  Texts = {"", "k"}
  Visitors <- AnyOrEnum
  Strategies = {"Error"}
  DepthLimits = {1}
  AliasLimits = {1}
  AutoFactor = 1
  MaxEnums = 1
SPECIFICATION Spec
CHECK_DEADLOCK FALSE
INVARIANTS
  NestingWithinLimit
