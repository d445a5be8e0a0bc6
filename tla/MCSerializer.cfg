CONSTANTS
  Anchors = {"x"}
  Pointers = {1}
  AnchorName <- MCAnchorName
  NoAnchor = "none"
  Tags = {"t"}
  TagText = "text"
  NoTag = "no tag"
  Methods = {"scalar", "collect", "seq", "map", "map1", "struct", "newtypeVariant", "tupleVariant", "structVariant", "anchor", "alias", "rc", "flowSeq", "flowMap", "tagged"}
  Checks = {TRUE, FALSE}
  MaxCalls = 4
SPECIFICATION Spec
CHECK_DEADLOCK FALSE
INVARIANTS
  SerializerTypeOK
  DepthIsNesting
  EmitterContent
  ValuesAreDocuments
  AliasesFollowAnchors
  RegistryAgrees
  AnchorsOnTheirNodes
  TagsOnTheirNodes
