CONSTANTS
  Anchors = {"x"}
  Pointers = {1, 2}
  AnchorName <- MCAnchorName
  NoAnchor = "none"
  Tags = {"t"}
  TagText = "text"
  NoTag = "no tag"
  Methods = {"scalar", "seq", "rc"}
  Checks = {TRUE}
  MaxCalls = 6
SPECIFICATION Spec
CHECK_DEADLOCK FALSE
INVARIANTS
  ClonesAreAliases
