CONSTANTS
  Anchors = {x}
  NoAnchor = NoAnchor
  Kinds = {"Scalar"}
  MaxNodes = 2
  MaxDocs = 2
  Inputs = {"Read"}
  Modes = {"collect", "single"}
SPECIFICATION StreamSpec
INVARIANTS
  ReadErrorsPropagate
