CONSTANTS
  Anchors = {x}
  NoAnchor = NoAnchor
  Kinds = {"Scalar", "MappingStart"}
  MaxNodes = 4
  MaxDocs = 2
  Inputs = {"Str", "Read"}
  Modes = {"iterate", "collect", "single"}
SPECIFICATION StreamSpec
INVARIANTS
  StreamTypeOK
  WholeDocuments
  ErrorFreeEndsAtBoundary
  SuccessCoversStream
  SuccessOfWholeDocuments
  AliasFindsDefinition
PROPERTIES
  ImplementsIterator
