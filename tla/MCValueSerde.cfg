CONSTANTS
  Names <- MCNames
  Wide <- MCWide
  Base64 <- MCBase64
  Data <- MCData
  Types <- MCTypes
  Values <- MCGiven
  MapKeys <- MCMapKeys
  MapValues <- MCMapValues
  MaxCalls = 4
SPECIFICATION UseSpec
CHECK_DEADLOCK FALSE
INVARIANTS
  RoundTrip
  OwnedAndBorrowedAgree
  MapKeepsPairs
  TagsStandAlone
