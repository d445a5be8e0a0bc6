SPECIFICATION ReadSpec
CONSTANTS
  Documents <- MCDocuments
  Names <- MCNames
  NonStrings <- MCNonStrings
  Strategies = {"LastWins"}
  MaxCalls = 2
CHECK_DEADLOCK FALSE
INVARIANTS
  LastOccurrenceWins
