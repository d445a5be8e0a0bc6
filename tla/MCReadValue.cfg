SPECIFICATION ReadSpec
CONSTANTS
  Documents <- MCDocuments
  Names <- MCNames
  NonStrings <- MCNonStrings
  Strategies = {"Error", "FirstWins", "LastWins"}
  MaxCalls = 2
CHECK_DEADLOCK FALSE
INVARIANTS
  ParseTypeOK
  NothingOverwritten
  ValueIsDocument
  FailsForAReason
  DuplicatesByStrategy
  AliasesAreCopies
  MergeByPrecedence
  PathsAgree
