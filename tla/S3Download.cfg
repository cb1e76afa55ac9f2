SPECIFICATION Spec
CONSTANTS
  Keys <- MCKeys
  PrefixCount = 2
  PageSize = 2
  MaxChanges = 1
INVARIANTS
  TypeOK
  NilIsComplete
  FailuresAreLocal
PROPERTIES
  Ends
CHECK_DEADLOCK FALSE
