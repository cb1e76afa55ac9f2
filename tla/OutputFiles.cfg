SPECIFICATION Spec
CONSTANTS
  Runs = {r1, r2, r3}
  Old = 2
  MaxInt = 100
  GlobMatches = TRUE
  Overlap = FALSE
INVARIANTS
  TypeOK
  OutputIsOwn
PROPERTIES
  NeverOverwrites
CHECK_DEADLOCK FALSE
