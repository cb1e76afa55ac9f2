SPECIFICATION Spec
CONSTANTS
  Runs = {r1, r2}
  Old = 2
  MaxInt = 100
  GlobMatches = FALSE
  Overlap = FALSE
PROPERTIES
  NeverOverwrites
CHECK_DEADLOCK FALSE
