SPECIFICATION Spec
CONSTANTS
  Runs = {r1, r2}
  Old = 2
  MaxInt = 100
  GlobMatches = TRUE
  Overlap = TRUE
PROPERTIES
  NeverOverwrites
CHECK_DEADLOCK FALSE
