SPECIFICATION Spec
CONSTANT Inputs <- MCInputs
INVARIANTS
  TypeOK
  PassedMeansStable
  PassedMeansFresh
  SoundHasNoIssue
  IssuesAreOpen
CHECK_DEADLOCK FALSE
