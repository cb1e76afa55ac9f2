SPECIFICATION Spec
CONSTANTS
  Hub = "hub"
  Managed <- MCManaged
  Inputs <- MCInputs
INVARIANTS
  TypeOK
  PassedMeansAgree
  OnlyFaultyBlamed
  SummaryIsShown
  PassedMeansRead
  IssuesAreOpen
CHECK_DEADLOCK FALSE
