SPECIFICATION Spec
CONSTANTS
  Hub = hub
  C1 = c1
  C2 = c2
  PassiveHub = passive
INVARIANTS
  TypeOK
  AllOrNothing
  PassedMeansMembers
PROPERTIES
  Ends
CHECK_DEADLOCK FALSE
