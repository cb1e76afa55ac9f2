SPECIFICATION Spec
CONSTANTS
  Workers = {w1, w2, w3, w4}
INVARIANTS
  TypeOK
  CloseIsLast
PROPERTIES
  NothingLeaks
  KeepsDelivery
CHECK_DEADLOCK FALSE
