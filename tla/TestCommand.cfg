SPECIFICATION Spec
CONSTANTS
  NTests = 3
  Clusters = {hub, c1, c2}
  Profiles = {minio1, minio2}
INVARIANTS
  TypeOK
  AnswerIsTrue
  CollectedIsFinal
  FlowExplainsVerdict
  GatherAfterTests
  SummaryAccounts
PROPERTIES
  Answers
  KeepsPromise
CHECK_DEADLOCK FALSE
