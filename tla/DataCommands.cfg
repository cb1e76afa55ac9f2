SPECIFICATION Spec
CONSTANTS
  Clusters = {hub, c1, c2}
  Profiles = {minio1, minio2}
  RepeatNames = FALSE
INVARIANTS
  TypeOK
  AnswerIsTrue
  NilIsComplete
  CancelStops
  ValidatesGathered
PROPERTIES
  KeepsVerdict
CHECK_DEADLOCK FALSE
