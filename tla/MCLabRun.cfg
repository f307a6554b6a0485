SPECIFICATION Spec
CONSTANTS
  Run = {r1, r2, r3}
  Stranger = {}
  RunnerRaises = TRUE
INVARIANTS
  CleanedMeansReleased
  TestedLabStays
  LastRecordIsTrue
PROPERTIES
  OnlyOwnDestroyed
  RetryReleases
CHECK_DEADLOCK FALSE
