SPECIFICATION Spec
CONSTANTS
  Run = {r1, r2}
  Stranger = {s1}
  RunnerRaises = FALSE
INVARIANTS
  LabCanBeReleased
CHECK_DEADLOCK FALSE
