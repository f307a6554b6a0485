SPECIFICATION Spec
CONSTANTS
  Identity = {i1, i2}
  Clause = {c1, c2}
  MaxAssessments = 2
  MaxRequirements = 2
SYMMETRY Symmetry
INVARIANTS
  ChainIsComplete
PROPERTIES
  GateStays
CHECK_DEADLOCK FALSE
