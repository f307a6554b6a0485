CONSTANTS
  c1 = c1
  c2 = c2
  a1 = a1
  k1 = k1
  k2 = k2
  Check <- MCCheck
  Axis <- MCAxis
  Capture <- MCCapture
  Requirements <- MCRequirements
  Givens <- MCGivens
  MaxItems = 5
SPECIFICATION Spec
SYMMETRY Symmetry
INVARIANT CompleteMeansLinked
PROPERTY NonPassNeverCompletes
CHECK_DEADLOCK FALSE
