CONSTANTS
  w1 = w1
  w2 = w2
  w3 = w3
  b1 = b1
  b2 = b2
  Nobody = Nobody
  Writer <- MCWriter
  Bundle <- MCBundle
  BundleOf <- MCBundleOf
  MaxCrashes = 1
SPECIFICATION Spec
CHECK_DEADLOCK FALSE
INVARIANTS
  StoredIsComplete
  StoredSurvives
PROPERTIES
  FailsForCause
  RootIsTrusted
  IsCreateOnly
