SPECIFICATION Spec
CONSTANTS
  Baseline <- ReferencePlan
  Menu <- Writable
  Strip <- Padded
  MaxEdits = 2
INVARIANTS
  VerdictMatchesPack
  TenantsStayApart
  ProjectionIsClosed
  OnlyNamesPreventPack
CHECK_DEADLOCK FALSE
