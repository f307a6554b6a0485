SPECIFICATION Spec
CONSTANTS
  Baseline <- ReferencePlan
  Menu <- Writable
  Strip <- Padded
  MaxEdits = 1
PROPERTY VerdictFollowsMeaning
CHECK_DEADLOCK FALSE
