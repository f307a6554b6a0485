CONSTANTS
  Foreign = {f1, f2}
  Repeat = 2
SPECIFICATION CommandSpec
INVARIANTS
  CleanedMeansNoContainer
  ExitZeroLeavesNoContainer
PROPERTIES
  ForeignSurvives
  RetryRemoves
  ContainerIsSettled
