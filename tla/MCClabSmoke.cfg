CONSTANTS
  MaxInterference = 2
  Repeat = 2
SPECIFICATION SmokeSpec
INVARIANTS
  CleanedMeansReleased
  CommandsAtMostOnce
  NoSilentLab
  LeakedLabIsRecoverable
  NoMutationMeansNoLab
  IterationsDoNotOverlap
  ExitZeroLeavesNothing
  DeployFailureSurvivesCleanup
PROPERTIES
  RunRemovalsVouched
  LabIsSettled
