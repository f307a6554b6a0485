CONSTANTS
  MaxInterference = 1
  Repeat = 2
SPECIFICATION SmokeSpec
INVARIANT DeployAttemptGetsDestroyAttempt
