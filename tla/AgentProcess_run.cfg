SPECIFICATION Spec
CONSTANTS
  Procs = {p1, p2}
  None = None
  Steps <- MCSteps
  RetryAfter = {0, 9}
  MaxRetryAfter = 3
  EnrolledLife = 6
  Life = 2
  MaxTime = 6
  MaxStreak = 2
  MaxCrashes = 2
INVARIANTS SingleInstance BackoffMatchesHistory
PROPERTIES LiveCredentialChosen RotationMovesForward
