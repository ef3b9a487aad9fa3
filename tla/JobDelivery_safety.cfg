SPECIFICATION Spec
CONSTANTS
  r1 = r1
  r2 = r2
  r3 = r3
  None = None
  Requests = {r1, r2, r3}
  JobOf <- OwnJobs
  Cap = 2
  Ageable = {r1}
  MaxLosses = 1
  MaxCrashes = 1
  MaxFaults = 0
INVARIANTS PersistedUntilSent WakeupNotLost NoRepeatInSession
PROPERTIES KeepsPromise
