SPECIFICATION FairSpec
CONSTANTS
  r1 = r1
  r2 = r2
  r3 = r3
  None = None
  Requests = {r1, r2}
  JobOf <- OwnJobs2
  Cap = 2
  Ageable = {}
  MaxLosses = 1
  MaxCrashes = 1
  MaxFaults = 1
PROPERTIES PersistedIsSent FallbackIsSent
