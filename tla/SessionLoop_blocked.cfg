SPECIFICATION Spec
CONSTANTS
  plain = plain
  export = export
  job = job
  None = None
  Requests = {plain}
  KindOf <- MCKindOf
  MaxInFlight = 2
  ChanCap = 1
  Interval = 1
  Timeout = 2
  CanBlock = TRUE
  MaxSessions = 1
INVARIANTS SilentHubDropped
CHECK_DEADLOCK FALSE
