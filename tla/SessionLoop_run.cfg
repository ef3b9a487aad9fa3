SPECIFICATION FairSpec
CONSTANTS
  plain = plain
  export = export
  job = job
  None = None
  Requests = {export, job, plain}
  KindOf <- MCKindOf
  MaxInFlight = 2
  ChanCap = 1
  Interval = 1
  Timeout = 2
  CanBlock = FALSE
  MaxSessions = 2
INVARIANTS AnswersStayInSession AnsweredOnce FrameBeforeAck SilentHubDropped
PROPERTIES NeverDroppedUnasked AnsweredUnlessOver CancelStops
CHECK_DEADLOCK FALSE
