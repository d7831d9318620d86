SPECIFICATION FairSpec
CONSTANTS
  connectionAttempts = 3
  Concurrency = 2
  MaxRequests = 1
INVARIANTS TypeOK ReportsCause JobsEndOrTimeOut
PROPERTIES WaitingStops RunningStops
CHECK_DEADLOCK FALSE
