SPECIFICATION FairSpec
CONSTANTS
  connectionAttempts = 3
  Concurrency = 2
  MaxRequests = 1
PROPERTY ReturnEndsAll
CHECK_DEADLOCK FALSE
