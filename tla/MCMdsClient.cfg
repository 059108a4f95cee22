\* Three requests with one retry each, and two tokens after the first.
CONSTANTS
  w1 = w1
  w2 = w2
  w3 = w3
  None = None
  Worker <- MCWorker
  MaxRetries = 1
  MaxIssued = 2

SPECIFICATION FairSpec
CHECK_DEADLOCK FALSE
INVARIANTS TypeOK DeniedOnlyAfterRefresh
PROPERTIES TokenNeverGoesBack RequestsEnd
