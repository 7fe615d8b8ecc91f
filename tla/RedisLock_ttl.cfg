SPECIFICATION LockLiveSpec
CONSTANTS
  Callers = {a, b, c}
  Nobody = Nobody
  Ttl = 2
  MaxRetries = 1
INVARIANT ExclusiveInTime
PROPERTIES KeptWhileRunning Freed
CHECK_DEADLOCK FALSE
