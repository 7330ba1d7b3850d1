CONSTANTS
  Callers = {c1, c2}
  MaxInFlight = 1
  Lease = 4
  KeySlack = 1
  RequestTimeout = 1
  MaxDelay = 1
  MaxTokenWait = 0
  MaxSkew = 1
  MaxLost = 1
  LastStart = 2
  MaxTime = 16
SPECIFICATION FairSpec
INVARIANTS InFlightBounded OpenRequestsAreCounted
PROPERTY CallersGetThrough
CHECK_DEADLOCK FALSE
