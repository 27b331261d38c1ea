SPECIFICATION Spec
CONSTANTS
  RateLimitWindow = 3
  MaximumRequests = 2
  Keys = {k1, k2}
  Processes = {A, B}
  Nobody = Nobody
  Second = 2
  BusyTimeout = 1
  MaxRequests = 5
  MaxTime = 6
SYMMETRY Symmetry
INVARIANTS
  BurstBound
  RetryAfterSuffices
  RefusalsAreEarned
CHECK_DEADLOCK FALSE
