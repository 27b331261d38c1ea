SPECIFICATION FairSpec
CONSTANTS
  h1 = h1
  h2 = h2
  p1 = p1
  p2 = p2
  g1 = g1
  local = local
  r1 = r1
  r2 = r2
  A = A
  B = B
  Handles = {h1, h2}
  Principals = {p1, p2}
  Grants = {g1}
  LocalProcess = local
  Processes = {A}
  Registries = {r1, r2}
  Host <- OneProcess
  Requests = {q1, q2, q3}
  Calls <- HttpCalls
  StoredOwner <- GuestAndSaved
  NoRow = NoRow
  NoCall = NoCall
  MaxAttempts = 2
  MaxOperations = 2
  MaxSaved = 2
  GuestRetention = 1
  SavedRetention = 1
  RateLimitWindow = 1
  MaximumRequests = 2
  MaxTime = 1
INVARIANTS
  RegistrySerializesHandle
  OnlyRunsConflict
PROPERTIES
  EveryCallSettles
CHECK_DEADLOCK FALSE
