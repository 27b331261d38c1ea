SPECIFICATION Spec
CONSTANTS
  h1 = h1
  h2 = h2
  p1 = p1
  p2 = p2
  g1 = g1
  local = local
  r1 = r1
  r2 = r2
  A = A
  B = B
  Handles = {h1, h2}
  Principals = {p1, p2}
  Grants = {g1}
  LocalProcess = local
  Processes = {A, B}
  Registries = {r1, r2}
  Host <- TwoProcesses
  Requests = {q1, q2, q3}
  Calls <- ClaimCalls
  StoredOwner <- GuestAndSaved
  NoRow = NoRow
  NoCall = NoCall
  MaxAttempts = 2
  MaxOperations = 2
  MaxSaved = 1
  GuestRetention = 1
  SavedRetention = 2
  RateLimitWindow = 2
  MaximumRequests = 2
  MaxTime = 2
SYMMETRY Symmetry
INVARIANTS
  AnswersStand
  OnlyAcknowledgedCommands
  RevisionIdentifiesRow
  SavedQuota
PROPERTIES
  OwnerAppends
  OwnershipMovesOnce
  LedgerSpec
CHECK_DEADLOCK FALSE
