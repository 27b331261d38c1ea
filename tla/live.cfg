SPECIFICATION Spec
CONSTANTS
  Handles = {h1}
  Principals = {p1, p2}
  LocalProcess = local
  Guest = guest
  Requests = {1, 2, 3, 4}
  NoSession = NoSession
  NoCall = NoCall
  SavedRetention = 1
  MaxTime = 2
ACTION_CONSTRAINT InOrder
INVARIANTS
  TypeOK
  ResultsFollowTheLog
  OnlyOwnersOperate
PROPERTIES
  LocalSessionsStay
  EveryCallSettles
CHECK_DEADLOCK FALSE
