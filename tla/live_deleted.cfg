SPECIFICATION Spec
CONSTANTS
  Handles = {h1}
  Principals = {p1, p2}
  LocalProcess = local
  Guest = guest
  Requests = {1, 2, 3}
  NoSession = NoSession
  NoCall = NoCall
  SavedRetention = 1
  MaxTime = 1
ACTION_CONSTRAINT InOrder
PROPERTIES
  DeletedIsUnavailable
CHECK_DEADLOCK FALSE
