SPECIFICATION Spec
CONSTANTS
  Characters = {c1, c2}
  StatBlocks = {n1}
  BattleIds = {b1}
  Unregistered = Unregistered
  NoBattle = NoBattle
  NoOwner = NoOwner
  NoSelection = NoSelection
  MaxObjects = 6
  MaxHeld = 2
  MaxActs = 2
SYMMETRY Symmetry
INVARIANTS
  TypeOK
  OccupancyMatchesBattle
  PendingFollowsBattle
  SelectionNamesOneAct
  CompanionsFollowTheirOwner
PROPERTIES
  NoLostUpdate
CHECK_DEADLOCK FALSE
