SPECIFICATION Spec
CONSTANTS
  Creatures = {c1, c2}
  Nobody = Nobody
  NoTrigger = NoTrigger
  MaxProcedures = 3
  MaxWindows = 3
  MaxTurns = 1
  NestedSaves = FALSE
SYMMETRY Symmetry
INVARIANTS
  TypeOK
  DecisionsAreOpen
  AskedOnce
  OneReaction
PROPERTIES
  ProceduresNest
CHECK_DEADLOCK FALSE
