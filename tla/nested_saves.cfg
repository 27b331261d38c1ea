SPECIFICATION Spec
CONSTANTS
  Creatures = {c1, c2}
  Nobody = Nobody
  NoTrigger = NoTrigger
  MaxProcedures = 3
  MaxWindows = 3
  MaxTurns = 1
  NestedSaves = TRUE
SYMMETRY Symmetry
INVARIANTS
  ResolvedReactionsResume
CHECK_DEADLOCK FALSE
