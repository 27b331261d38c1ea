SPECIFICATION Spec
CONSTANTS
  Owner = owner
  Familiar = familiar
  Others = {o1}
  Scores = {1, 2}
  MaxLasting = 1
  MaxEffects = 1
  MaxJoins = 1
  MaxRounds = 3
  TurnEndDamage = TRUE
INVARIANTS
  RosterMatchesOrder
CHECK_DEADLOCK FALSE
