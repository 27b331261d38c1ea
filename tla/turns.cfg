SPECIFICATION Spec
CONSTANTS
  Owner = owner
  Familiar = familiar
  Others = {o1}
  Scores = {1, 2}
  MaxLasting = 2
  MaxEffects = 1
  MaxJoins = 1
  MaxRounds = 3
  TurnEndDamage = FALSE
INVARIANTS
  TypeOK
  OrderedByInitiative
  RosterMatchesOrder
  ReactionsAreNotRegained
PROPERTIES
  OneTurnARound
  EffectsEndOnTime
  DurationsLast
CHECK_DEADLOCK FALSE
