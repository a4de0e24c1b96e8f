CONSTANTS
  State <- MCState
  GuaranteesCount = 1
  AssumptionsCount = 3
  Unlisted = {}
  InitialState = 0
  Games <- MCGames
  RealizableGames <- MCRealizableGames
SPECIFICATION Spec
CHECK_DEADLOCK FALSE
INVARIANTS DiagnosisTypeOK BitsMatchAutomaton
PROPERTIES NeverFallsBack ImplementsMinimisation Terminates
