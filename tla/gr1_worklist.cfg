CONSTANTS
  State <- MCState
  GuaranteesCount = 3
  AssumptionsCount = 1
  Unlisted = {}
  Games <- MCGames
  Size = 2
  MaxChoice = 2
  INITIAL_HEAP_SIZE = 1
SPECIFICATION Spec
INVARIANTS
  TypeOK
  HeapMatchesKeys
  HeapPropertyKept
PROPERTIES
  ImplementsRanking
CHECK_DEADLOCK FALSE
