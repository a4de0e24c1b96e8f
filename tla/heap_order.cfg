CONSTANTS
  State <- MCState
  GuaranteesCount = 1
  AssumptionsCount = 2
  Unlisted = {}
  Games <- MCGames
  Size = 2
  MaxChoice = 2
  INITIAL_HEAP_SIZE = 1
SPECIFICATION Spec
INVARIANT HeapPropertyKept
CHECK_DEADLOCK FALSE
