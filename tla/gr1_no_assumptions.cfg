CONSTANTS
  State <- MCState
  GuaranteesCount = 1
  AssumptionsCount = 0
  Unlisted = {}
  Games <- MCGames
  Size = 2
  MaxChoice = 2
SPECIFICATION Spec
INVARIANT ComputesWinningRegion
CHECK_DEADLOCK FALSE
