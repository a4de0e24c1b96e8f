CONSTANTS
  State <- MCState
  GuaranteesCount = 1
  AssumptionsCount = 1
  Unlisted = {0}
  Games <- MCGamesNotEntering0
  Size = 3
  MaxChoice = 2
SPECIFICATION Spec
INVARIANT ComputesWinningRegion
CHECK_DEADLOCK FALSE
