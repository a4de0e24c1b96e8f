CONSTANTS
  State <- MCState
  GuaranteesCount = 1
  AssumptionsCount = 1
  Unlisted = {}
  Games <- MCGames
  Size = 3
  MaxChoice = 2
SPECIFICATION Spec
INVARIANTS
  ComputesWinningRegion
  ComputesLeastRanking
CHECK_DEADLOCK FALSE
