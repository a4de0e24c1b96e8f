CONSTANTS
  State <- MCState
  GuaranteesCount = 2
  AssumptionsCount = 2
  Unlisted = {0}
  Games <- MCGamesFrom0
  Size = 3
  MaxChoice = 2
SPECIFICATION MCSpec
INVARIANTS
  StrategyTypeOK
  StaysWinning
PROPERTIES
  RankDescends
  RealisesSpecification
CHECK_DEADLOCK FALSE
