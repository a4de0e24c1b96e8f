CONSTANTS
  State <- MCState
  GuaranteesCount = 2
  AssumptionsCount = 2
  Unlisted = {}
  Games <- MCGames
  Size = 2
  MaxChoice = 2
SPECIFICATION Spec
INVARIANTS
  TypeOK
  UnstableIsPending
  LosesForAllGoals
  StabilizedIsClosed
PROPERTIES
  EveryStepProgresses
  ImplementsLifting
  Termination
CHECK_DEADLOCK FALSE
