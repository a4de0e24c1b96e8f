SPECIFICATION Spec
CONSTANTS
  ComponentsCount = 3
  COMPOSITE_TABLE_SLOTS = 8
  COMPOSITE_TABLE_MAX_DENSITY = 1
  BUCKET_SIZE = 5
  FLUENT_BUCKET_SIZE = 2
  Signal <- MCSignal
  Systems <- MCSystems
  MaxStates = 28
  MaxTransitions = 204
INVARIANTS CompositionTypeOK CompositionIsProduct NumbersAreDistinct ListsAgree
PROPERTY ExplorationEnds
CHECK_DEADLOCK FALSE
