SPECIFICATION Spec
CONSTANTS
  ComponentsCount = 3
  COMPOSITE_TABLE_SLOTS = 256
  COMPOSITE_TABLE_MAX_DENSITY = 5
  BUCKET_SIZE = 5
  FLUENT_BUCKET_SIZE = 2
  Signal <- MCSignal
  Systems <- MCWalks
  MaxStates = 28
  MaxTransitions = 204
INVARIANT NumbersAreDistinct
CHECK_DEADLOCK FALSE
