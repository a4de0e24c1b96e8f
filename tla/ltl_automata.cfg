SPECIFICATION Spec
CONSTANTS
  fragment_size = 4
  initial_size = 2
  OBDD_CACHE_SIZE = 8
  OBDD_TABLE_SLOTS = 2
  OBDD_TABLE_MAX_DENSITY = 2
  node_fragment_size = 2
  node_initial_size = 2
  FragmentAddress <- MCFragmentAddress
  MaxVar = 7
  Specifications <- MCSpecifications
  MaxStates = 9
  MaxTransitions = 64
INVARIANTS DiagramsDenoteFormulas NodesInUseAreKept AutomatonIsSpecification
PROPERTY ImagesAddStates
