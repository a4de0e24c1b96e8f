CONSTANTS
  StatesCount = 3
  Label <- MCLabel
  Monitored <- MCMonitored
  InputLabel <- MCInputLabel
  Transition <- MCTransition
  MaxTransitions = 4
  InputSignal = {1, 2, 5}
  GlobalAlphabet = {1, 2, 3, 4, 5}
  LocalAlphabet = {1, 2, 3, 4}
  Relabelling <- MCRelabelling
  EnvTick = 6
  SysTick = 7
  InitialSize = 4
SPECIFICATION Spec
INVARIANTS
  TypeOK
  Mirrored
  OptionsAreContiguous
  UnreachableAreRemoved
  NoStateIsMixed
  DeadlocksAreTraced
  EquivalenceIsDecided
  SignalsAreRenamed
  StepsAreKept
