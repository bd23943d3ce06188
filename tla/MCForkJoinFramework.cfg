CONSTANTS
  Main = main
  NoValue = novalue
  N <- MCN
  Arr <- MCArr
SPECIFICATION Spec
INVARIANTS
  TypeOK
  SumsCorrect
  FramesOutliveTasks
  NoSleeperOnCompleted
PROPERTIES
  JoinReturns
