CONSTANTS
  Workers = {w1, w2, w3}
  Main = main
  Nobody = nobody
  MAX_TASKS <- MCMaxTasks
  MaxN <- MCMaxN
SPECIFICATION Spec
INVARIANTS
  TypeOK
  OneWorkerPerTask
  NoLostWakeup
  ChildrenCounted
  ResultsCorrect
  FaultsExplained
  QuietWhenDestroyed
PROPERTIES
  SignalledTooEarly
  TakenUnlessAllJoin
  ShutdownReturns
