CONSTANTS
  Workers = {w1, w2}
  Main = main
  Nobody = nobody
  MAX_TASKS <- MCMaxTasks
  MaxN <- MCMaxN
SPECIFICATION Spec
PROPERTIES
  CompletedJoinReturns
