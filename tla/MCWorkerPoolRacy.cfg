CONSTANTS
  MAX_WORKER <- MCMaxWorker
  MaxTasks <- MCMaxTasks
SPECIFICATION RacySpec
INVARIANT WorkerKnowsItsId
CHECK_DEADLOCK FALSE
