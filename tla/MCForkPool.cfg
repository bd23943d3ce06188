CONSTANTS
  MAX_WORKER <- MCMaxWorker
  MaxTasks <- MCMaxTasks
SPECIFICATION Spec
INVARIANTS
  TypeOK
  HandedOutOnce
  ClearsOwnTask
  WokenWorkerHasItsTask
PROPERTIES
  RunsUnlessKilledEarly
  PoolRunsDry
