CONSTANTS
  MAX_WORKER <- MCMaxWorker
  MaxTasks <- MCMaxTasks
SPECIFICATION Spec
INVARIANTS
  TypeOK
  FifoHoldsIdle
  SelectedWorkerIdle
  NoDroppedRequeue
  NoWorkerLost
  WokenWorkerHasItsTask
  NoSignalMerged
PROPERTIES
  TaskRunsAndWorkerReturns
  ContractSpec
