CONSTANTS
  MAX_WORKER <- MCMaxWorker
  MaxTasks <- MCMaxTasks
  MaxQuits <- MCMaxQuits
SPECIFICATION QuitSpec
INVARIANT SelectedNotBusy
CHECK_DEADLOCK FALSE
