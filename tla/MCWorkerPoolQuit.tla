-------------------------- MODULE MCWorkerPoolQuit --------------------------
(* Two workers, three tasks and one press of the quit key. *)
EXTENDS WorkerPoolQuit

MCMaxWorker == 2
MCMaxTasks == 3
MCMaxQuits == 1
=============================================================================
