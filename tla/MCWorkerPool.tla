---------------------------- MODULE MCWorkerPool ----------------------------
(* Two workers and up to four tasks: a worker is used again, the ring     *)
(* wraps around, and it can be found empty.                                *)
EXTENDS WorkerPool

MCMaxWorker == 2
MCMaxTasks == 4
=============================================================================
