----------------------------- MODULE MCForkPool -----------------------------
(* Two workers and four tasks: twice as many tasks as there are workers.   *)
EXTENDS ForkPool

MCMaxWorker == 2
MCMaxTasks == 4
=============================================================================
