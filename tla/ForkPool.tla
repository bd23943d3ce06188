------------------------------ MODULE ForkPool ------------------------------
(***************************************************************************)
(* The worker pool of lab_4/prob2_forkAPI, where a worker is a forked      *)
(* process: slots and busy flags live in shared mappings, but the ring     *)
(* wrk_fifo is an ordinary global, so every process has a copy of its own  *)
(* and the one a worker requeues itself into is not the one main reads.    *)
(*                                                                         *)
(* A process has one thread, so its ring and its wrk_fifo_mutex are its    *)
(* own and a ring operation is one step.  Main makes the four calls for    *)
(* each task in main.c's order; calls for different tasks interleave.  A   *)
(* task's function and its argument are both represented by its id.        *)
(***************************************************************************)
EXTENDS Integers, FiniteSets

CONSTANTS MAX_WORKER,   \* bktpool.h:15
          MaxTasks      \* bound: how many tasks main ever creates

ASSUME ForkPoolAssumption == MAX_WORKER \in Nat \ {0} /\ MaxTasks \in Nat

Worker == 0 .. (MAX_WORKER - 1)
Task == 0 .. (MaxTasks - 1)
Main == -2
Process == Worker \cup {Main}
NULL == -1          \* a null func or arg, bktaskid -1, and the wid -1

VARIABLES
  i,                    \* the loop variable of bkwrk_create_worker
  mpc,                  \* where main is
  cur,                  \* the task of main's current call
  taskid_seed,          \* the next task id
  tstate,               \* per task: the last call main finished for it
  wid,                  \* per task: what bkwrk_get_worker returned for it
  wrk_fifo,             \* per process: its copy of the ring and its indices
  shared_busy_flags,    \* per worker, shared
  shared_workers,       \* per worker: its slot, shared
  pending,              \* the workers with a pending SIGUSR1
  wpc,                  \* per worker: where its process is
  runs                  \* per task: how often its function was called

mainVars == <<i, mpc, cur>>
taskVars == <<taskid_seed, tstate, wid>>
sharedVars == <<shared_busy_flags, shared_workers>>
workerVars == <<pending, wpc, runs>>
vars == <<mainVars, taskVars, wrk_fifo, sharedVars, workerVars>>

EmptyFifo == [cell |-> [c \in Worker |-> 0], head |-> 0, tail |-> 0, size |-> 0]
EmptySlot == [func |-> NULL, arg |-> NULL, bktaskid |-> NULL]
ZeroSlot == [func |-> NULL, arg |-> NULL, bktaskid |-> 0]

(* The mappings exist and are zeroed when the first worker is forked. *)
Init == /\ i = 0 /\ mpc = "mmap" /\ cur = NULL
        /\ taskid_seed = 0
        /\ tstate = [t \in Task |-> "none"]
        /\ wid = [t \in Task |-> NULL]
        /\ wrk_fifo = [p \in Process |-> EmptyFifo]
        /\ shared_busy_flags = [w \in Worker |-> 0]
        /\ shared_workers = [w \in Worker |-> ZeroSlot]
        /\ pending = {}
        /\ wpc = [w \in Worker |-> "unborn"]
        /\ runs = [t \in Task |-> 0]

-----------------------------------------------------------------------------
(* The ring: enqueue_worker drops a worker when it is full. *)

(* Mutant: the tail runs past the end of the array. *)
EnqueueNoWrap(f, w) ==
  IF f.size < MAX_WORKER
  THEN [cell |-> [f.cell EXCEPT ![f.tail] = w], head |-> f.head,
        tail |-> f.tail + 1, size |-> f.size + 1]
  ELSE f

Enqueue(f, w) ==
  IF f.size < MAX_WORKER
  THEN [cell |-> [f.cell EXCEPT ![f.tail] = w], head |-> f.head,
        tail |-> (f.tail + 1) % MAX_WORKER, size |-> f.size + 1]
  ELSE f

(* Mutant: the head stays where it is. *)
DequeuedSameHead(f) == [f EXCEPT !.size = @ - 1]

Dequeued(f) == [cell |-> f.cell, head |-> (f.head + 1) % MAX_WORKER,
                tail |-> f.tail, size |-> f.size - 1]

-----------------------------------------------------------------------------
(* bktpool_init and bkwrk_create_worker *)

(* Either mmap may fail: main returns at once. *)
MapMemory == /\ mpc = "mmap"
             /\ mpc' \in {"fork", "exited"}
             /\ UNCHANGED <<i, cur, taskVars, wrk_fifo, sharedVars, workerVars>>

(* The child inherits a copy of everything that is not mapped shared, the  *)
(* ring included, and has not blocked any signal yet.                      *)
Fork == /\ mpc = "fork" /\ i < MAX_WORKER
        /\ wpc' = [wpc EXCEPT ![i] = "forked"]
        /\ wrk_fifo' = [wrk_fifo EXCEPT ![i] = wrk_fifo[Main]]
        /\ i' = i + 1
        /\ UNCHANGED <<mpc, cur, taskVars, sharedVars, pending, runs>>

(* main returns -1; the workers forked so far stay behind. *)
ForkFails == /\ mpc = "fork" /\ i < MAX_WORKER
             /\ mpc' = "exited"
             /\ UNCHANGED <<i, cur, taskVars, wrk_fifo, sharedVars, workerVars>>

ResetFifo == /\ mpc = "fork" /\ i = MAX_WORKER
             /\ wrk_fifo' = [wrk_fifo EXCEPT ![Main] =
                               [cell |-> @.cell, head |-> 0, tail |-> 0, size |-> 0]]
             /\ i' = 0 /\ mpc' = "fill"
             /\ UNCHANGED <<cur, taskVars, sharedVars, workerVars>>

Fill == /\ mpc = "fill" /\ i < MAX_WORKER
        /\ wrk_fifo' = [wrk_fifo EXCEPT ![Main] = Enqueue(@, i)]
        /\ i' = i + 1
        /\ UNCHANGED <<mpc, cur, taskVars, sharedVars, workerVars>>

Created == /\ mpc = "fill" /\ i = MAX_WORKER
           /\ mpc' = "client"
           /\ UNCHANGED <<i, cur, taskVars, wrk_fifo, sharedVars, workerVars>>

CreateWorkers == MapMemory \/ Fork \/ ForkFails \/ ResetFifo \/ Fill \/ Created

-----------------------------------------------------------------------------
(* Main's calls for its tasks *)

InitTask == /\ mpc = "client" /\ taskid_seed < MaxTasks
            /\ taskid_seed' = taskid_seed + 1
            /\ tstate' = [tstate EXCEPT ![taskid_seed] = "created"]
            /\ UNCHANGED <<wid, mainVars, wrk_fifo, sharedVars, workerVars>>

(* bkwrk_get_worker: -1 when main's copy of the ring is empty. *)
GetWorker(t) ==
  /\ mpc = "client" /\ tstate[t] = "created"
  /\ LET f == wrk_fifo[Main]
     IN IF f.size > 0
        THEN /\ wid' = [wid EXCEPT ![t] = f.cell[f.head]]
             /\ wrk_fifo' = [wrk_fifo EXCEPT ![Main] = Dequeued(f)]
        ELSE /\ wid' = [wid EXCEPT ![t] = NULL]
             /\ UNCHANGED wrk_fifo
  /\ tstate' = [tstate EXCEPT ![t] = "got"]
  /\ UNCHANGED <<taskid_seed, mainVars, sharedVars, workerVars>>

(* bktask_get_byid finds every created task, and an id of -1 is, unsigned, *)
(* larger than MAX_WORKER.                                                 *)
Assignable(t) == wid[t] \in 0 .. MAX_WORKER /\ t < taskid_seed

AssignFails(t) == /\ mpc = "client" /\ tstate[t] = "got"
                  /\ ~Assignable(t)
                  /\ tstate' = [tstate EXCEPT ![t] = "failed"]
                  /\ UNCHANGED <<taskid_seed, wid, mainVars, wrk_fifo, sharedVars,
                                 workerVars>>

(* The flag and the function first, the argument and the id after them. *)
AssignFunc(t) ==
  /\ mpc = "client" /\ tstate[t] = "got"
  /\ Assignable(t)
  /\ shared_busy_flags' = [shared_busy_flags EXCEPT ![wid[t]] = 1]
  /\ shared_workers' = [shared_workers EXCEPT ![wid[t]] =
                          [func |-> t, arg |-> @.arg, bktaskid |-> @.bktaskid]]
  /\ mpc' = "assign" /\ cur' = t
  /\ UNCHANGED <<i, taskVars, wrk_fifo, workerVars>>

(* Mutant: the argument is never written. *)
AssignArgForgotten ==
  /\ mpc = "assign"
  /\ shared_workers' = [shared_workers EXCEPT ![wid[cur]] =
                         [func |-> @.func, arg |-> @.arg, bktaskid |-> cur]]
  /\ tstate' = [tstate EXCEPT ![cur] = "assigned"]
  /\ mpc' = "client"
  /\ UNCHANGED <<i, cur, taskid_seed, wid, wrk_fifo, shared_busy_flags, workerVars>>

AssignArg ==
  /\ mpc = "assign"
  /\ shared_workers' = [shared_workers EXCEPT ![wid[cur]] =
                         [func |-> @.func, arg |-> cur, bktaskid |-> cur]]
  /\ tstate' = [tstate EXCEPT ![cur] = "assigned"]
  /\ mpc' = "client"
  /\ UNCHANGED <<i, cur, taskid_seed, wid, wrk_fifo, shared_busy_flags, workerVars>>

(* bkwrk_dispatch_worker(-1) reads wrkid_tid[UINT_MAX]: main faults, the   *)
(* workers live on.                                                        *)
DispatchFaults(t) == /\ mpc = "client" /\ tstate[t] = "failed"
                     /\ wid[t] \notin Worker
                     /\ mpc' = "crashed"
                     /\ UNCHANGED <<i, cur, taskVars, wrk_fifo, sharedVars, workerVars>>

(* The signal SIGUSR1 of kill.  A child that has not yet blocked it dies   *)
(* of it; a dead child is never waited for, so kill never fails.           *)
Kill(w) ==
  CASE wpc[w] = "forked" -> wpc' = [wpc EXCEPT ![w] = "killed"] /\ UNCHANGED pending
    [] wpc[w] = "killed" -> UNCHANGED <<wpc, pending>>
    [] OTHER             -> pending' = pending \cup {w} /\ UNCHANGED wpc

(* Mutant: kill is never called. *)
DispatchNoKill(t) ==
  /\ mpc = "client" /\ tstate[t] \in {"assigned", "failed"}
  /\ wid[t] \in Worker
  /\ tstate' = [tstate EXCEPT ![t] = "dispatched"]
  /\ UNCHANGED <<taskid_seed, wid, mainVars, wrk_fifo, sharedVars, workerVars>>

Dispatch(t) ==
  /\ mpc = "client" /\ tstate[t] \in {"assigned", "failed"}
  /\ wid[t] \in Worker
  /\ IF shared_workers[wid[t]].func = NULL
     THEN /\ tstate' = [tstate EXCEPT ![t] = "rejected"]
          /\ UNCHANGED <<wpc, pending>>
     ELSE /\ Kill(wid[t])
          /\ tstate' = [tstate EXCEPT ![t] = "dispatched"]
  /\ UNCHANGED <<taskid_seed, wid, mainVars, wrk_fifo, sharedVars, runs>>

Calls(t) == GetWorker(t) \/ AssignFails(t) \/ AssignFunc(t)
            \/ DispatchFaults(t) \/ Dispatch(t)

-----------------------------------------------------------------------------
(* The child: the code after fork, then bkwrk_worker *)

BlockSignals(w) == /\ wpc[w] = "forked"
                   /\ wpc' = [wpc EXCEPT ![w] = "sigwait"]
                   /\ UNCHANGED <<mainVars, taskVars, wrk_fifo, sharedVars, pending, runs>>

Wake(w) == /\ wpc[w] = "sigwait" /\ w \in pending
           /\ pending' = pending \ {w}
           /\ wpc' = [wpc EXCEPT ![w] = "awake"]
           /\ UNCHANGED <<mainVars, taskVars, wrk_fifo, sharedVars, runs>>

(* A slot without a function is skipped. *)
Call(w) == /\ wpc[w] = "awake"
           /\ runs' = IF shared_workers[w].func = NULL THEN runs
                      ELSE [runs EXCEPT ![shared_workers[w].func] = @ + 1]
           /\ wpc' = [wpc EXCEPT ![w] = IF shared_workers[w].func = NULL
                                        THEN "done" ELSE "running"]
           /\ UNCHANGED <<mainVars, taskVars, wrk_fifo, sharedVars, pending>>

CallReturns(w) == /\ wpc[w] = "running"
                  /\ wpc' = [wpc EXCEPT ![w] = "done"]
                  /\ UNCHANGED <<mainVars, taskVars, wrk_fifo, sharedVars, pending, runs>>

ClearBusy(w) == /\ wpc[w] = "done"
                /\ shared_busy_flags' = [shared_busy_flags EXCEPT ![w] = 0]
                /\ wpc' = [wpc EXCEPT ![w] = "clear"]
                /\ UNCHANGED <<mainVars, taskVars, wrk_fifo, shared_workers, pending, runs>>

ClearSlot(w) == /\ wpc[w] = "clear"
                /\ shared_workers' = [shared_workers EXCEPT ![w] = EmptySlot]
                /\ wpc' = [wpc EXCEPT ![w] = "enqueue"]
                /\ UNCHANGED <<mainVars, taskVars, wrk_fifo, shared_busy_flags,
                               pending, runs>>

(* Mutant: the ring is shared as well. *)
RequeueShared(w) == /\ wpc[w] = "enqueue"
                    /\ wrk_fifo' = [wrk_fifo EXCEPT ![Main] = Enqueue(@, w)]
                    /\ wpc' = [wpc EXCEPT ![w] = "sigwait"]
                    /\ UNCHANGED <<mainVars, taskVars, sharedVars, pending, runs>>

Requeue(w) == /\ wpc[w] = "enqueue"
              /\ wrk_fifo' = [wrk_fifo EXCEPT ![w] = Enqueue(@, w)]
              /\ wpc' = [wpc EXCEPT ![w] = "sigwait"]
              /\ UNCHANGED <<mainVars, taskVars, sharedVars, pending, runs>>

WorkerStep(w) == BlockSignals(w) \/ Wake(w) \/ Call(w) \/ CallReturns(w)
                 \/ ClearBusy(w) \/ ClearSlot(w) \/ Requeue(w)

-----------------------------------------------------------------------------
(* The system *)

ClientStep == InitTask \/ AssignArg \/ \E t \in Task : Calls(t)

(* Main is gone or has nothing left to do, and every worker sleeps. *)
Quiet == /\ \/ mpc \in {"crashed", "exited"}
            \/ /\ mpc = "client" /\ taskid_seed = MaxTasks
               /\ \A t \in Task : tstate[t] \in {"dispatched", "rejected"}
         /\ \A w \in Worker : wpc[w] \in {"unborn", "sigwait", "killed"}
         /\ pending = {}
         /\ UNCHANGED vars

Next == \/ CreateWorkers
        \/ ClientStep
        \/ \E w \in Worker : WorkerStep(w)
        \/ Quiet

(* Main makes its calls, as main.c does, and every process runs on as long *)
(* as it can.                                                              *)
Fairness == /\ WF_vars(CreateWorkers) /\ WF_vars(ClientStep)
            /\ \A w \in Worker : WF_vars(WorkerStep(w))

Spec == Init /\ [][Next]_vars /\ Fairness

-----------------------------------------------------------------------------
(* Properties *)

Maybe(S) == S \cup {NULL}
MainPc == {"mmap", "fork", "fill", "client", "assign", "crashed", "exited"}
WorkerPc == {"unborn", "forked", "killed", "sigwait", "awake", "running", "done",
             "clear", "enqueue"}
TaskState == {"none", "created", "got", "assigned", "failed", "rejected", "dispatched"}
Fifo == [cell : [Worker -> Worker], head : Worker, tail : Worker,
         size : 0 .. MAX_WORKER]
Slot == [func : Maybe(Task), arg : Maybe(Task), bktaskid : Maybe(Task \cup {0})]

(* The type invariant. *)
TypeOK == /\ i \in 0 .. MAX_WORKER /\ mpc \in MainPc /\ cur \in Maybe(Task)
          /\ taskid_seed \in 0 .. MaxTasks
          /\ tstate \in [Task -> TaskState] /\ wid \in [Task -> Maybe(Worker)]
          /\ wrk_fifo \in [Process -> Fifo]
          /\ shared_busy_flags \in [Worker -> {0, 1}]
          /\ shared_workers \in [Worker -> Slot]
          /\ pending \subseteq Worker /\ wpc \in [Worker -> WorkerPc]
          /\ runs \in [Task -> Nat]

(* bkwrk_get_worker hands a worker out once and never again: what the       *)
(* worker enqueues at bkwrk.c:80 stays in the worker's own copy.            *)
HandedOutOnce ==
  \A t, u \in Task : wid[t] # NULL /\ wid[t] = wid[u] => t = u

(* Without a mutex around the slots, a worker that clears its slot still    *)
(* clears the task it has run, never one assigned since (bkwrk.c:75-78).    *)
ClearsOwnTask ==
  \A w \in Worker : wpc[w] \in {"running", "done", "clear"} =>
    \E t \in Task : runs[t] = 1 /\ wid[t] = w /\ shared_workers[w].bktaskid = t

(* A worker that wakes up finds the function, the argument and the id of    *)
(* one dispatched task that has not run.                                    *)
WokenWorkerHasItsTask ==
  \A w \in Worker : wpc[w] = "awake" =>
    \E t \in Task : /\ shared_workers[w] = [func |-> t, arg |-> t, bktaskid |-> t]
                    /\ tstate[t] = "dispatched" /\ wid[t] = w /\ runs[t] = 0

(* A dispatched task runs, unless its signal came before the child had      *)
(* blocked SIGUSR1 (bkwrk.c:137-143) and killed it.                         *)
RunsUnlessKilledEarly ==
  \A t \in Task : tstate[t] = "dispatched" ~>
    runs[t] = 1 \/ \E w \in Worker : wid[t] = w /\ wpc[w] = "killed"

(* With more tasks than workers, main always comes to ask an empty ring,    *)
(* however many workers have finished by then, unless it never started.     *)
PoolRunsDry == MaxTasks > MAX_WORKER =>
  <>(mpc = "exited" \/ \E t \in Task : tstate[t] # "created" /\ tstate[t] # "none"
                                       /\ wid[t] = NULL)
=============================================================================
