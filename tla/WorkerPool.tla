----------------------------- MODULE WorkerPool -----------------------------
(***************************************************************************)
(* The signal-driven worker pool of lab_4/prob1_FIFO (bkwrk.c, bktask.c,   *)
(* bktpool.c, with WORK_THREAD defined): the main thread clones the        *)
(* workers, fills the ring buffer wrk_fifo of available workers, and then  *)
(* creates tasks, takes a worker for each, writes the task into the        *)
(* worker's slot and signals the worker; a worker sleeps in sigwait, runs  *)
(* its slot, clears it and puts itself back into the ring.                 *)
(*                                                                         *)
(* The main thread is any caller that treats every task as main.c does:    *)
(* bktask_init, bkwrk_get_worker, bktask_assign_worker,                    *)
(* bkwrk_dispatch_worker, in that order, return values ignored; the calls  *)
(* of different tasks interleave freely.  A pointer to a task's function   *)
(* and its argument are both represented by the task's id.                 *)
(***************************************************************************)
EXTENDS Integers, Sequences

CONSTANTS MAX_WORKER,   \* bktpool.h:9
          MaxTasks      \* bound: how many tasks the main thread ever creates

ASSUME PoolAssumption == MAX_WORKER \in Nat \ {0} /\ MaxTasks \in Nat

Worker == 0 .. (MAX_WORKER - 1)
Task == 0 .. (MaxTasks - 1)
NULL == -1          \* a null func or arg, bktaskid -1, and the wid -1
Nobody == -1        \* the mutex is free
Main == -2          \* the main thread as the mutex's holder

VARIABLES
  i,                \* bkwrk_create_worker's loop variable
  j,                \* that of the loop that fills the ring, another i (bkwrk.c:171)
  mpc,              \* where the main thread is
  cur,              \* the task of the main thread's current call
  taskid_seed,      \* the next task id
  bktask_sz,        \* how many tasks were created
  bktask,           \* the ids on the task list
  tstate,           \* per task: the last call main finished for it
  wid,              \* per task: what bkwrk_get_worker returned for it
  wrk_fifo, wrk_fifo_head, wrk_fifo_tail, wrk_fifo_size, wrk_fifo_mutex,
  wrkid_busy,       \* per worker: the busy flag
  worker,           \* per worker: its slot
  pending,          \* per worker: its set of pending signals
  wpc,              \* per worker: where its thread is
  idx,              \* per worker: the id it read through its argument
  runs              \* per task: how often its function was called

fifoVars == <<wrk_fifo, wrk_fifo_head, wrk_fifo_tail, wrk_fifo_size,
              wrk_fifo_mutex>>
taskVars == <<taskid_seed, bktask_sz, bktask, tstate, wid>>
mainVars == <<i, j, mpc, cur>>
slotVars == <<wrkid_busy, worker>>
threadVars == <<pending, wpc, idx, runs>>
vars == <<mainVars, taskVars, fifoVars, slotVars, threadVars>>

EmptySlot == [func |-> NULL, arg |-> NULL, bktaskid |-> NULL]

(* Static storage starts zeroed, and id 0 is not NULL. *)
ZeroSlot == [func |-> NULL, arg |-> NULL, bktaskid |-> 0]

Init == /\ i = 0 /\ j = 0 /\ mpc = "clone" /\ cur = NULL
        /\ taskid_seed = 0 /\ bktask_sz = 0 /\ bktask = {}
        /\ tstate = [t \in Task |-> "none"]
        /\ wid = [t \in Task |-> NULL]
        /\ wrk_fifo = [c \in Worker |-> 0]
        /\ wrk_fifo_head = 0 /\ wrk_fifo_tail = 0 /\ wrk_fifo_size = 0
        /\ wrk_fifo_mutex = Nobody
        /\ wrkid_busy = [w \in Worker |-> 0]
        /\ worker = [w \in Worker |-> ZeroSlot]
        /\ pending = [w \in Worker |-> {}]
        /\ wpc = [w \in Worker |-> "unborn"]
        /\ idx = [w \in Worker |-> NULL]
        /\ runs = [t \in Task |-> 0]

-----------------------------------------------------------------------------
(* The ring of available workers.  Each operation is one critical section  *)
(* of wrk_fifo_mutex in two steps: what it reads and stores after the      *)
(* lock, and the indices it moves before the unlock.                       *)

Enqueue(p, w) == /\ wrk_fifo_mutex = Nobody
                 /\ wrk_fifo_mutex' = p
                 /\ wrk_fifo' = IF wrk_fifo_size < MAX_WORKER
                                THEN [wrk_fifo EXCEPT ![wrk_fifo_tail] = w]
                                ELSE wrk_fifo
                 /\ UNCHANGED <<wrk_fifo_head, wrk_fifo_tail, wrk_fifo_size>>

(* Mutant: the tail runs past the end of the array. *)
EnqueueReturnNoWrap(p) ==
  /\ wrk_fifo_mutex = p
  /\ wrk_fifo_mutex' = Nobody
  /\ wrk_fifo_tail' = wrk_fifo_tail + 1
  /\ wrk_fifo_size' = wrk_fifo_size + 1
  /\ UNCHANGED <<wrk_fifo, wrk_fifo_head>>

(* Mutant: the ring counts as full one cell early. *)
EnqueueReturnFullEarly(p) ==
  /\ wrk_fifo_mutex = p
  /\ wrk_fifo_mutex' = Nobody
  /\ IF wrk_fifo_size < MAX_WORKER - 1
     THEN /\ wrk_fifo_tail' = (wrk_fifo_tail + 1) % MAX_WORKER
          /\ wrk_fifo_size' = wrk_fifo_size + 1
     ELSE UNCHANGED <<wrk_fifo_tail, wrk_fifo_size>>
  /\ UNCHANGED <<wrk_fifo, wrk_fifo_head>>

EnqueueReturn(p) ==
  /\ wrk_fifo_mutex = p
  /\ wrk_fifo_mutex' = Nobody
  /\ IF wrk_fifo_size < MAX_WORKER
     THEN /\ wrk_fifo_tail' = (wrk_fifo_tail + 1) % MAX_WORKER
          /\ wrk_fifo_size' = wrk_fifo_size + 1
     ELSE UNCHANGED <<wrk_fifo_tail, wrk_fifo_size>>
  /\ UNCHANGED <<wrk_fifo, wrk_fifo_head>>

-----------------------------------------------------------------------------
(* bkwrk_create_worker *)

(* The signals are blocked before the clone, so a worker never takes one   *)
(* outside sigwait; the worker gets the address of i, not its value.       *)
Clone == /\ mpc = "clone" /\ i < MAX_WORKER
         /\ wpc' = [wpc EXCEPT ![i] = "boot"]
         /\ mpc' = "pause"
         /\ UNCHANGED <<i, j, cur, taskVars, fifoVars, slotVars, pending, idx, runs>>

(* usleep(100), then the loop goes on. *)
NextClone == /\ mpc = "pause"
             /\ i' = i + 1
             /\ mpc' = "clone"
             /\ UNCHANGED <<j, cur, taskVars, fifoVars, slotVars, threadVars>>

(* The sleep is long enough for the new worker to have read its id. *)
PauseIsEnough == mpc = "pause" => wpc[i] # "boot"

ResetFifo == /\ mpc = "clone" /\ i = MAX_WORKER
             /\ j' = 0 /\ mpc' = "fill"
             /\ wrk_fifo_head' = 0 /\ wrk_fifo_tail' = 0 /\ wrk_fifo_size' = 0
             /\ UNCHANGED <<wrk_fifo, wrk_fifo_mutex>>
             /\ UNCHANGED <<i, cur, taskVars, slotVars, threadVars>>

Fill == /\ mpc = "fill" /\ j < MAX_WORKER
        /\ Enqueue(Main, j)
        /\ mpc' = "filling"
        /\ UNCHANGED <<i, j, cur, taskVars, slotVars, threadVars>>

FillReturn == /\ mpc = "filling"
              /\ EnqueueReturn(Main)
              /\ j' = j + 1 /\ mpc' = "fill"
              /\ UNCHANGED <<i, cur, taskVars, slotVars, threadVars>>

Created == /\ mpc = "fill" /\ j = MAX_WORKER
           /\ mpc' = "client"
           /\ UNCHANGED <<i, j, cur, taskVars, fifoVars, slotVars, threadVars>>

CreateWorkers == Clone \/ (NextClone /\ PauseIsEnough) \/ ResetFifo
                 \/ Fill \/ FillReturn \/ Created

-----------------------------------------------------------------------------
(* The calls the main thread makes for its tasks *)

(* bktask_init *)
InitTask == /\ mpc = "client" /\ taskid_seed < MaxTasks
            /\ taskid_seed' = taskid_seed + 1
            /\ bktask_sz' = bktask_sz + 1
            /\ bktask' = bktask \cup {taskid_seed}
            /\ tstate' = [tstate EXCEPT ![taskid_seed] = "created"]
            /\ UNCHANGED wid
            /\ UNCHANGED <<mainVars, fifoVars, slotVars, threadVars>>

(* bkwrk_get_worker = dequeue_worker: the empty ring gives -1. *)
GetNoWorker(t) == /\ mpc = "client" /\ tstate[t] = "created"
                  /\ wrk_fifo_mutex = Nobody /\ wrk_fifo_size = 0
                  /\ wid' = [wid EXCEPT ![t] = NULL]
                  /\ tstate' = [tstate EXCEPT ![t] = "got"]
                  /\ UNCHANGED <<taskid_seed, bktask_sz, bktask>>
                  /\ UNCHANGED <<mainVars, fifoVars, slotVars, threadVars>>

(* Mutant: the last worker in is the first out. *)
DequeueAtTail(t) ==
  /\ mpc = "client" /\ tstate[t] = "created"
  /\ wrk_fifo_mutex = Nobody /\ wrk_fifo_size > 0
  /\ wrk_fifo_mutex' = Main
  /\ wid' = [wid EXCEPT ![t] = wrk_fifo[(wrk_fifo_tail + MAX_WORKER - 1) % MAX_WORKER]]
  /\ mpc' = "dequeue" /\ cur' = t
  /\ UNCHANGED <<taskid_seed, bktask_sz, bktask, tstate>>
  /\ UNCHANGED <<wrk_fifo, wrk_fifo_head, wrk_fifo_tail, wrk_fifo_size>>
  /\ UNCHANGED <<i, j, slotVars, threadVars>>

Dequeue(t) == /\ mpc = "client" /\ tstate[t] = "created"
              /\ wrk_fifo_mutex = Nobody /\ wrk_fifo_size > 0
              /\ wrk_fifo_mutex' = Main
              /\ wid' = [wid EXCEPT ![t] = wrk_fifo[wrk_fifo_head]]
              /\ mpc' = "dequeue" /\ cur' = t
              /\ UNCHANGED <<taskid_seed, bktask_sz, bktask, tstate>>
              /\ UNCHANGED <<wrk_fifo, wrk_fifo_head, wrk_fifo_tail, wrk_fifo_size>>
              /\ UNCHANGED <<i, j, slotVars, threadVars>>

(* Mutant: the head stays on the worker that was handed out. *)
DequeueReturnKeepsHead ==
  /\ mpc = "dequeue"
  /\ wrk_fifo_size' = wrk_fifo_size - 1
  /\ wrk_fifo_mutex' = Nobody
  /\ tstate' = [tstate EXCEPT ![cur] = "got"]
  /\ mpc' = "client" /\ UNCHANGED cur
  /\ UNCHANGED <<taskid_seed, bktask_sz, bktask, wid>>
  /\ UNCHANGED <<wrk_fifo, wrk_fifo_head, wrk_fifo_tail>>
  /\ UNCHANGED <<i, j, slotVars, threadVars>>

DequeueReturn == /\ mpc = "dequeue"
                 /\ wrk_fifo_head' = (wrk_fifo_head + 1) % MAX_WORKER
                 /\ wrk_fifo_size' = wrk_fifo_size - 1
                 /\ wrk_fifo_mutex' = Nobody
                 /\ tstate' = [tstate EXCEPT ![cur] = "got"]
                 /\ mpc' = "client" /\ UNCHANGED cur
                 /\ UNCHANGED <<taskid_seed, bktask_sz, bktask, wid>>
                 /\ UNCHANGED <<wrk_fifo, wrk_fifo_tail>>
                 /\ UNCHANGED <<i, j, slotVars, threadVars>>

(* bktask_get_byid finds every created task. *)
Found(t) == t <= bktask_sz /\ t \in bktask

(* bktask_assign_worker's early returns: wrkid is unsigned, so -1 is too   *)
(* large and MAX_WORKER itself is not.                                     *)
Assignable(t) == wid[t] \in 0 .. MAX_WORKER /\ Found(t)

AssignFails(t) == /\ mpc = "client" /\ tstate[t] = "got"
                  /\ ~Assignable(t)
                  /\ tstate' = [tstate EXCEPT ![t] = "failed"]
                  /\ UNCHANGED <<taskid_seed, bktask_sz, bktask, wid>>
                  /\ UNCHANGED <<mainVars, fifoVars, slotVars, threadVars>>

AssignBusy(t) == /\ mpc = "client" /\ tstate[t] = "got"
                 /\ Assignable(t)
                 /\ wrkid_busy' = [wrkid_busy EXCEPT ![wid[t]] = 1]
                 /\ mpc' = "assign func" /\ cur' = t
                 /\ UNCHANGED <<i, j, taskVars, fifoVars, worker, threadVars>>

AssignFunc == /\ mpc = "assign func"
              /\ worker' = [worker EXCEPT ![wid[cur]] =
                             [func |-> cur, arg |-> @.arg, bktaskid |-> @.bktaskid]]
              /\ mpc' = "assign arg"
              /\ UNCHANGED <<i, j, cur, taskVars, fifoVars, wrkid_busy, threadVars>>

(* Mutant: the argument is never written. *)
AssignArgForgotten ==
  /\ mpc = "assign arg"
  /\ worker' = [worker EXCEPT ![wid[cur]] =
                            [func |-> @.func, arg |-> @.arg, bktaskid |-> cur]]
  /\ tstate' = [tstate EXCEPT ![cur] = "assigned"]
  /\ mpc' = "client"
  /\ UNCHANGED <<taskid_seed, bktask_sz, bktask, wid>>
  /\ UNCHANGED <<i, j, cur, fifoVars, wrkid_busy, threadVars>>

AssignArg == /\ mpc = "assign arg"
             /\ worker' = [worker EXCEPT ![wid[cur]] =
                            [func |-> @.func, arg |-> cur, bktaskid |-> cur]]
             /\ tstate' = [tstate EXCEPT ![cur] = "assigned"]
             /\ mpc' = "client"
             /\ UNCHANGED <<taskid_seed, bktask_sz, bktask, wid>>
             /\ UNCHANGED <<i, j, cur, fifoVars, wrkid_busy, threadVars>>

(* bkwrk_dispatch_worker(-1), which main.c calls after a failed assignment, *)
(* reads wrkid_tid[UINT_MAX], far outside the program: the thread faults.   *)
DispatchFaults(t) == /\ mpc = "client" /\ tstate[t] = "failed"
                     /\ wid[t] \notin Worker
                     /\ mpc' = "crashed"
                     /\ UNCHANGED <<i, j, cur, taskVars, fifoVars, slotVars, threadVars>>

DispatchCheck(t) ==
  /\ mpc = "client" /\ tstate[t] \in {"assigned", "failed"}
  /\ wid[t] \in Worker
  /\ IF worker[wid[t]].func = NULL
     THEN /\ tstate' = [tstate EXCEPT ![t] = "rejected"]
          /\ UNCHANGED <<mpc, cur>>
     ELSE /\ mpc' = "tkill" /\ cur' = t
          /\ UNCHANGED tstate
  /\ UNCHANGED <<taskid_seed, bktask_sz, bktask, wid>>
  /\ UNCHANGED <<i, j, fifoVars, slotVars, threadVars>>

(* Mutant: the signal is not sent. *)
TkillNoSignal == /\ mpc = "tkill"
                 /\ tstate' = [tstate EXCEPT ![cur] = "dispatched"]
                 /\ mpc' = "client"
                 /\ UNCHANGED <<taskid_seed, bktask_sz, bktask, wid>>
                 /\ UNCHANGED <<i, j, cur, fifoVars, slotVars, threadVars>>

(* A standard signal that is already pending is not queued twice. *)
Tkill == /\ mpc = "tkill"
         /\ pending' = [pending EXCEPT ![wid[cur]] = @ \cup {"SIGUSR1"}]
         /\ tstate' = [tstate EXCEPT ![cur] = "dispatched"]
         /\ mpc' = "client"
         /\ UNCHANGED <<taskid_seed, bktask_sz, bktask, wid>>
         /\ UNCHANGED <<i, j, cur, fifoVars, slotVars, wpc, idx, runs>>

Calls(t) == GetNoWorker(t) \/ Dequeue(t) \/ AssignFails(t) \/ AssignBusy(t)
            \/ DispatchFaults(t) \/ DispatchCheck(t)

Returns == DequeueReturn \/ AssignFunc \/ AssignArg \/ Tkill

-----------------------------------------------------------------------------
(* bkwrk_worker *)

(* The worker's i is whatever the main thread's i holds by now: its        *)
(* argument is the address of i, on the stack of bkwrk_create_worker.      *)
(* Other calls use that stack when it has returned; 0 .. MAX_WORKER stands *)
(* for what they leave there.                                              *)
IdRead == IF mpc \in {"clone", "pause", "fill", "filling"} THEN {i} ELSE 0 .. MAX_WORKER

ReadId(w) == /\ wpc[w] = "boot"
             /\ \E id \in IdRead : idx' = [idx EXCEPT ![w] = id]
             /\ wpc' = [wpc EXCEPT ![w] = "sigwait"]
             /\ UNCHANGED <<mainVars, taskVars, fifoVars, slotVars, pending, runs>>

(* Mutant: sigwait leaves the signal pending. *)
WakeKeepsSignal(w) == /\ wpc[w] = "sigwait" /\ pending[w] # {}
                      /\ wpc' = [wpc EXCEPT ![w] = "awake"]
                      /\ UNCHANGED <<mainVars, taskVars, fifoVars, slotVars,
                                     pending, idx, runs>>

Wake(w) == /\ wpc[w] = "sigwait"
           /\ \E s \in pending[w] :
                pending' = [pending EXCEPT ![w] = @ \ {s}]
           /\ wpc' = [wpc EXCEPT ![w] = "awake"]
           /\ UNCHANGED <<mainVars, taskVars, fifoVars, slotVars, idx, runs>>

(* A slot without a function is skipped and treated like a finished one. *)
Call(w) == /\ wpc[w] = "awake"
           /\ wpc' = [wpc EXCEPT ![w] = IF worker[idx[w]].func = NULL
                                        THEN "done" ELSE "running"]
           /\ runs' = IF worker[idx[w]].func = NULL THEN runs
                      ELSE [runs EXCEPT ![worker[idx[w]].func] = @ + 1]
           /\ UNCHANGED <<mainVars, taskVars, fifoVars, slotVars, pending, idx>>

(* Mutant: the worker requeues itself without cleaning up. *)
CallReturnsUncleaned(w) == /\ wpc[w] = "running"
                           /\ wpc' = [wpc EXCEPT ![w] = "enqueue"]
                           /\ UNCHANGED <<mainVars, taskVars, fifoVars, slotVars,
                                          pending, idx, runs>>

CallReturns(w) == /\ wpc[w] = "running"
                  /\ wpc' = [wpc EXCEPT ![w] = "done"]
                  /\ UNCHANGED <<mainVars, taskVars, fifoVars, slotVars, pending, idx, runs>>

(* Mutant: the busy flag stays up. *)
ClearBusyForgotten(w) == /\ wpc[w] = "done"
                         /\ wpc' = [wpc EXCEPT ![w] = "clear"]
                         /\ UNCHANGED <<mainVars, taskVars, fifoVars, slotVars,
                                        pending, idx, runs>>

ClearBusy(w) == /\ wpc[w] = "done"
                /\ wrkid_busy' = [wrkid_busy EXCEPT ![idx[w]] = 0]
                /\ wpc' = [wpc EXCEPT ![w] = "clear"]
                /\ UNCHANGED <<mainVars, taskVars, fifoVars, worker, pending, idx, runs>>

ClearSlot(w) == /\ wpc[w] = "clear"
                /\ worker' = [worker EXCEPT ![idx[w]] = EmptySlot]
                /\ wpc' = [wpc EXCEPT ![w] = "enqueue"]
                /\ UNCHANGED <<mainVars, taskVars, fifoVars, wrkid_busy, pending, idx, runs>>

Requeue(w) == /\ wpc[w] = "enqueue"
              /\ Enqueue(w, idx[w])
              /\ wpc' = [wpc EXCEPT ![w] = "enqueuing"]
              /\ UNCHANGED <<mainVars, taskVars, slotVars, pending, idx, runs>>

RequeueReturn(w) == /\ wpc[w] = "enqueuing"
                    /\ EnqueueReturn(w)
                    /\ wpc' = [wpc EXCEPT ![w] = "sigwait"]
                    /\ UNCHANGED <<mainVars, taskVars, slotVars, pending, idx, runs>>

WorkerStep(w) == ReadId(w) \/ Wake(w) \/ Call(w) \/ CallReturns(w)
                 \/ ClearBusy(w) \/ ClearSlot(w) \/ Requeue(w) \/ RequeueReturn(w)

-----------------------------------------------------------------------------
(* The system *)

(* Main has returned or faulted and every worker sleeps: nothing is left   *)
(* to happen.                                                              *)
Quiet == /\ \/ mpc = "crashed"
            \/ /\ mpc = "client" /\ taskid_seed = MaxTasks
               /\ \A t \in Task : tstate[t] \in {"dispatched", "rejected"}
         /\ \A w \in Worker : wpc[w] \in {"unborn", "sigwait"} /\ pending[w] = {}
         /\ UNCHANGED vars

ClientStep == InitTask \/ Returns \/ \E t \in Task : Calls(t)

Next == \/ CreateWorkers
        \/ ClientStep
        \/ \E w \in Worker : WorkerStep(w)
        \/ Quiet

(* Each thread runs on as long as it can; main may stop between two calls. *)
(* When main faults the kernel may or may not take the workers along.      *)
Fairness == /\ WF_vars(CreateWorkers)
            /\ WF_vars(Returns)
            /\ \A w \in Worker : WF_vars(mpc # "crashed" /\ WorkerStep(w))

Spec == Init /\ [][Next]_vars /\ Fairness

(* The same program on a machine where usleep(100) proves nothing about     *)
(* the new thread's progress.                                              *)
RacyNext == Next \/ NextClone

RacySpec == Init /\ [][RacyNext]_vars

-----------------------------------------------------------------------------
(* Properties *)

MainPc == {"clone", "pause", "fill", "filling", "client", "dequeue",
           "assign func", "assign arg", "tkill", "crashed"}
WorkerPc == {"unborn", "boot", "sigwait", "awake", "running", "done", "clear",
             "enqueue", "enqueuing"}
TaskState == {"none", "created", "got", "assigned", "failed", "rejected",
              "dispatched"}
Maybe(S) == S \cup {NULL}

MainType == i \in 0 .. MAX_WORKER /\ j \in 0 .. MAX_WORKER /\ mpc \in MainPc /\ cur \in Maybe(Task)
TaskType == /\ taskid_seed \in 0 .. MaxTasks /\ bktask_sz \in 0 .. MaxTasks
            /\ bktask \subseteq Task
            /\ tstate \in [Task -> TaskState]
            /\ wid \in [Task -> Maybe(Worker)]
FifoType == /\ wrk_fifo \in [Worker -> Worker]
            /\ wrk_fifo_head \in Worker /\ wrk_fifo_tail \in Worker
            /\ wrk_fifo_size \in 0 .. MAX_WORKER
            /\ wrk_fifo_mutex \in Worker \cup {Nobody, Main}
Slot == [func : Maybe(Task), arg : Maybe(Task), bktaskid : Maybe(Task \cup {0})]
SlotType == wrkid_busy \in [Worker -> {0, 1}] /\ worker \in [Worker -> Slot]
ThreadType == /\ pending \in [Worker -> SUBSET {"SIGUSR1"}]
              /\ wpc \in [Worker -> WorkerPc]
              /\ idx \in [Worker -> Maybe(0 .. MAX_WORKER)]
              /\ runs \in [Task -> Nat]

(* The type invariant. *)
TypeOK == MainType /\ TaskType /\ FifoType /\ SlotType /\ ThreadType

(* The cells of the ring between head and tail, and the workers in them. *)
InRing(c) == IF wrk_fifo_head + wrk_fifo_size <= MAX_WORKER
             THEN wrk_fifo_head <= c /\ c < wrk_fifo_head + wrk_fifo_size
             ELSE wrk_fifo_head <= c \/ c < wrk_fifo_head + wrk_fifo_size - MAX_WORKER
Avail == {wrk_fifo[c] : c \in {d \in Worker : InRing(d)}}

Parked(w) == wpc[w] = "sigwait" /\ pending[w] = {}
Idle(w) == Parked(w) /\ wrkid_busy[w] = 0 /\ worker[w].func = NULL

(* The worker a task was given by bkwrk_get_worker and has not signalled. *)
Reserved(t) == tstate[t] \in {"got", "assigned"} /\ wid[t] \in Worker

(* The ring never holds a worker twice, and every worker in it sleeps with  *)
(* no signal on the way, its busy flag down and its slot cleared: the       *)
(* worker enqueues itself (bkwrk.c:80) only after it has cleaned up.        *)
FifoHoldsIdle ==
  /\ \A c, d \in Worker : InRing(c) /\ InRing(d) /\ wrk_fifo[c] = wrk_fifo[d] => c = d
  /\ \A w \in Avail : Idle(w)

(* What bkwrk_get_worker's comment promises (bkwrk.c:178-181): the worker   *)
(* it returned is not busy, and no other task is promised the same worker,  *)
(* until the task's own assignment raises the busy flag.                    *)
SelectedWorkerIdle ==
  \A t \in Task : Reserved(t) =>
    /\ Parked(wid[t])
    /\ tstate[t] = "got" /\ ~(cur = t /\ mpc \in {"assign func", "assign arg"})
         => Idle(wid[t])
    /\ \A u \in Task \ {t} : Reserved(u) => wid[u] # wid[t]

(* The narrow reading of that comment: wrkid_busy is 0 for the worker the   *)
(* scheduler is about to return.                                            *)
SelectedNotBusy == mpc = "dequeue" => wrkid_busy[wid[cur]] = 0

(* enqueue_worker drops a worker without a word when the ring is full       *)
(* (bkwrk.c:22); no worker that finished a task ever meets a full ring.     *)
NoDroppedRequeue ==
  \A w \in Worker : wpc[w] = "enqueuing" => wrk_fifo_size < MAX_WORKER

(* After creation no worker is lost: it is in the ring, reserved for a      *)
(* task, has a signal on the way, or is on its way round its loop.          *)
NoWorkerLost ==
  mpc \notin {"clone", "pause", "fill", "filling"} =>
    \A w \in Worker : \/ w \in Avail
                      \/ \E t \in Task : Reserved(t) /\ wid[t] = w
                      \/ ~Parked(w)

(* A worker that wakes up finds func, arg and id of one dispatched task     *)
(* that was assigned to it and has not run: the three unlocked stores of    *)
(* bktask_assign_worker are complete, and nobody has overwritten them.      *)
WokenWorkerHasItsTask ==
  \A w \in Worker : wpc[w] = "awake" =>
    \E t \in Task : /\ worker[w] = [func |-> t, arg |-> t, bktaskid |-> t]
                    /\ tstate[t] = "dispatched" /\ wid[t] = w /\ runs[t] = 0

(* tkill never meets a signal that is still pending, so none is merged with *)
(* another and no dispatched task is forgotten.                             *)
NoSignalMerged == mpc = "tkill" => Parked(wid[cur])

(* A dispatched task is run and its worker returns to the ring, unless the  *)
(* main thread faults.                                                      *)
TaskRunsAndWorkerReturns ==
  \A t \in Task : tstate[t] = "dispatched" /\ runs[t] = 0
                   ~> (runs[t] = 1 /\ wid[t] \in Avail) \/ mpc = "crashed"

(* A worker works on the slot, flag and ring entry of its own id            *)
(* (bkwrk.c:46 "Default arg is integer of workid").                         *)
WorkerKnowsItsId == \A w \in Worker : wpc[w] \notin {"unborn", "boot"} => idx[w] = w

-----------------------------------------------------------------------------
(* The pool implements its contract. *)

DutyOf(w) ==
  IF wpc[w] \in {"done", "clear", "enqueue", "enqueuing", "running"} THEN "ran"
  ELSE IF w \in Avail THEN "free"
  ELSE IF \E t \in Task : tstate[t] \in {"assigned", "dispatched"}
                          /\ wid[t] = w /\ runs[t] = 0 THEN "busy"
  ELSE IF \E t \in Task : tstate[t] = "got" /\ wid[t] = w THEN "taken"
  ELSE "new"

Contract == INSTANCE PoolContract WITH
  Workers <- Worker,
  Tasks <- Task,
  avail <- [k \in 1 .. wrk_fifo_size |->
              wrk_fifo[(wrk_fifo_head + k - 1) % MAX_WORKER]],
  duty <- [w \in Worker |-> DutyOf(w)],
  job <- [t \in Task |-> IF tstate[t] \in {"assigned", "dispatched"}
                         THEN wid[t] ELSE -1],
  done <- {t \in Task : runs[t] > 0}

(* Workers are handed out longest-waiting first, each task is given to one  *)
(* worker, that worker runs it once, and waits again only afterwards.       *)
ContractSpec == Contract!Spec
=============================================================================
