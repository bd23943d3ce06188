-------------------------- MODULE ForkPoolProofs --------------------------
(***************************************************************************)
(* The safety invariants of ForkPool, proved for every number of workers   *)
(* and tasks.                                                              *)
(*                                                                         *)
(* Main's ring is filled once with 0, 1, ... and only ever dequeued, so    *)
(* the workers handed out are those below MAX_WORKER minus its size.  Each *)
(* of them belongs to one task for good, and Stage says how far the two    *)
(* have come; a worker nobody was given is Idle.                           *)
(***************************************************************************)
EXTENDS ForkPool, TLAPS

MainRing == wrk_fifo[Main]
Started == mpc \in {"client", "assign", "crashed"}
Filled(t) == [func |-> t, arg |-> t, bktaskid |-> t]

(* Nothing is asked of the pool before it is created, and every worker is  *)
(* forked by then.                                                         *)
CreationOK ==
  /\ ~Started => \A t \in Task : wid[t] = NULL /\ tstate[t] = "none"
  /\ mpc = "fork" => \A w \in Worker : w < i => wpc[w] # "unborn"
  /\ mpc = "fill" \/ Started => \A w \in Worker : wpc[w] # "unborn"
  /\ mpc = "mmap" => i = 0

(* The ring of main holds the workers from some one on, in order. *)
RingOK ==
  /\ mpc = "fill" => /\ MainRing.head = 0 /\ MainRing.size = i
                     /\ i < MAX_WORKER => MainRing.tail = i
                     /\ \A c \in Worker : c < i => MainRing.cell[c] = c
  /\ Started => /\ \A c \in Worker : MainRing.cell[c] = c
                /\ MainRing.size > 0 => MainRing.head = MAX_WORKER - MainRing.size

(* A task is given its worker, if any, by bkwrk_get_worker and keeps it. *)
TaskOK ==
  \A t \in Task :
    /\ tstate[t] = "none" <=> t >= taskid_seed
    /\ tstate[t] \in {"none", "created", "failed"} => wid[t] = NULL
    /\ tstate[t] = "rejected" => FALSE
    /\ wid[t] = NULL => runs[t] = 0
    /\ wid[t] # NULL => wid[t] < MAX_WORKER - MainRing.size

(* The task main is in the middle of assigning. *)
CallOK == mpc = "assign" => cur \in Task /\ tstate[cur] = "got" /\ wid[cur] # NULL

Asleep(w) == wpc[w] \in {"unborn", "forked", "sigwait"} /\ w \notin pending

Idle(w) == Asleep(w) /\ shared_workers[w].func = NULL

(* How far task t has come on its worker w. *)
Stage(t, w) ==
  \/ /\ tstate[t] = "got" /\ runs[t] = 0 /\ Asleep(w)
     /\ shared_workers[w].func = IF mpc = "assign" /\ cur = t THEN t ELSE NULL
  \/ /\ tstate[t] = "assigned" /\ runs[t] = 0 /\ Asleep(w)
     /\ shared_workers[w] = Filled(t)
  \/ /\ tstate[t] = "dispatched"
     /\ \/ /\ wpc[w] = "killed" /\ w \notin pending /\ runs[t] = 0
        \/ /\ wpc[w] = "sigwait" /\ w \in pending /\ runs[t] = 0
           /\ shared_workers[w] = Filled(t)
        \/ /\ wpc[w] = "awake" /\ w \notin pending /\ runs[t] = 0
           /\ shared_workers[w] = Filled(t)
        \/ /\ wpc[w] \in {"running", "done", "clear"} /\ w \notin pending
           /\ runs[t] = 1 /\ shared_workers[w] = Filled(t)
        \/ /\ wpc[w] \in {"enqueue", "sigwait"} /\ w \notin pending
           /\ runs[t] = 1 /\ shared_workers[w] = EmptySlot

ServiceOK == \A t \in Task, w \in Worker : wid[t] = w => Stage(t, w)

IdleOK == \A w \in Worker : (\A t \in Task : wid[t] # w) => Idle(w)

IndInv == /\ TypeOK /\ CreationOK /\ RingOK /\ TaskOK /\ HandedOutOnce
          /\ CallOK /\ ServiceOK /\ IdleOK

-----------------------------------------------------------------------------
(* The ring *)

LEMMA NextCell ==
  ASSUME NEW c \in Nat, c < MAX_WORKER
  PROVE  /\ (c + 1) % MAX_WORKER \in Worker
         /\ c + 1 < MAX_WORKER => (c + 1) % MAX_WORKER = c + 1
BY ForkPoolAssumption DEF Worker

LEMMA EnqueueTyped ==
  ASSUME NEW f \in Fifo, NEW w \in Worker
  PROVE  Enqueue(f, w) \in Fifo
<1>1. /\ f.cell \in [Worker -> Worker] /\ f.head \in Worker /\ f.tail \in Worker
      /\ f.size \in 0 .. MAX_WORKER
  BY DEF Fifo
<1>2. f.tail \in Nat /\ f.tail < MAX_WORKER
  BY <1>1, ForkPoolAssumption DEF Worker
<1>3. (f.tail + 1) % MAX_WORKER \in Worker
  BY <1>2, NextCell
<1>4. f.size < MAX_WORKER => f.size + 1 \in 0 .. MAX_WORKER
  BY <1>1, ForkPoolAssumption
<1> QED
  BY <1>1, <1>3, <1>4 DEF Enqueue, Fifo

LEMMA DequeuedTyped ==
  ASSUME NEW f \in Fifo, f.size > 0
  PROVE  Dequeued(f) \in Fifo
<1>1. /\ f.cell \in [Worker -> Worker] /\ f.head \in Worker /\ f.tail \in Worker
      /\ f.size \in 0 .. MAX_WORKER
  BY DEF Fifo
<1>2. f.head \in Nat /\ f.head < MAX_WORKER
  BY <1>1, ForkPoolAssumption DEF Worker
<1>3. (f.head + 1) % MAX_WORKER \in Worker
  BY <1>2, NextCell
<1>4. f.size - 1 \in 0 .. MAX_WORKER
  BY <1>1, ForkPoolAssumption
<1> QED
  BY <1>1, <1>3, <1>4 DEF Dequeued, Fifo

-----------------------------------------------------------------------------
(* Types *)

LEMMA TypeInit == Init => TypeOK
<1> SUFFICES ASSUME Init PROVE TypeOK
  OBVIOUS
<1>1. 0 \in Worker /\ 0 \in 0 .. MAX_WORKER /\ 0 \in 0 .. MaxTasks
  BY ForkPoolAssumption DEF Worker
<1>2. EmptyFifo \in Fifo /\ ZeroSlot \in Slot
  BY <1>1 DEF EmptyFifo, Fifo, ZeroSlot, Slot, Maybe
<1> QED
  BY <1>1, <1>2 DEF Init, TypeOK, MainPc, TaskState, WorkerPc, Maybe

LEMMA TypeCreate == TypeOK /\ CreateWorkers => TypeOK'
<1> SUFFICES ASSUME TypeOK, CreateWorkers PROVE TypeOK'
  OBVIOUS
<1>1. CASE MapMemory
  BY <1>1 DEF MapMemory, TypeOK, MainPc, taskVars, sharedVars, workerVars
<1>2. CASE Fork
  <2>1. i \in Worker /\ i + 1 \in 0 .. MAX_WORKER /\ Main \in Process
    BY <1>2, ForkPoolAssumption DEF Fork, TypeOK, Worker, Process
  <2>2. wrk_fifo' \in [Process -> Fifo] /\ wpc' \in [Worker -> WorkerPc]
    BY <1>2, <2>1 DEF Fork, TypeOK, WorkerPc
  <2> QED
    BY <1>2, <2>1, <2>2 DEF Fork, TypeOK, taskVars, sharedVars
<1>3. CASE ForkFails
  BY <1>3 DEF ForkFails, TypeOK, MainPc, taskVars, sharedVars, workerVars
<1>4. CASE ResetFifo
  <2>1. wrk_fifo[Main] \in Fifo /\ 0 \in Worker /\ 0 \in 0 .. MAX_WORKER /\ Main \in Process
    BY ForkPoolAssumption DEF TypeOK, Process, Worker
  <2>2. [cell |-> wrk_fifo[Main].cell, head |-> 0, tail |-> 0, size |-> 0] \in Fifo
    BY <2>1 DEF Fifo
  <2>3. wrk_fifo' \in [Process -> Fifo]
    BY <1>4, <2>2 DEF ResetFifo, TypeOK
  <2> QED
    BY <1>4, <2>1, <2>3 DEF ResetFifo, TypeOK, MainPc, taskVars, sharedVars, workerVars
<1>5. CASE Fill
  <2>1. i \in Worker /\ i + 1 \in 0 .. MAX_WORKER /\ Main \in Process
    BY <1>5, ForkPoolAssumption DEF Fill, TypeOK, Worker, Process
  <2>2. Enqueue(wrk_fifo[Main], i) \in Fifo
    BY <2>1, EnqueueTyped DEF TypeOK
  <2>3. wrk_fifo' \in [Process -> Fifo]
    BY <1>5, <2>2 DEF Fill, TypeOK
  <2> QED
    BY <1>5, <2>1, <2>3 DEF Fill, TypeOK, taskVars, sharedVars, workerVars
<1>6. CASE Created
  BY <1>6 DEF Created, TypeOK, MainPc, taskVars, sharedVars, workerVars
<1> QED
  BY <1>1, <1>2, <1>3, <1>4, <1>5, <1>6 DEF CreateWorkers

LEMMA TypeClient == TypeOK /\ CallOK /\ ClientStep => TypeOK'
<1> SUFFICES ASSUME TypeOK, CallOK, ClientStep PROVE TypeOK'
  OBVIOUS
<1>1. CASE InitTask
  <2>1. taskid_seed + 1 \in 0 .. MaxTasks
    BY <1>1, ForkPoolAssumption DEF InitTask, TypeOK
  <2> QED
    BY <1>1, <2>1 DEF InitTask, TypeOK, TaskState, mainVars, sharedVars, workerVars
<1>2. CASE AssignArg
  <2>1. cur \in Task /\ wid[cur] \in Worker
    BY <1>2 DEF AssignArg, CallOK, TypeOK, Maybe
  <2>2. shared_workers[wid[cur]] \in Slot
    BY <2>1 DEF TypeOK
  <2>3. [func |-> shared_workers[wid[cur]].func, arg |-> cur, bktaskid |-> cur] \in Slot
    BY <2>1, <2>2 DEF Slot, Maybe
  <2>4. shared_workers' \in [Worker -> Slot]
    BY <1>2, <2>3 DEF AssignArg, TypeOK
  <2> QED
    BY <1>2, <2>4 DEF AssignArg, TypeOK, TaskState, MainPc, workerVars
<1>3. ASSUME NEW t \in Task, GetWorker(t) PROVE TypeOK'
  <2>1. Main \in Process /\ wrk_fifo[Main] \in Fifo
    BY DEF TypeOK, Process
  <2>2. wrk_fifo' \in [Process -> Fifo]
    BY <1>3, <2>1, DequeuedTyped DEF GetWorker, TypeOK
  <2>3. wrk_fifo[Main].cell[wrk_fifo[Main].head] \in Worker
    BY <2>1 DEF Fifo
  <2>4. wid' \in [Task -> Maybe(Worker)]
    BY <1>3, <2>3 DEF GetWorker, TypeOK, Maybe
  <2> QED
    BY <1>3, <2>2, <2>4 DEF GetWorker, TypeOK, TaskState, mainVars, sharedVars, workerVars
<1>4. ASSUME NEW t \in Task, AssignFails(t) PROVE TypeOK'
  BY <1>4 DEF AssignFails, TypeOK, TaskState, mainVars, sharedVars, workerVars
<1>5. ASSUME NEW t \in Task, AssignFunc(t) PROVE TypeOK'
  <2>1. wid[t] \in Worker
    BY <1>5, ForkPoolAssumption DEF AssignFunc, Assignable, TypeOK, Maybe, NULL
  <2>2. shared_workers[wid[t]] \in Slot
    BY <2>1 DEF TypeOK
  <2>3. [func |-> t, arg |-> shared_workers[wid[t]].arg,
         bktaskid |-> shared_workers[wid[t]].bktaskid] \in Slot
    BY <2>1, <2>2 DEF Slot, Maybe
  <2>4. shared_workers' \in [Worker -> Slot]
    BY <1>5, <2>3 DEF AssignFunc, TypeOK
  <2> QED
    BY <1>5, <2>4 DEF AssignFunc, TypeOK, MainPc, Maybe, taskVars, workerVars
<1>6. ASSUME NEW t \in Task, DispatchFaults(t) PROVE TypeOK'
  BY <1>6 DEF DispatchFaults, TypeOK, MainPc, taskVars, sharedVars, workerVars
<1>7. ASSUME NEW t \in Task, Dispatch(t) PROVE TypeOK'
  <2>1. pending' \subseteq Worker /\ wpc' \in [Worker -> WorkerPc]
    BY <1>7 DEF Dispatch, Kill, TypeOK, WorkerPc
  <2>2. tstate' \in [Task -> TaskState]
    BY <1>7 DEF Dispatch, TypeOK, TaskState
  <2> QED
    BY <1>7, <2>1, <2>2 DEF Dispatch, TypeOK, mainVars, sharedVars
<1> QED
  BY <1>1, <1>2, <1>3, <1>4, <1>5, <1>6, <1>7 DEF ClientStep, Calls

LEMMA TypeWorker == ASSUME NEW w \in Worker PROVE TypeOK /\ WorkerStep(w) => TypeOK'
<1> SUFFICES ASSUME TypeOK, WorkerStep(w) PROVE TypeOK'
  OBVIOUS
<1>1. CASE BlockSignals(w)
  BY <1>1 DEF BlockSignals, TypeOK, WorkerPc, mainVars, taskVars, sharedVars
<1>2. CASE Wake(w)
  BY <1>2 DEF Wake, TypeOK, WorkerPc, mainVars, taskVars, sharedVars
<1>3. CASE Call(w)
  <2>1. shared_workers[w].func \in Maybe(Task)
    BY DEF TypeOK, Slot
  <2>2. runs' \in [Task -> Nat]
    BY <1>3, <2>1 DEF Call, TypeOK, Maybe
  <2>3. wpc' \in [Worker -> WorkerPc]
    BY <1>3 DEF Call, TypeOK, WorkerPc
  <2> QED
    BY <1>3, <2>2, <2>3 DEF Call, TypeOK, mainVars, taskVars, sharedVars
<1>4. CASE CallReturns(w)
  BY <1>4 DEF CallReturns, TypeOK, WorkerPc, mainVars, taskVars, sharedVars
<1>5. CASE ClearBusy(w)
  BY <1>5 DEF ClearBusy, TypeOK, WorkerPc, mainVars, taskVars
<1>6. CASE ClearSlot(w)
  <2>1. EmptySlot \in Slot
    BY DEF EmptySlot, Slot, Maybe
  <2> QED
    BY <1>6, <2>1 DEF ClearSlot, TypeOK, WorkerPc, mainVars, taskVars
<1>7. CASE Requeue(w)
  <2>1. w \in Process /\ wrk_fifo[w] \in Fifo
    BY DEF TypeOK, Process
  <2>2. wrk_fifo' \in [Process -> Fifo]
    BY <1>7, <2>1, EnqueueTyped DEF Requeue, TypeOK
  <2> QED
    BY <1>7, <2>2 DEF Requeue, TypeOK, WorkerPc, mainVars, taskVars, sharedVars
<1> QED
  BY <1>1, <1>2, <1>3, <1>4, <1>5, <1>6, <1>7 DEF WorkerStep

LEMMA TypeStutter == TypeOK /\ (Quiet \/ UNCHANGED vars) => TypeOK'
BY DEF Quiet, vars, mainVars, taskVars, sharedVars, workerVars, TypeOK

-----------------------------------------------------------------------------
(* Creation, and main's ring *)

LEMMA CreationInit == Init => CreationOK /\ RingOK
BY DEF Init, CreationOK, RingOK, Started

LEMMA CreationKept == TypeOK /\ CreationOK /\ Next => CreationOK'
<1> SUFFICES ASSUME TypeOK, CreationOK, Next PROVE CreationOK'
  OBVIOUS
<1>1. CASE MapMemory
  BY <1>1, ForkPoolAssumption DEF MapMemory, CreationOK, Started, taskVars, workerVars, Worker
<1>2. CASE Fork
  <2>1. \A w \in Worker : w < i + 1 => w < i \/ w = i
    BY <1>2 DEF TypeOK, Worker
  <2>2. i \in Worker /\ wpc \in [Worker -> WorkerPc]
    BY <1>2, ForkPoolAssumption DEF Fork, TypeOK, Worker
  <2> QED
    BY <1>2, <2>1, <2>2 DEF Fork, CreationOK, Started, taskVars
<1>3. CASE ForkFails
  BY <1>3 DEF ForkFails, CreationOK, Started, taskVars, workerVars
<1>4. CASE ResetFifo
  <2>1. \A w \in Worker : w < i
    BY <1>4, ForkPoolAssumption DEF ResetFifo, Worker
  <2> QED
    BY <1>4, <2>1 DEF ResetFifo, CreationOK, Started, taskVars, workerVars
<1>5. CASE Fill
  BY <1>5 DEF Fill, CreationOK, Started, taskVars, workerVars
<1>6. CASE Created
  BY <1>6 DEF Created, CreationOK, Started, taskVars, workerVars
<1>7. CASE ClientStep
  <2>1. Started /\ Started' /\ mpc' \notin {"fork", "fill", "mmap"}
    BY <1>7 DEF ClientStep, Calls, InitTask, AssignArg, GetWorker, AssignFails, AssignFunc,
                DispatchFaults, Dispatch, Started, mainVars
  <2>2. \A w \in Worker : wpc'[w] # "unborn"
    <3>1. \A w \in Worker : wpc[w] # "unborn"
      BY <2>1 DEF CreationOK
    <3>2. wpc' = wpc \/ \E v \in Worker : wpc' = [wpc EXCEPT ![v] = "killed"]
      BY <1>7 DEF ClientStep, Calls, InitTask, AssignArg, GetWorker, AssignFails, AssignFunc,
                  DispatchFaults, Dispatch, Kill, workerVars
    <3> QED
      BY <3>1, <3>2 DEF TypeOK
  <2> QED
    BY <2>1, <2>2 DEF CreationOK
<1>8. ASSUME NEW w \in Worker, WorkerStep(w) PROVE CreationOK'
  <2>1. UNCHANGED <<mpc, i, wid, tstate>> /\ \E x \in WorkerPc \ {"unborn"} : wpc' = [wpc EXCEPT ![w] = x]
    BY <1>8 DEF WorkerStep, BlockSignals, Wake, Call, CallReturns, ClearBusy, ClearSlot,
                Requeue, mainVars, taskVars, WorkerPc
  <2>2. \A v \in Worker : wpc[v] # "unborn" => wpc'[v] # "unborn"
    BY <2>1 DEF TypeOK
  <2> QED
    BY <2>1, <2>2 DEF CreationOK, Started
<1>9. CASE Quiet
  BY <1>9 DEF Quiet, CreationOK, Started, vars, mainVars, taskVars, workerVars
<1> QED
  BY <1>1, <1>2, <1>3, <1>4, <1>5, <1>6, <1>7, <1>8, <1>9 DEF Next, CreateWorkers

LEMMA RingKept == TypeOK /\ RingOK /\ Next => RingOK'
<1> SUFFICES ASSUME TypeOK, RingOK, Next PROVE RingOK'
  OBVIOUS
<1>0. /\ Main \in Process /\ MainRing \in Fifo /\ i \in 0 .. MAX_WORKER
      /\ wrk_fifo \in [Process -> Fifo]
  BY DEF TypeOK, Process, MainRing
<1>1. CASE UNCHANGED MainRing /\ mpc' # "fill" /\ (Started' => Started)
  BY <1>1 DEF RingOK, MainRing
<1>2. CASE MapMemory \/ ForkFails
  BY <1>1, <1>2 DEF MapMemory, ForkFails, Started, MainRing
<1>3. CASE Fork
  <2>1. i # Main
    BY <1>0 DEF Main
  <2> QED
    BY <1>1, <1>3, <2>1, <1>0 DEF Fork, Started, MainRing
<1>4. CASE ResetFifo
  <2>1. MainRing' = [cell |-> MainRing.cell, head |-> 0, tail |-> 0, size |-> 0]
    BY <1>0, <1>4 DEF ResetFifo, MainRing
  <2> QED
    BY <1>4, <2>1, ForkPoolAssumption DEF ResetFifo, RingOK, Started, Worker
<1>5. CASE Fill
  <2>1. MainRing' = Enqueue(MainRing, i)
    BY <1>0, <1>5 DEF Fill, MainRing
  <2>2. /\ MainRing.size = i /\ MainRing.tail = i /\ MainRing.head = 0
        /\ \A c \in Worker : c < i => MainRing.cell[c] = c
        /\ i \in Nat /\ i < MAX_WORKER
    BY <1>0, <1>5 DEF Fill, RingOK
  <2>3. MainRing' = [cell |-> [MainRing.cell EXCEPT ![i] = i], head |-> 0,
                     tail |-> (i + 1) % MAX_WORKER, size |-> i + 1]
    BY <2>1, <2>2 DEF Enqueue
  <2>4. i + 1 < MAX_WORKER => (i + 1) % MAX_WORKER = i + 1
    BY <2>2, NextCell
  <2>5. MainRing.cell \in [Worker -> Worker]
    BY <1>0 DEF Fifo
  <2>6. \A c \in Worker : c < i + 1 => c < i \/ c = i
    BY <2>2 DEF Worker
  <2>7. \A c \in Worker : c < i + 1 => [MainRing.cell EXCEPT ![i] = i][c] = c
    BY <2>2, <2>5, <2>6
  <2> QED
    BY <1>5, <2>3, <2>4, <2>7 DEF Fill, RingOK, Started
<1>6. CASE Created
  <2>1. MainRing' = MainRing /\ \A c \in Worker : c < MAX_WORKER
    BY <1>6, ForkPoolAssumption DEF Created, MainRing, Worker
  <2> QED
    BY <1>6, <2>1, ForkPoolAssumption DEF Created, RingOK, Started
<1>7. ASSUME NEW t \in Task, GetWorker(t) PROVE RingOK'
  <2>1. CASE MainRing.size > 0
    <3>1. MainRing' = Dequeued(MainRing)
      BY <1>0, <1>7, <2>1 DEF GetWorker, MainRing
    <3>2. /\ MainRing.size \in 0 .. MAX_WORKER /\ MainRing.head = MAX_WORKER - MainRing.size
          /\ \A c \in Worker : MainRing.cell[c] = c
      BY <1>0, <1>7, <2>1 DEF GetWorker, RingOK, Started, Fifo
    <3>3. /\ MainRing.head \in Nat /\ MainRing.head < MAX_WORKER
          /\ MainRing.size - 1 > 0 => MainRing.head + 1 < MAX_WORKER
          /\ MainRing.head + 1 = MAX_WORKER - (MainRing.size - 1)
      BY <2>1, <3>2, ForkPoolAssumption
    <3>4. MainRing.size - 1 > 0 => (MainRing.head + 1) % MAX_WORKER = MAX_WORKER - (MainRing.size - 1)
      BY <3>3, NextCell
    <3> QED
      BY <1>7, <3>1, <3>2, <3>4 DEF GetWorker, RingOK, Started, mainVars, Dequeued
  <2>2. CASE ~(MainRing.size > 0)
    BY <1>1, <1>7, <2>2 DEF GetWorker, MainRing, Started, mainVars
  <2> QED
    BY <2>1, <2>2
<1>8. CASE InitTask \/ AssignArg
  BY <1>1, <1>8 DEF InitTask, AssignArg, MainRing, Started, mainVars
<1>9. ASSUME NEW t \in Task, AssignFails(t) \/ AssignFunc(t) \/ DispatchFaults(t) \/ Dispatch(t)
      PROVE  RingOK'
  BY <1>1, <1>9 DEF AssignFails, AssignFunc, DispatchFaults, Dispatch, MainRing, Started, mainVars
<1>10. ASSUME NEW w \in Worker, WorkerStep(w) PROVE RingOK'
  <2>1. w # Main
    BY ForkPoolAssumption DEF Worker, Main
  <2>2. UNCHANGED <<MainRing, mpc, i>>
    BY <1>0, <1>10, <2>1 DEF WorkerStep, BlockSignals, Wake, Call, CallReturns, ClearBusy,
                ClearSlot, Requeue, mainVars, MainRing
  <2> QED
    BY <2>2 DEF RingOK, Started
<1>11. CASE Quiet
  BY <1>11 DEF Quiet, RingOK, Started, MainRing, vars, mainVars
<1> QED
  BY <1>2, <1>3, <1>4, <1>5, <1>6, <1>7, <1>8, <1>9, <1>10, <1>11
     DEF Next, CreateWorkers, ClientStep, Calls

-----------------------------------------------------------------------------
(* Tasks and the workers they are given *)

LEMMA WorkerIsNotNull == ASSUME NEW w \in Worker PROVE w # NULL
BY ForkPoolAssumption DEF Worker, NULL

LEMMA TaskIsNotNull == ASSUME NEW t \in Task PROVE t # NULL
BY ForkPoolAssumption DEF Task, NULL

(* A worker that is awake or about to clean up is on duty for its task. *)
LEMMA OnDuty ==
  ASSUME TypeOK, ServiceOK, IdleOK, NEW w \in Worker,
         wpc[w] \in {"awake", "running", "done", "clear"}
  PROVE  \E t \in Task : /\ wid[t] = w /\ tstate[t] = "dispatched" /\ w \notin pending
                        /\ shared_workers[w] = Filled(t)
                        /\ runs[t] = IF wpc[w] = "awake" THEN 0 ELSE 1
<1>1. PICK t \in Task : wid[t] = w
  BY DEF IdleOK, Idle, Asleep
<1>2. Stage(t, w)
  BY <1>1, WorkerIsNotNull DEF ServiceOK
<1> QED
  BY <1>1, <1>2 DEF Stage, Asleep

(* Dispatch meets a whole task and a worker that still waits. *)
LEMMA DispatchReady ==
  ASSUME TypeOK, TaskOK, ServiceOK, NEW t \in Task, Dispatch(t)
  PROVE  /\ tstate[t] = "assigned" /\ shared_workers[wid[t]] = Filled(t) /\ runs[t] = 0
         /\ Asleep(wid[t]) /\ shared_workers[wid[t]].func # NULL
         /\ tstate' = [tstate EXCEPT ![t] = "dispatched"] /\ Kill(wid[t])
<1>1. wid[t] # NULL /\ wid[t] \in Worker
  BY WorkerIsNotNull DEF Dispatch
<1>2. tstate[t] = "assigned"
  BY <1>1 DEF Dispatch, TaskOK
<1>3. shared_workers[wid[t]] = Filled(t) /\ runs[t] = 0 /\ Asleep(wid[t])
  BY <1>1, <1>2 DEF ServiceOK, Stage
<1>4. shared_workers[wid[t]].func # NULL
  BY <1>3, TaskIsNotNull DEF Filled
<1> QED
  BY <1>2, <1>3, <1>4 DEF Dispatch

LEMMA TaskInit == Init => TaskOK /\ HandedOutOnce /\ CallOK
BY ForkPoolAssumption DEF Init, TaskOK, HandedOutOnce, CallOK, Task, NULL

LEMMA TaskKept ==
  IndInv /\ Next => TaskOK' /\ HandedOutOnce'
<1> SUFFICES ASSUME IndInv, Next PROVE TaskOK' /\ HandedOutOnce'
  OBVIOUS
<1>0. /\ Main \in Process /\ MainRing \in Fifo /\ wrk_fifo \in [Process -> Fifo]
      /\ MainRing.size \in 0 .. MAX_WORKER /\ taskid_seed \in 0 .. MaxTasks
      /\ wid \in [Task -> Maybe(Worker)] /\ tstate \in [Task -> TaskState]
      /\ runs \in [Task -> Nat]
  BY DEF IndInv, TypeOK, Process, MainRing, Fifo
<1>1. CASE UNCHANGED taskVars /\ UNCHANGED runs /\ (UNCHANGED MainRing \/ ~Started)
  <2>1. UNCHANGED MainRing \/ \A t \in Task : wid[t] = NULL
    BY <1>1 DEF IndInv, CreationOK
  <2> QED
    BY <1>1, <2>1 DEF IndInv, TaskOK, HandedOutOnce, taskVars, MainRing
<1>2. CASE CreateWorkers
  BY <1>1, <1>2 DEF CreateWorkers, MapMemory, Fork, ForkFails, ResetFifo, Fill, Created,
                    Started, workerVars, MainRing
<1>3. CASE InitTask
  <2>1. taskid_seed \in Task /\ tstate[taskid_seed] = "none" /\ wid[taskid_seed] = NULL
    BY <1>0, <1>3, ForkPoolAssumption DEF InitTask, Task, IndInv, TaskOK
  <2>2. \A t \in Task : t >= taskid_seed + 1 <=> t >= taskid_seed /\ t # taskid_seed
    BY <1>0, ForkPoolAssumption DEF Task
  <2> QED
    BY <1>0, <1>3, <2>1, <2>2 DEF InitTask, IndInv, TaskOK, HandedOutOnce, MainRing, workerVars
<1>4. ASSUME NEW t \in Task, GetWorker(t) PROVE TaskOK' /\ HandedOutOnce'
  <2>1. CASE MainRing.size > 0
    <3>1. /\ MainRing.head = MAX_WORKER - MainRing.size /\ MainRing.head \in Worker
          /\ MainRing.cell[MainRing.head] = MainRing.head
      BY <1>0, <1>4, <2>1 DEF GetWorker, IndInv, RingOK, Started, Fifo
    <3>2. MainRing'.size = MainRing.size - 1 /\ wid' = [wid EXCEPT ![t] = MainRing.head]
      BY <1>0, <1>4, <2>1, <3>1 DEF GetWorker, MainRing, Dequeued
    <3>3. \A u \in Task : wid[u] # NULL =>
            wid[u] # MainRing.head /\ wid[u] < MAX_WORKER - (MainRing.size - 1)
      BY <1>0, <3>1, ForkPoolAssumption DEF IndInv, TaskOK, Maybe, Worker, NULL
    <3>4. MainRing.head < MAX_WORKER - (MainRing.size - 1)
      BY <1>0, <3>1, ForkPoolAssumption
    <3>5. UNCHANGED <<runs, taskid_seed>> /\ tstate' = [tstate EXCEPT ![t] = "got"] /\ tstate[t] = "created"
      BY <1>4 DEF GetWorker, workerVars
    <3>6. HandedOutOnce'
      BY <1>0, <3>2, <3>3 DEF IndInv, HandedOutOnce
    <3>7. TaskOK'
      BY <1>0, <3>1, <3>2, <3>3, <3>4, <3>5, WorkerIsNotNull DEF IndInv, TaskOK
    <3> QED
      BY <3>6, <3>7
  <2>2. CASE ~(MainRing.size > 0)
    <3>1. UNCHANGED <<MainRing, runs, taskid_seed>> /\ wid' = [wid EXCEPT ![t] = NULL]
      BY <1>4, <2>2 DEF GetWorker, MainRing, workerVars
    <3>2. tstate' = [tstate EXCEPT ![t] = "got"] /\ tstate[t] = "created" /\ wid[t] = NULL
      BY <1>4 DEF GetWorker, IndInv, TaskOK
    <3>3. wid' = wid
      BY <1>0, <3>1, <3>2
    <3> QED
      BY <1>0, <3>1, <3>2, <3>3 DEF IndInv, TaskOK, HandedOutOnce
  <2> QED
    BY <2>1, <2>2
<1>5. ASSUME NEW t \in Task, AssignFails(t) PROVE TaskOK' /\ HandedOutOnce'
  <2>1. tstate' = [tstate EXCEPT ![t] = "failed"] /\ UNCHANGED <<taskid_seed, wid, MainRing, runs>>
    BY <1>5 DEF AssignFails, MainRing, workerVars
  <2>2. tstate[t] = "got" /\ wid[t] = NULL
    <3>1. tstate[t] = "got" /\ ~(t >= taskid_seed)
      BY <1>5 DEF AssignFails, IndInv, TaskOK
    <3>2. t < taskid_seed
      BY <1>0, <3>1, ForkPoolAssumption DEF Task
    <3> QED
      BY <1>0, <1>5, <3>1, <3>2, ForkPoolAssumption DEF AssignFails, Assignable, Maybe, Worker
  <2> QED
    BY <1>0, <2>1, <2>2 DEF IndInv, TaskOK, HandedOutOnce
<1>6. CASE AssignArg
  <2>1. /\ tstate' = [tstate EXCEPT ![cur] = "assigned"] /\ cur \in Task /\ tstate[cur] = "got"
        /\ UNCHANGED <<taskid_seed, wid, MainRing, runs>>
    BY <1>6 DEF AssignArg, IndInv, CallOK, MainRing, workerVars
  <2> QED
    BY <1>0, <2>1 DEF IndInv, TaskOK, HandedOutOnce
<1>7. ASSUME NEW t \in Task, Dispatch(t) PROVE TaskOK' /\ HandedOutOnce'
  <2>1. tstate' = [tstate EXCEPT ![t] = "dispatched"] /\ tstate[t] = "assigned"
    BY <1>7, DispatchReady DEF IndInv
  <2>2. UNCHANGED <<taskid_seed, wid, MainRing, runs>>
    BY <1>7 DEF Dispatch, MainRing
  <2> QED
    BY <1>0, <2>1, <2>2 DEF IndInv, TaskOK, HandedOutOnce
<1>8. ASSUME NEW t \in Task, AssignFunc(t) \/ DispatchFaults(t) PROVE TaskOK' /\ HandedOutOnce'
  BY <1>1, <1>8 DEF AssignFunc, DispatchFaults, MainRing, workerVars
<1>9. ASSUME NEW w \in Worker, WorkerStep(w) PROVE TaskOK' /\ HandedOutOnce'
  <2>1. w # Main
    BY ForkPoolAssumption DEF Worker, Main
  <2>2. UNCHANGED taskVars /\ UNCHANGED MainRing
    BY <1>0, <1>9, <2>1 DEF WorkerStep, BlockSignals, Wake, Call, CallReturns, ClearBusy,
                ClearSlot, Requeue, MainRing
  <2>3. CASE Call(w)
    <3>1. PICK t \in Task : wid[t] = w /\ shared_workers[w] = Filled(t)
      BY <2>3, OnDuty DEF Call, IndInv
    <3>2. shared_workers[w].func = t /\ t # NULL /\ w # NULL
      BY <3>1, TaskIsNotNull, WorkerIsNotNull DEF Filled
    <3>3. runs' = [runs EXCEPT ![t] = @ + 1] /\ wid[t] # NULL
      BY <2>3, <3>1, <3>2 DEF Call
    <3> QED
      BY <1>0, <2>2, <3>3 DEF IndInv, TaskOK, HandedOutOnce, taskVars
  <2>4. CASE ~Call(w)
    <3>1. UNCHANGED runs
      BY <1>9, <2>4 DEF WorkerStep, BlockSignals, Wake, CallReturns, ClearBusy, ClearSlot, Requeue
    <3> QED
      BY <1>1, <2>2, <3>1
  <2> QED
    BY <2>3, <2>4
<1>10. CASE Quiet
  BY <1>1, <1>10 DEF Quiet, vars, workerVars, MainRing
<1> QED
  BY <1>2, <1>3, <1>4, <1>5, <1>6, <1>7, <1>8, <1>9, <1>10 DEF Next, ClientStep, Calls

LEMMA CallKept == TypeOK /\ CallOK /\ Next => CallOK'
<1> SUFFICES ASSUME TypeOK, CallOK, Next PROVE CallOK'
  OBVIOUS
<1>1. CASE CreateWorkers \/ InitTask \/ AssignArg
  BY <1>1 DEF CreateWorkers, MapMemory, Fork, ForkFails, ResetFifo, Fill, Created, InitTask,
              AssignArg, CallOK, mainVars
<1>2. ASSUME NEW t \in Task, AssignFunc(t) PROVE CallOK'
  BY <1>2, ForkPoolAssumption DEF AssignFunc, Assignable, CallOK, taskVars, NULL
<1>3. ASSUME NEW t \in Task, GetWorker(t) \/ AssignFails(t) \/ DispatchFaults(t) \/ Dispatch(t)
      PROVE  CallOK'
  BY <1>3 DEF GetWorker, AssignFails, DispatchFaults, Dispatch, CallOK, mainVars
<1>4. ASSUME NEW w \in Worker, WorkerStep(w) PROVE CallOK'
  <2>1. UNCHANGED <<mainVars, taskVars>>
    BY <1>4 DEF WorkerStep, BlockSignals, Wake, Call, CallReturns, ClearBusy, ClearSlot, Requeue
  <2> QED
    BY <2>1 DEF CallOK, mainVars, taskVars
<1>5. CASE Quiet
  BY <1>5 DEF Quiet, CallOK, vars, mainVars, taskVars
<1> QED
  BY <1>1, <1>2, <1>3, <1>4, <1>5 DEF Next, ClientStep, Calls

-----------------------------------------------------------------------------
(* Workers and their tasks *)

Assigning(t) == mpc = "assign" /\ cur = t

(* A stage lasts while nothing it speaks of changes. *)
LEMMA StageKept ==
  ASSUME NEW t \in Task, NEW w \in Worker, Stage(t, w),
         tstate'[t] = tstate[t], runs'[t] = runs[t], wpc'[w] = wpc[w],
         w \in pending' <=> w \in pending, shared_workers'[w] = shared_workers[w],
         Assigning(t)' <=> Assigning(t)
  PROVE  Stage(t, w)'
BY DEF Stage, Asleep, Assigning

(* A step that touches one worker and its task leaves the others alone. *)
LEMMA OthersKept ==
  ASSUME IndInv, NEW w \in Worker, UNCHANGED wid,
         \A v \in Worker : v # w =>
           /\ wpc'[v] = wpc[v] /\ shared_workers'[v] = shared_workers[v]
           /\ v \in pending' <=> v \in pending,
         \A t \in Task : wid[t] # NULL /\ wid[t] # w =>
           /\ tstate'[t] = tstate[t] /\ runs'[t] = runs[t]
           /\ Assigning(t)' <=> Assigning(t),
         \A t \in Task : wid[t] = w => Stage(t, w)',
         (\A t \in Task : wid[t] # w) => Idle(w)'
  PROVE  ServiceOK' /\ IdleOK'
<1>1. ASSUME NEW t \in Task, NEW v \in Worker, wid'[t] = v PROVE Stage(t, v)'
  <2>1. CASE v = w
    BY <1>1, <2>1
  <2>2. CASE v # w
    <3>1. Stage(t, v) /\ wid[t] # NULL
      BY <1>1, WorkerIsNotNull DEF IndInv, ServiceOK
    <3> QED
      BY <1>1, <2>2, <3>1, StageKept
  <2> QED
    BY <2>1, <2>2
<1>2. ASSUME NEW v \in Worker, \A t \in Task : wid'[t] # v PROVE Idle(v)'
  <2>1. CASE v = w
    BY <1>2, <2>1
  <2>2. CASE v # w
    BY <1>2, <2>2 DEF IndInv, IdleOK, Idle, Asleep
  <2> QED
    BY <2>1, <2>2
<1> QED
  BY <1>1, <1>2 DEF ServiceOK, IdleOK

LEMMA ServiceInit == Init => ServiceOK /\ IdleOK
BY WorkerIsNotNull DEF Init, ServiceOK, IdleOK, Idle, Asleep, ZeroSlot

LEMMA ServiceCreate == IndInv /\ CreateWorkers => ServiceOK' /\ IdleOK'
<1> SUFFICES ASSUME IndInv, CreateWorkers PROVE ServiceOK' /\ IdleOK'
  OBVIOUS
<1>1. UNCHANGED <<wid, shared_workers, pending>> /\ \A t \in Task : wid[t] = NULL
  BY DEF CreateWorkers, MapMemory, Fork, ForkFails, ResetFifo, Fill, Created, IndInv,
         CreationOK, Started, taskVars, sharedVars, workerVars
<1>2. wpc' = wpc \/ wpc' = [wpc EXCEPT ![i] = "forked"]
  BY DEF CreateWorkers, MapMemory, Fork, ForkFails, ResetFifo, Fill, Created, workerVars
<1>3. \A w \in Worker : Idle(w)
  BY <1>1, WorkerIsNotNull DEF IndInv, IdleOK
<1>4. \A w \in Worker : Idle(w)'
  BY <1>1, <1>2, <1>3 DEF Idle, Asleep, IndInv, TypeOK
<1> QED
  BY <1>1, <1>4, WorkerIsNotNull DEF ServiceOK, IdleOK

LEMMA ServiceClient == IndInv /\ ClientStep => ServiceOK' /\ IdleOK'
<1> SUFFICES ASSUME IndInv, ClientStep PROVE ServiceOK' /\ IdleOK'
  OBVIOUS
<1>0. /\ wid \in [Task -> Maybe(Worker)] /\ tstate \in [Task -> TaskState]
      /\ runs \in [Task -> Nat] /\ shared_workers \in [Worker -> Slot]
      /\ wpc \in [Worker -> WorkerPc] /\ pending \subseteq Worker
  BY DEF IndInv, TypeOK
<1>1. ASSUME NEW t \in Task, wid[t] = NULL, UNCHANGED <<wid, wpc, pending, shared_workers, runs>>,
             \A u \in Task : u # t => tstate'[u] = tstate[u] /\ (Assigning(u)' <=> Assigning(u))
      PROVE  ServiceOK' /\ IdleOK'
  <2>1. ASSUME NEW u \in Task, NEW w \in Worker, wid'[u] = w PROVE Stage(u, w)'
    <3>1. u # t /\ Stage(u, w)
      BY <1>1, <2>1, WorkerIsNotNull DEF IndInv, ServiceOK
    <3> QED
      BY <1>1, <3>1, StageKept
  <2>2. IdleOK'
    BY <1>1 DEF IndInv, IdleOK, Idle, Asleep
  <2> QED
    BY <2>1, <2>2 DEF ServiceOK
<1>2. CASE InitTask
  <2>1. taskid_seed \in Task /\ tstate[taskid_seed] = "none" /\ wid[taskid_seed] = NULL
    BY <1>2, ForkPoolAssumption DEF InitTask, Task, IndInv, TypeOK, TaskOK
  <2>2. /\ UNCHANGED <<wid, wpc, pending, shared_workers, runs, mpc, cur>>
        /\ tstate' = [tstate EXCEPT ![taskid_seed] = "created"]
    BY <1>2 DEF InitTask, mainVars, sharedVars, workerVars
  <2>3. \A u \in Task : u # taskid_seed => tstate'[u] = tstate[u]
    BY <1>0, <2>2
  <2> HIDE <1>2
  <2> QED
    BY <1>1, <2>1, <2>2, <2>3 DEF Assigning
<1>3. ASSUME NEW t \in Task, GetWorker(t) PROVE ServiceOK' /\ IdleOK'
  <2>1. /\ UNCHANGED <<wpc, pending, shared_workers, runs, mpc, cur>> /\ mpc = "client"
        /\ tstate' = [tstate EXCEPT ![t] = "got"] /\ wid[t] = NULL /\ runs[t] = 0
    BY <1>3 DEF GetWorker, IndInv, TaskOK, mainVars, sharedVars, workerVars
  <2>2. \A u \in Task : u # t => tstate'[u] = tstate[u]
    BY <1>0, <2>1
  <2>3. CASE MainRing.size > 0
    <3>1. /\ MainRing.head \in Worker /\ MainRing.size \in 0 .. MAX_WORKER
          /\ MainRing.head = MAX_WORKER - MainRing.size
          /\ MainRing.cell[MainRing.head] = MainRing.head
      BY <2>1, <2>3 DEF IndInv, TypeOK, RingOK, Started, Fifo, Process, MainRing
    <3>2. PICK h \in Worker : h = MainRing.head
      BY <3>1
    <3>3. wid' = [wid EXCEPT ![t] = h]
      BY <1>3, <2>3, <3>1, <3>2 DEF GetWorker, MainRing
    <3>4. \A u \in Task : wid[u] # h
      BY <1>0, <3>1, <3>2, ForkPoolAssumption, WorkerIsNotNull DEF IndInv, TaskOK, Maybe, Worker
    <3>5. Idle(h)
      BY <3>4 DEF IndInv, IdleOK
    <3>6. Stage(t, h)'
      BY <1>0, <2>1, <3>5 DEF Stage, Idle, Asleep
    <3>7. ASSUME NEW u \in Task, NEW w \in Worker, wid'[u] = w PROVE Stage(u, w)'
      <4>1. CASE u = t
        <5>1. w = h
          BY <1>0, <3>3, <3>7, <4>1
        <5> QED
          BY <3>6, <4>1, <5>1
      <4>2. CASE u # t
        <5>1. Stage(u, w)
          BY <1>0, <3>3, <3>7, <4>2 DEF IndInv, ServiceOK
        <5> QED
          BY <2>1, <2>2, <4>2, <5>1, StageKept DEF Assigning
      <4> QED
        BY <4>1, <4>2
    <3>8. ASSUME NEW v \in Worker, \A u \in Task : wid'[u] # v PROVE Idle(v)'
      <4>1. \A u \in Task : wid[u] # v
        BY <1>0, <2>1, <3>3, <3>8, WorkerIsNotNull
      <4>2. Idle(v)
        BY <4>1 DEF IndInv, IdleOK
      <4> QED
        BY <2>1, <4>2 DEF Idle, Asleep
    <3> QED
      BY <3>7, <3>8 DEF ServiceOK, IdleOK
  <2>4. CASE ~(MainRing.size > 0)
    <3>1. wid' = [wid EXCEPT ![t] = NULL]
      BY <1>3, <2>4 DEF GetWorker, MainRing
    <3>2. wid' = wid
      BY <1>0, <2>1, <3>1
    <3> QED
      BY <1>1, <2>1, <2>2, <3>2 DEF Assigning
  <2> QED
    BY <2>3, <2>4
<1>4. ASSUME NEW t \in Task, AssignFails(t) PROVE ServiceOK' /\ IdleOK'
  <2>1. /\ UNCHANGED <<wid, wpc, pending, shared_workers, runs, mpc, cur>>
        /\ tstate' = [tstate EXCEPT ![t] = "failed"] /\ tstate[t] = "got"
    BY <1>4 DEF AssignFails, mainVars, sharedVars, workerVars
  <2>2. wid[t] = NULL
    <3>1. t < taskid_seed
      BY <2>1, ForkPoolAssumption DEF IndInv, TaskOK, TypeOK, Task
    <3> QED
      BY <1>0, <1>4, <3>1, ForkPoolAssumption DEF AssignFails, Assignable, Maybe, Worker
  <2>3. \A u \in Task : u # t => tstate'[u] = tstate[u]
    BY <1>0, <2>1
  <2> QED
    BY <1>1, <2>1, <2>2, <2>3 DEF Assigning
<1>5. ASSUME NEW t \in Task, AssignFunc(t) PROVE ServiceOK' /\ IdleOK'
  <2>1. PICK w \in Worker : wid[t] = w
    BY <1>0, <1>5, ForkPoolAssumption DEF AssignFunc, Assignable, Maybe, NULL
  <2>2. /\ UNCHANGED <<wid, wpc, pending, runs, tstate>> /\ tstate[t] = "got"
        /\ mpc = "client" /\ mpc' = "assign" /\ cur' = t
        /\ shared_workers' = [shared_workers EXCEPT ![w] =
              [func |-> t, arg |-> shared_workers[w].arg, bktaskid |-> shared_workers[w].bktaskid]]
    BY <1>5, <2>1 DEF AssignFunc, taskVars, workerVars
  <2>3. Stage(t, w) /\ wid[t] # NULL
    BY <2>1, WorkerIsNotNull DEF IndInv, ServiceOK
  <2>4. shared_workers'[w].func = t /\ \A v \in Worker : v # w => shared_workers'[v] = shared_workers[v]
    BY <1>0, <2>2
  <2>5. Stage(t, w)'
    BY <2>2, <2>3, <2>4 DEF Stage, Asleep
  <2>6. \A u \in Task : wid[u] = w => u = t
    BY <2>1, <2>3 DEF IndInv, HandedOutOnce
  <2>7. \A u \in Task : u # t => (Assigning(u)' <=> Assigning(u))
    BY <2>2 DEF Assigning
  <2> QED
    BY <2>1, <2>2, <2>4, <2>5, <2>6, <2>7, OthersKept
<1>6. CASE AssignArg
  <2>1. PICK t \in Task : cur = t /\ tstate[t] = "got" /\ wid[t] # NULL
    BY <1>6 DEF AssignArg, IndInv, CallOK
  <2>2. PICK w \in Worker : wid[t] = w
    BY <1>0, <2>1 DEF Maybe
  <2>3. /\ UNCHANGED <<wid, wpc, pending, runs, cur>> /\ tstate' = [tstate EXCEPT ![t] = "assigned"]
        /\ mpc = "assign" /\ mpc' = "client"
        /\ shared_workers' = [shared_workers EXCEPT ![w] =
              [func |-> shared_workers[w].func, arg |-> t, bktaskid |-> t]]
    BY <1>6, <2>1, <2>2 DEF AssignArg, workerVars
  <2>4. Stage(t, w)
    BY <2>1, <2>2 DEF IndInv, ServiceOK
  <2>5. shared_workers[w].func = t /\ runs[t] = 0 /\ Asleep(w)
    BY <2>1, <2>3, <2>4 DEF Stage
  <2>6. shared_workers'[w] = Filled(t) /\ \A v \in Worker : v # w => shared_workers'[v] = shared_workers[v]
    BY <1>0, <2>3, <2>5 DEF Filled
  <2>7. tstate'[t] = "assigned" /\ \A u \in Task : u # t => tstate'[u] = tstate[u]
    BY <1>0, <2>3
  <2>8. Stage(t, w)'
    BY <2>3, <2>5, <2>6, <2>7 DEF Stage, Asleep
  <2>9. \A u \in Task : wid[u] = w => u = t
    BY <2>1, <2>2 DEF IndInv, HandedOutOnce
  <2>10. \A u \in Task : u # t => (Assigning(u)' <=> Assigning(u))
    BY <2>1, <2>3 DEF Assigning
  <2> QED
    BY <2>2, <2>3, <2>6, <2>7, <2>8, <2>9, <2>10, OthersKept
<1>7. ASSUME NEW t \in Task, DispatchFaults(t) PROVE ServiceOK' /\ IdleOK'
  <2>1. wid[t] = NULL
    BY <1>0, <1>7 DEF DispatchFaults, Maybe
  <2>2. UNCHANGED <<wid, wpc, pending, shared_workers, runs, tstate>> /\ mpc = "client" /\ mpc' = "crashed"
    BY <1>7 DEF DispatchFaults, taskVars, sharedVars, workerVars
  <2> QED
    BY <1>1, <2>1, <2>2 DEF Assigning
<1>8. ASSUME NEW t \in Task, Dispatch(t) PROVE ServiceOK' /\ IdleOK'
  <2>1. PICK w \in Worker : wid[t] = w
    BY <1>8 DEF Dispatch
  <2>2. /\ shared_workers[w] = Filled(t) /\ runs[t] = 0 /\ Asleep(w) /\ Kill(w)
        /\ tstate' = [tstate EXCEPT ![t] = "dispatched"]
    BY <1>8, <2>1, DispatchReady DEF IndInv
  <2>3. UNCHANGED <<wid, shared_workers, runs, mpc, cur>> /\ mpc = "client"
    BY <1>8 DEF Dispatch, mainVars, sharedVars
  <2>4. wpc[w] \in {"forked", "sigwait"} /\ w \notin pending
    BY <2>2, <2>3 DEF Asleep, IndInv, CreationOK, Started
  <2>5. \/ /\ wpc[w] = "forked" /\ wpc' = [wpc EXCEPT ![w] = "killed"] /\ pending' = pending
        \/ /\ wpc[w] = "sigwait" /\ wpc' = wpc /\ pending' = pending \cup {w}
    <3>1. CASE wpc[w] = "forked"
      BY <2>2, <3>1, Zenon DEF Kill
    <3>2. CASE wpc[w] = "sigwait"
      <4>1. wpc[w] # "forked" /\ wpc[w] # "killed"
        BY <3>2
      <4> QED
        BY <2>2, <3>2, <4>1, Zenon DEF Kill
    <3> QED
      BY <2>4, <3>1, <3>2
  <2>6. tstate'[t] = "dispatched" /\ \A u \in Task : u # t => tstate'[u] = tstate[u]
    BY <1>0, <2>2
  <2>7. Stage(t, w)'
    BY <1>0, <2>2, <2>3, <2>4, <2>5, <2>6 DEF Stage
  <2>8. \A v \in Worker : v # w => wpc'[v] = wpc[v] /\ (v \in pending' <=> v \in pending)
    BY <1>0, <2>5
  <2>9. \A u \in Task : wid[u] = w => u = t
    BY <2>1, WorkerIsNotNull DEF IndInv, HandedOutOnce
  <2>10. \A u \in Task : Assigning(u)' <=> Assigning(u)
    BY <2>3 DEF Assigning
  <2> QED
    BY <2>1, <2>3, <2>6, <2>7, <2>8, <2>9, <2>10, OthersKept
<1> QED
  BY <1>2, <1>3, <1>4, <1>5, <1>6, <1>7, <1>8 DEF ClientStep, Calls

LEMMA ServiceWorker ==
  ASSUME NEW w \in Worker
  PROVE  IndInv /\ WorkerStep(w) => ServiceOK' /\ IdleOK'
<1> SUFFICES ASSUME IndInv, WorkerStep(w) PROVE ServiceOK' /\ IdleOK'
  OBVIOUS
<1>0. /\ shared_workers \in [Worker -> Slot] /\ wpc \in [Worker -> WorkerPc]
      /\ pending \subseteq Worker /\ runs \in [Task -> Nat]
  BY DEF IndInv, TypeOK
<1>1. UNCHANGED <<wid, tstate, mpc, cur>> /\ \A t \in Task : Assigning(t)' <=> Assigning(t)
  BY DEF WorkerStep, BlockSignals, Wake, Call, CallReturns, ClearBusy, ClearSlot, Requeue,
         mainVars, taskVars, Assigning
<1>2. \A v \in Worker : v # w =>
        /\ wpc'[v] = wpc[v] /\ shared_workers'[v] = shared_workers[v]
        /\ v \in pending' <=> v \in pending
  BY <1>0 DEF WorkerStep, BlockSignals, Wake, Call, CallReturns, ClearBusy, ClearSlot, Requeue,
              sharedVars
<1>3. CASE \A t \in Task : wid[t] # w
  <2>1. Idle(w)
    BY <1>3 DEF IndInv, IdleOK
  <2>2. BlockSignals(w)
    BY <2>1 DEF WorkerStep, Wake, Call, CallReturns, ClearBusy, ClearSlot, Requeue, Idle, Asleep
  <2>3. Idle(w)'
    BY <1>0, <2>1, <2>2 DEF BlockSignals, Idle, Asleep, sharedVars
  <2>4. UNCHANGED runs
    BY <2>2 DEF BlockSignals
  <2> QED
    BY <1>1, <1>2, <1>3, <2>3, <2>4, OthersKept
<1>4. ASSUME NEW t \in Task, wid[t] = w PROVE ServiceOK' /\ IdleOK'
  <2>1. Stage(t, w) /\ w # NULL
    BY <1>4, WorkerIsNotNull DEF IndInv, ServiceOK
  <2>2. \A u \in Task : wid[u] = w => u = t
    BY <1>4, <2>1 DEF IndInv, HandedOutOnce
  <2>3. UNCHANGED runs \/ (shared_workers[w].func = t /\ runs' = [runs EXCEPT ![t] = @ + 1])
    <3>1. CASE Call(w)
      <4>1. shared_workers[w] = Filled(t)
        BY <2>1, <3>1 DEF Call, Stage, Asleep
      <4>2. shared_workers[w].func = t /\ t # NULL
        BY <4>1, TaskIsNotNull DEF Filled
      <4> QED
        BY <3>1, <4>2 DEF Call
    <3>2. CASE ~Call(w)
      BY <3>2 DEF WorkerStep, BlockSignals, Wake, CallReturns, ClearBusy, ClearSlot, Requeue
    <3> QED
      BY <3>1, <3>2
  <2>4. Stage(t, w)'
    <3>1. CASE BlockSignals(w)
      BY <1>0, <1>1, <2>1, <3>1 DEF BlockSignals, Stage, Asleep, Assigning, sharedVars
    <3>2. CASE Wake(w)
      BY <1>0, <1>1, <2>1, <3>2 DEF Wake, Stage, Asleep, sharedVars
    <3>3. CASE Call(w)
      <4>1. /\ tstate[t] = "dispatched" /\ w \notin pending /\ runs[t] = 0
            /\ shared_workers[w] = Filled(t)
        BY <2>1, <3>3 DEF Call, Stage, Asleep
      <4>2. shared_workers[w].func = t /\ t # NULL
        BY <4>1, TaskIsNotNull DEF Filled
      <4>3. /\ runs'[t] = 1 /\ wpc'[w] = "running" /\ w \notin pending'
            /\ shared_workers'[w] = Filled(t) /\ tstate'[t] = "dispatched"
        BY <1>0, <1>1, <3>3, <4>1, <4>2 DEF Call, sharedVars
      <4> QED
        BY <4>3 DEF Stage
    <3>4. CASE CallReturns(w)
      BY <1>0, <1>1, <2>1, <3>4 DEF CallReturns, Stage, Asleep, sharedVars
    <3>5. CASE ClearBusy(w)
      BY <1>0, <1>1, <2>1, <3>5 DEF ClearBusy, Stage, Asleep
    <3>6. CASE ClearSlot(w)
      BY <1>0, <1>1, <2>1, <3>6 DEF ClearSlot, Stage, Asleep
    <3>7. CASE Requeue(w)
      BY <1>0, <1>1, <2>1, <3>7 DEF Requeue, Stage, Asleep, sharedVars
    <3> QED
      BY <3>1, <3>2, <3>3, <3>4, <3>5, <3>6, <3>7 DEF WorkerStep
  <2>5. \A u \in Task : wid[u] # w => runs'[u] = runs[u]
    BY <1>0, <1>4, <2>3
  <2> QED
    BY <1>1, <1>2, <1>4, <2>2, <2>4, <2>5, OthersKept
<1> QED
  BY <1>3, <1>4

LEMMA QuietKeeps == IndInv /\ (Quiet \/ UNCHANGED vars) => IndInv'
BY DEF Quiet, vars, mainVars, taskVars, sharedVars, workerVars, IndInv, TypeOK, CreationOK,
       Started, RingOK, TaskOK, HandedOutOnce, CallOK, ServiceOK, Stage, IdleOK, Idle, Asleep,
       MainRing

-----------------------------------------------------------------------------
(* The theorems *)

LEMMA IndInvInit == Init => IndInv
BY TypeInit, CreationInit, TaskInit, ServiceInit DEF IndInv

LEMMA IndInvStep == IndInv /\ [Next]_vars => IndInv'
<1> SUFFICES ASSUME IndInv, Next PROVE IndInv'
  BY QuietKeeps
<1>1. TypeOK'
  BY TypeCreate, TypeClient, TypeWorker, TypeStutter DEF Next, IndInv
<1>2. CreationOK' /\ RingOK' /\ CallOK'
  BY CreationKept, RingKept, CallKept DEF IndInv
<1>3. TaskOK' /\ HandedOutOnce'
  BY TaskKept
<1>4. ServiceOK' /\ IdleOK'
  <2>1. CASE Quiet
    BY <2>1, QuietKeeps DEF IndInv
  <2> QED
    BY <2>1, ServiceCreate, ServiceClient, ServiceWorker DEF Next
<1> QED
  BY <1>1, <1>2, <1>3, <1>4 DEF IndInv

(* In every reachable state main's ring holds the workers nobody was given, *)
(* in order, and each other worker is at a definite stage of the one task   *)
(* it was given for (bkwrk.c:59-81, 84-101, 174-181).                       *)
THEOREM IndInvHolds == Spec => []IndInv
<1>1. Init => IndInv
  BY IndInvInit
<1>2. IndInv /\ [Next]_vars => IndInv'
  BY IndInvStep
<1> QED
  BY <1>1, <1>2, PTL DEF Spec

(* Every variable keeps its type; the indices of every process's copy of    *)
(* the ring stay inside its array.                                          *)
THEOREM TypeCorrect == Spec => []TypeOK
<1>1. IndInv => TypeOK
  BY DEF IndInv
<1> QED
  BY <1>1, IndInvHolds, PTL

(* bkwrk_get_worker never returns the same worker for two tasks, because    *)
(* what a worker enqueues stays in its own copy of the ring (bkwrk.c:80).   *)
THEOREM WorkersHandedOutOnce == Spec => []HandedOutOnce
<1>1. IndInv => HandedOutOnce
  BY DEF IndInv
<1> QED
  BY <1>1, IndInvHolds, PTL

(* A worker that cleans up clears the slot of the task it has run, although *)
(* no mutex guards the slots (bkwrk.c:75-78).                               *)
THEOREM CleanupIsOwn == Spec => []ClearsOwnTask
<1>1. IndInv => ClearsOwnTask
  <2> SUFFICES ASSUME IndInv, NEW w \in Worker, wpc[w] \in {"running", "done", "clear"}
               PROVE  \E t \in Task : runs[t] = 1 /\ wid[t] = w /\ shared_workers[w].bktaskid = t
    BY DEF ClearsOwnTask
  <2>1. PICK t \in Task : wid[t] = w /\ runs[t] = 1 /\ shared_workers[w] = Filled(t)
    BY OnDuty DEF IndInv
  <2> QED
    BY <2>1 DEF Filled
<1> QED
  BY <1>1, IndInvHolds, PTL

(* A worker process that wakes up finds in shared memory the function, the  *)
(* argument and the id of one dispatched task that has not run              *)
(* (bkwrk.c:84-101).                                                        *)
THEOREM WokenWorkerIsReady == Spec => []WokenWorkerHasItsTask
<1>1. IndInv => WokenWorkerHasItsTask
  BY OnDuty DEF IndInv, WokenWorkerHasItsTask, Filled
<1> QED
  BY <1>1, IndInvHolds, PTL
=============================================================================
