-------------------------- MODULE WorkerPoolProofs --------------------------
(***************************************************************************)
(* The safety of WorkerPool for every number of workers and tasks.  The    *)
(* inductive invariant has two layers.  Inv1 is about control: the types,  *)
(* where the threads are and who holds the mutex.  Inv2 is about data:     *)
(* what the cells of the ring hold, which worker is in the ring, reserved  *)
(* for a task or on duty, and what its slot holds at each point.           *)
(***************************************************************************)
EXTENDS WorkerPool, FiniteSets, FiniteSetTheorems, SequenceTheorems, TLAPS

Creating == mpc \in {"clone", "pause", "fill", "filling"}
InCall == mpc \in {"dequeue", "assign func", "assign arg", "tkill"}

(* Inside a call the main thread works on one task and its worker. *)
CallOK ==
  /\ mpc = "pause" => i \in Worker
  /\ mpc = "filling" => j \in Worker
  /\ bktask_sz = taskid_seed /\ bktask = 0 .. (taskid_seed - 1)
  /\ InCall => cur \in Task /\ wid[cur] \in Worker
  /\ mpc = "dequeue" => tstate[cur] = "created" /\ wrk_fifo_size > 0
  /\ mpc \in {"assign func", "assign arg"} => tstate[cur] = "got"
  /\ mpc = "tkill" => tstate[cur] = "assigned"
  /\ \A t \in Task : /\ tstate[t] # "none" => Found(t)
                     /\ tstate[t] = "failed" => wid[t] = NULL

(* The mutex is held by whoever is inside a critical section. *)
MutexOK ==
  /\ wrk_fifo_mutex = Main <=> mpc \in {"filling", "dequeue"}
  /\ \A w \in Worker : wrk_fifo_mutex = w <=> wpc[w] = "enqueuing"

(* A worker boots while main waits for it, and then knows its own id. *)
ThreadOK ==
  /\ \A w \in Worker : wpc[w] = "boot" => mpc = "pause" /\ i = w
  /\ \A w \in Worker : wpc[w] = "unborn" => \/ mpc = "clone" /\ i <= w
                                            \/ mpc = "pause" /\ i < w
  /\ \A w \in Worker : wpc[w] \notin {"unborn", "boot"} => idx[w] = w

(* Until the pool is filled no worker has anything to do. *)
Untouched(w) == /\ wpc[w] \in {"unborn", "boot", "sigwait"} /\ pending[w] = {}
                /\ wrkid_busy[w] = 0 /\ worker[w].func = NULL

CreatingOK ==
  Creating => /\ \A w \in Worker : Untouched(w)
              /\ \A t \in Task : tstate[t] = "none"

Inv1 == TypeOK /\ CallOK /\ MutexOK /\ ThreadOK /\ CreatingOK

(* The tail is the cell behind the last worker. *)
TailOK == wrk_fifo_tail = IF wrk_fifo_head + wrk_fifo_size < MAX_WORKER
                          THEN wrk_fifo_head + wrk_fifo_size
                          ELSE wrk_fifo_head + wrk_fifo_size - MAX_WORKER

(* Whoever is enqueuing has stored its worker at the tail, and whoever is   *)
(* dequeuing has read the head.                                             *)
RingOK ==
  /\ Creating => wrk_fifo_head = 0
  /\ mpc \in {"clone", "pause"} => wrk_fifo_size = 0
  /\ mpc \in {"fill", "filling"} =>
       wrk_fifo_size = j /\ \A c \in Worker : c < j => wrk_fifo[c] = c
  /\ mpc = "filling" => wrk_fifo[wrk_fifo_tail] = j
  /\ \A w \in Worker : wpc[w] = "enqueuing" /\ wrk_fifo_size < MAX_WORKER
                         => wrk_fifo[wrk_fifo_tail] = w
  /\ mpc = "dequeue" => wid[cur] = wrk_fifo[wrk_fifo_head]

In(w) == \E c \in Worker : InRing(c) /\ wrk_fifo[c] = w
Distinct == \A c, d \in Worker :
              InRing(c) /\ InRing(d) /\ wrk_fifo[c] = wrk_fifo[d] => c = d
InIdle == \A w \in Worker : In(w) => Idle(w)

(* A worker on its way back has cleaned up. *)
ReturnOK ==
  \A w \in Worker :
    /\ wpc[w] \in {"clear", "enqueue", "enqueuing"} => wrkid_busy[w] = 0
    /\ wpc[w] \in {"enqueue", "enqueuing"} => worker[w].func = NULL

(* A reserved worker sleeps outside the ring, for one task only. *)
ReservedOK ==
  \A t \in Task : Reserved(t) =>
    /\ Parked(wid[t]) /\ ~In(wid[t])
    /\ \A u \in Task \ {t} : Reserved(u) => wid[u] # wid[t]

Assigning(t) == cur = t /\ mpc \in {"assign func", "assign arg"}
FullSlot(t) == [func |-> t, arg |-> t, bktaskid |-> t]

(* Its slot is empty until the task is assigned, and full afterwards. *)
SlotOK ==
  /\ \A t \in Task : Reserved(t) /\ tstate[t] = "got" /\ ~Assigning(t) =>
       wrkid_busy[wid[t]] = 0 /\ worker[wid[t]].func = NULL
  /\ \A t \in Task : tstate[t] = "assigned" =>
       wid[t] \in Worker /\ worker[wid[t]] = FullSlot(t)
  /\ mpc = "assign arg" => worker[wid[cur]].func = cur

HasTask(w, t) == /\ worker[w] = FullSlot(t)
                 /\ tstate[t] = "dispatched" /\ wid[t] = w /\ runs[t] = 0

(* A signalled worker has a task it was dispatched for. *)
DutyOK ==
  /\ \A w \in Worker : pending[w] # {} => wpc[w] = "sigwait"
  /\ \A w \in Worker : pending[w] # {} \/ wpc[w] = "awake" =>
                       \E t \in Task : HasTask(w, t)
  /\ \A t \in Task : tstate[t] # "dispatched" => runs[t] = 0

(* After creation every worker is in the ring, reserved or on duty. *)
PlaceOK == ~Creating =>
  \A w \in Worker : In(w) \/ (\E t \in Task : Reserved(t) /\ wid[t] = w) \/ ~Parked(w)

Inv2 == TailOK /\ RingOK /\ Distinct /\ InIdle /\ ReturnOK /\ ReservedOK /\ SlotOK /\ DutyOK /\ PlaceOK

IndInv == Inv1 /\ Inv2

-----------------------------------------------------------------------------
(* A step along the ring *)

LEMMA NextCell ==
  ASSUME NEW c \in Worker
  PROVE  /\ (c + 1) % MAX_WORKER = IF c + 1 = MAX_WORKER THEN 0 ELSE c + 1
         /\ (c + 1) % MAX_WORKER \in Worker
<1> USE PoolAssumption DEF Worker
<1>1. CASE c + 1 = MAX_WORKER
  BY <1>1
<1>2. CASE c + 1 < MAX_WORKER
  BY <1>2
<1> QED BY <1>1, <1>2

LEMMA EnqueueReturnType ==
  ASSUME FifoType, NEW p, EnqueueReturn(p)
  PROVE  FifoType' /\ wrk_fifo_size <= wrk_fifo_size'
<1> USE PoolAssumption DEF FifoType, EnqueueReturn
<1>1. wrk_fifo_tail' \in Worker
  BY NextCell
<1>2. wrk_fifo_size' \in 0 .. MAX_WORKER /\ wrk_fifo_size <= wrk_fifo_size'
  OBVIOUS
<1> QED BY <1>1, <1>2

(* An assignment that is not refused is for a worker there is. *)
LEMMA AssignableWorker ==
  ASSUME TaskType, NEW t \in Task, Assignable(t)
  PROVE  wid[t] \in Worker
BY PoolAssumption DEF TaskType, Assignable, Maybe, Worker, NULL

LEMMA CreatingIdle ==
  ASSUME CreatingOK, Creating
  PROVE  \A w \in Worker : wpc[w] # "enqueuing"
BY DEF CreatingOK, Untouched

LEMMA Init1 == Init => Inv1
BY PoolAssumption DEF Init, Inv1, TypeOK, MainType, TaskType, FifoType, SlotType, Slot, ThreadType, CallOK, MutexOK, ThreadOK, CreatingOK, Creating,
   InCall, Untouched, Worker, Task, Maybe, NULL, Nobody, Main, MainPc, WorkerPc, TaskState,
   ZeroSlot

LEMMA MainTypeStep == MainType /\ TaskType /\ CallOK /\ [Next]_vars => MainType'
<1> SUFFICES ASSUME MainType, TaskType, CallOK, [Next]_vars PROVE MainType'
  OBVIOUS
<1> USE PoolAssumption DEF MainType, mainVars, taskVars, fifoVars, Worker, Maybe, MainPc, CallOK
<1>1. CASE CreateWorkers
  <2>1. CASE Clone
    BY <2>1 DEF Clone
  <2>2. CASE NextClone /\ PauseIsEnough
    BY <2>2 DEF NextClone, PauseIsEnough
  <2>3. CASE ResetFifo
    BY <2>3 DEF ResetFifo
  <2>4. CASE Fill
    BY <2>4 DEF Fill, Enqueue
  <2>5. CASE FillReturn
    BY <2>5, NextCell DEF FillReturn, EnqueueReturn
  <2>6. CASE Created
    BY <2>6 DEF Created
  <2> QED BY <1>1, <2>1, <2>2, <2>3, <2>4, <2>5, <2>6 DEF CreateWorkers
<1>2. CASE InitTask
  BY <1>2 DEF InitTask
<1>3. ASSUME NEW t \in Task, Calls(t) PROVE MainType'
  BY <1>3 DEF Calls, GetNoWorker, Dequeue, AssignFails, Assignable, AssignBusy, DispatchFaults, DispatchCheck
<1>4. CASE Returns
  BY <1>4, NextCell DEF Returns, DequeueReturn, AssignFunc, AssignArg, Tkill
<1>5. ASSUME NEW w \in Worker, WorkerStep(w) PROVE MainType'
  BY <1>5, NextCell DEF WorkerStep, ReadId, Wake, Call, CallReturns, ClearBusy, ClearSlot, EmptySlot, Requeue, Enqueue, RequeueReturn, EnqueueReturn
<1>6. CASE UNCHANGED vars
  BY <1>6 DEF vars
<1> QED
  BY <1>1, <1>2, <1>3, <1>4, <1>5, <1>6 DEF Next, ClientStep, Quiet

LEMMA TaskTypeStep == MainType /\ TaskType /\ FifoType /\ CallOK /\ [Next]_vars => TaskType'
<1> SUFFICES ASSUME MainType, TaskType, FifoType, CallOK, [Next]_vars PROVE TaskType'
  OBVIOUS
<1> USE PoolAssumption DEF TaskType, FifoType, taskVars, fifoVars, mainVars, Worker, Task, Maybe, TaskState, CallOK, InCall
<1>1. CASE CreateWorkers
  BY <1>1, NextCell DEF CreateWorkers, Clone, NextClone, PauseIsEnough, ResetFifo, Fill, Enqueue, FillReturn, EnqueueReturn, Created
<1>2. CASE InitTask
  <2>1. taskid_seed' \in 0 .. MaxTasks /\ bktask_sz' \in 0 .. MaxTasks
    BY <1>2 DEF InitTask
  <2>2. taskid_seed \in Task
    BY <1>2 DEF InitTask
  <2>3. bktask' \subseteq Task /\ wid' = wid
    BY <1>2, <2>2 DEF InitTask
  <2>4. tstate' \in [Task -> TaskState]
    BY <1>2 DEF InitTask
  <2> QED BY <2>1, <2>3, <2>4
<1>3. ASSUME NEW t \in Task, Calls(t) PROVE TaskType'
  <2>1. CASE GetNoWorker(t)
    BY <2>1 DEF GetNoWorker
  <2>2. CASE Dequeue(t)
    BY <2>2 DEF Dequeue
  <2>3. CASE AssignFails(t)
    BY <2>3 DEF AssignFails, Assignable
  <2>4. CASE AssignBusy(t)
    BY <2>4 DEF AssignBusy, Assignable
  <2>5. CASE DispatchFaults(t)
    BY <2>5 DEF DispatchFaults
  <2>6. CASE DispatchCheck(t)
    BY <2>6 DEF DispatchCheck
  <2> QED BY <1>3, <2>1, <2>2, <2>3, <2>4, <2>5, <2>6 DEF Calls
<1>4. CASE Returns
  BY <1>4, NextCell DEF Returns, DequeueReturn, AssignFunc, AssignArg, Tkill
<1>5. ASSUME NEW w \in Worker, WorkerStep(w) PROVE TaskType'
  BY <1>5, NextCell DEF WorkerStep, ReadId, Wake, Call, CallReturns, ClearBusy, ClearSlot, EmptySlot, Requeue, Enqueue, RequeueReturn, EnqueueReturn
<1>6. CASE UNCHANGED vars
  BY <1>6 DEF vars
<1> QED
  BY <1>1, <1>2, <1>3, <1>4, <1>5, <1>6 DEF Next, ClientStep, Quiet

LEMMA FifoTypeStep == MainType /\ FifoType /\ CallOK /\ ThreadOK /\ [Next]_vars => FifoType'
<1> SUFFICES ASSUME MainType, FifoType, CallOK, ThreadOK, [Next]_vars PROVE FifoType'
  OBVIOUS
<1> USE PoolAssumption DEF FifoType, MainType, fifoVars, Worker, CallOK, ThreadOK, Nobody, Main
<1>1. CASE CreateWorkers
  <2>1. CASE Clone
    BY <2>1 DEF Clone
  <2>2. CASE NextClone /\ PauseIsEnough
    BY <2>2 DEF NextClone, PauseIsEnough
  <2>3. CASE ResetFifo
    BY <2>3 DEF ResetFifo
  <2>4. CASE Fill
    <3>1. j \in Worker
      BY <2>4 DEF Fill
    <3>2. wrk_fifo' \in [Worker -> Worker]
      BY <2>4, <3>1 DEF Fill, Enqueue
    <3> QED BY <2>4, <3>2 DEF Fill, Enqueue
  <2>5. CASE FillReturn
    BY <2>5, EnqueueReturnType DEF FillReturn
  <2>6. CASE Created
    BY <2>6 DEF Created
  <2> QED BY <1>1, <2>1, <2>2, <2>3, <2>4, <2>5, <2>6 DEF CreateWorkers
<1>2. CASE InitTask
  BY <1>2 DEF InitTask
<1>3. ASSUME NEW t \in Task, Calls(t) PROVE FifoType'
  BY <1>3 DEF Calls, GetNoWorker, Dequeue, AssignFails, Assignable, AssignBusy, DispatchFaults, DispatchCheck
<1>4. CASE Returns
  <2>1. CASE DequeueReturn
    <3>1. wrk_fifo_head' \in Worker
      BY <2>1, NextCell DEF DequeueReturn
    <3>2. wrk_fifo_size' \in 0 .. MAX_WORKER
      BY <2>1 DEF DequeueReturn
    <3> QED BY <2>1, <3>1, <3>2 DEF DequeueReturn
  <2>2. CASE AssignFunc
    BY <2>2 DEF AssignFunc
  <2>3. CASE AssignArg
    BY <2>3 DEF AssignArg
  <2>4. CASE Tkill
    BY <2>4 DEF Tkill
  <2> QED BY <1>4, <2>1, <2>2, <2>3, <2>4 DEF Returns
<1>5. ASSUME NEW w \in Worker, WorkerStep(w) PROVE FifoType'
  <2>1. CASE ReadId(w)
    BY <2>1 DEF ReadId
  <2>2. CASE Wake(w)
    BY <2>2 DEF Wake
  <2>3. CASE Call(w)
    BY <2>3 DEF Call
  <2>4. CASE CallReturns(w)
    BY <2>4 DEF CallReturns
  <2>5. CASE ClearBusy(w)
    BY <2>5 DEF ClearBusy
  <2>6. CASE ClearSlot(w)
    BY <2>6 DEF ClearSlot, EmptySlot
  <2>7. CASE Requeue(w)
    BY <2>7 DEF Requeue, Enqueue
  <2>8. CASE RequeueReturn(w)
    BY <2>8, EnqueueReturnType DEF RequeueReturn
  <2> QED BY <1>5, <2>1, <2>2, <2>3, <2>4, <2>5, <2>6, <2>7, <2>8 DEF WorkerStep
<1>6. CASE UNCHANGED vars
  BY <1>6 DEF vars
<1> QED
  BY <1>1, <1>2, <1>3, <1>4, <1>5, <1>6 DEF Next, ClientStep, Quiet

LEMMA SlotTypeStep == TaskType /\ SlotType /\ CallOK /\ ThreadOK /\ [Next]_vars => SlotType'
<1> SUFFICES ASSUME TaskType, SlotType, CallOK, ThreadOK, [Next]_vars PROVE SlotType'
  OBVIOUS
<1> USE DEF SlotType, TaskType, Slot, slotVars, Maybe, CallOK, ThreadOK, InCall
<1>1. CASE CreateWorkers
  BY <1>1, NextCell DEF CreateWorkers, Clone, NextClone, PauseIsEnough, ResetFifo, Fill, Enqueue, FillReturn, EnqueueReturn, Created
<1>2. CASE InitTask
  BY <1>2 DEF InitTask
<1>3. ASSUME NEW t \in Task, Calls(t) PROVE SlotType'
  BY <1>3 DEF Calls, GetNoWorker, Dequeue, AssignFails, Assignable, AssignBusy, DispatchFaults, DispatchCheck
<1>4. CASE Returns
  <2>1. CASE DequeueReturn
    BY <2>1, NextCell DEF DequeueReturn
  <2>2. CASE AssignFunc
    BY <2>2 DEF AssignFunc
  <2>3. CASE AssignArg
    BY <2>3 DEF AssignArg
  <2>4. CASE Tkill
    BY <2>4 DEF Tkill
  <2> QED BY <1>4, <2>1, <2>2, <2>3, <2>4 DEF Returns
<1>5. ASSUME NEW w \in Worker, WorkerStep(w) PROVE SlotType'
  <2>1. CASE ReadId(w)
    BY <2>1 DEF ReadId
  <2>2. CASE Wake(w)
    BY <2>2 DEF Wake
  <2>3. CASE Call(w)
    BY <2>3 DEF Call
  <2>4. CASE CallReturns(w)
    BY <2>4 DEF CallReturns
  <2>5. CASE ClearBusy(w)
    BY <2>5 DEF ClearBusy
  <2>6. CASE ClearSlot(w)
    BY <2>6 DEF ClearSlot, EmptySlot
  <2>7. CASE Requeue(w)
    BY <2>7 DEF Requeue, Enqueue
  <2>8. CASE RequeueReturn(w)
    BY <2>8, NextCell DEF RequeueReturn, EnqueueReturn
  <2> QED BY <1>5, <2>1, <2>2, <2>3, <2>4, <2>5, <2>6, <2>7, <2>8 DEF WorkerStep
<1>6. CASE UNCHANGED vars
  BY <1>6 DEF vars
<1> QED
  BY <1>1, <1>2, <1>3, <1>4, <1>5, <1>6 DEF Next, ClientStep, Quiet

(* A booting worker reads its id while main pauses, and so its own. *)
LEMMA OwnIdRead ==
  ASSUME ThreadOK, NEW w \in Worker, ReadId(w)
  PROVE  mpc = "pause" /\ i = w /\ idx' = [idx EXCEPT ![w] = i]
<1>1. mpc = "pause" /\ i = w
  BY DEF ReadId, ThreadOK
<1> QED BY <1>1 DEF ReadId, IdRead

LEMMA ThreadTypeStep == MainType /\ SlotType /\ ThreadType /\ ThreadOK /\ [Next]_vars => ThreadType'
<1> SUFFICES ASSUME MainType, SlotType, ThreadType, ThreadOK, [Next]_vars PROVE ThreadType'
  OBVIOUS
<1> USE DEF ThreadType, MainType, SlotType, Slot, threadVars, WorkerPc, ThreadOK, Maybe
<1>1. CASE CreateWorkers
  BY <1>1, NextCell DEF CreateWorkers, Clone, NextClone, PauseIsEnough, ResetFifo, Fill, Enqueue, FillReturn, EnqueueReturn, Created
<1>2. CASE InitTask
  BY <1>2 DEF InitTask
<1>3. ASSUME NEW t \in Task, Calls(t) PROVE ThreadType'
  BY <1>3 DEF Calls, GetNoWorker, Dequeue, AssignFails, Assignable, AssignBusy, DispatchFaults, DispatchCheck
<1>4. CASE Returns
  <2>1. CASE DequeueReturn
    BY <2>1, NextCell DEF DequeueReturn
  <2>2. CASE AssignFunc
    BY <2>2 DEF AssignFunc
  <2>3. CASE AssignArg
    BY <2>3 DEF AssignArg
  <2>4. CASE Tkill
    BY <2>4 DEF Tkill
  <2> QED BY <1>4, <2>1, <2>2, <2>3, <2>4 DEF Returns
<1>5. ASSUME NEW w \in Worker, WorkerStep(w) PROVE ThreadType'
  <2>1. CASE ReadId(w)
    <3>1. /\ idx' = [idx EXCEPT ![w] = w] /\ wpc' = [wpc EXCEPT ![w] = "sigwait"]
          /\ UNCHANGED <<i, mpc, pending, runs>>
      BY <2>1, OwnIdRead DEF ReadId, mainVars
    <3> QED BY <3>1, PoolAssumption DEF Worker
  <2>2. CASE Wake(w)
    BY <2>2 DEF Wake
  <2>3. CASE Call(w)
    <3>1. CASE worker[w].func = NULL
      BY <2>3, <3>1 DEF Call
    <3>2. CASE worker[w].func # NULL
      <4>1. worker[w].func \in Task
        BY <3>2
      <4>2. runs' \in [Task -> Nat]
        BY <2>3, <3>2, <4>1 DEF Call
      <4>3. wpc' \in [Worker -> WorkerPc]
        BY <2>3 DEF Call
      <4> QED BY <2>3, <4>2, <4>3 DEF Call
    <3> QED BY <3>1, <3>2
  <2>4. CASE CallReturns(w)
    BY <2>4 DEF CallReturns
  <2>5. CASE ClearBusy(w)
    BY <2>5 DEF ClearBusy
  <2>6. CASE ClearSlot(w)
    BY <2>6 DEF ClearSlot, EmptySlot
  <2>7. CASE Requeue(w)
    BY <2>7 DEF Requeue, Enqueue
  <2>8. CASE RequeueReturn(w)
    BY <2>8, NextCell DEF RequeueReturn, EnqueueReturn
  <2> QED BY <1>5, <2>1, <2>2, <2>3, <2>4, <2>5, <2>6, <2>7, <2>8 DEF WorkerStep
<1>6. CASE UNCHANGED vars
  BY <1>6 DEF vars
<1> QED
  BY <1>1, <1>2, <1>3, <1>4, <1>5, <1>6 DEF Next, ClientStep, Quiet

LEMMA CallOKStep == MainType /\ TaskType /\ FifoType /\ FifoType' /\ CallOK /\ [Next]_vars => CallOK'
<1> SUFFICES ASSUME MainType, TaskType, FifoType, FifoType', CallOK, [Next]_vars PROVE CallOK'
  OBVIOUS
<1> USE PoolAssumption DEF CallOK, InCall, MainType, TaskType, FifoType, mainVars, taskVars, fifoVars, Worker, Task, Maybe, NULL, Found
<1>1. CASE CreateWorkers
  <2>1. CASE Clone
    BY <2>1 DEF Clone
  <2>2. CASE NextClone /\ PauseIsEnough
    BY <2>2 DEF NextClone, PauseIsEnough
  <2>3. CASE ResetFifo
    BY <2>3 DEF ResetFifo
  <2>4. CASE Fill
    BY <2>4 DEF Fill, Enqueue
  <2>5. CASE FillReturn
    BY <2>5, NextCell DEF FillReturn, EnqueueReturn
  <2>6. CASE Created
    BY <2>6 DEF Created
  <2> QED BY <1>1, <2>1, <2>2, <2>3, <2>4, <2>5, <2>6 DEF CreateWorkers
<1>2. CASE InitTask
  <2>1. taskid_seed \in Nat /\ taskid_seed' = taskid_seed + 1
    BY <1>2 DEF InitTask
  <2>2. bktask' = 0 .. (taskid_seed' - 1)
    BY <1>2, <2>1 DEF InitTask
  <2>3. bktask_sz' = taskid_seed'
    BY <1>2, <2>1 DEF InitTask
  <2>4. \A u \in Task : tstate'[u] # "none" => Found(u)'
    BY <1>2, <2>1 DEF InitTask
  <2>5. \A u \in Task : tstate'[u] = "failed" => wid'[u] = NULL
    BY <1>2 DEF InitTask
  <2>6. mpc' = "client" /\ mpc = "client"
    BY <1>2 DEF InitTask
  <2> QED BY <2>2, <2>3, <2>4, <2>5, <2>6
<1>3. ASSUME NEW t \in Task, Calls(t) PROVE CallOK'
  <2>1. CASE GetNoWorker(t)
    BY <2>1 DEF GetNoWorker
  <2>2. CASE Dequeue(t)
    BY <2>2 DEF Dequeue
  <2>3. CASE AssignFails(t)
    BY <2>3 DEF AssignFails, Assignable
  <2>4. CASE AssignBusy(t)
    <3> USE <2>4 DEF AssignBusy
    <3>1. wid[t] \in Worker
      BY AssignableWorker
    <3>2. UNCHANGED <<taskid_seed, bktask_sz, bktask, wid, tstate>>
      OBVIOUS
    <3>3. mpc' = "assign func" /\ cur' = t
      OBVIOUS
    <3>4. \A u \in Task : Found(u)' = Found(u)
      BY <3>2
    <3> QED BY <3>1, <3>2, <3>3, <3>4
  <2>5. CASE DispatchFaults(t)
    BY <2>5 DEF DispatchFaults
  <2>6. CASE DispatchCheck(t)
    <3>a. CASE worker[wid[t]].func = NULL
      BY <2>6, <3>a DEF DispatchCheck
    <3>b. CASE worker[wid[t]].func # NULL
      <4> USE <2>6, <3>b DEF DispatchCheck
      <4>1. wid[t] \in Worker
        OBVIOUS
      <4>2. UNCHANGED <<taskid_seed, bktask_sz, bktask, wid, tstate>>
        OBVIOUS
      <4>3. mpc' = "tkill" /\ cur' = t
        OBVIOUS
      <4>4. \A u \in Task : Found(u)' = Found(u)
        BY <4>2
      <4>5. tstate[t] = "assigned"
        OBVIOUS
      <4> QED BY <4>1, <4>2, <4>3, <4>4, <4>5
    <3> QED BY <3>a, <3>b
  <2> QED BY <1>3, <2>1, <2>2, <2>3, <2>4, <2>5, <2>6 DEF Calls
<1>4. CASE Returns
  BY <1>4, NextCell DEF Returns, DequeueReturn, AssignFunc, AssignArg, Tkill
<1>5. ASSUME NEW w \in Worker, WorkerStep(w) PROVE CallOK'
  <2>1. CASE ReadId(w)
    BY <2>1 DEF ReadId
  <2>2. CASE Wake(w)
    BY <2>2 DEF Wake
  <2>3. CASE Call(w)
    BY <2>3 DEF Call
  <2>4. CASE CallReturns(w)
    BY <2>4 DEF CallReturns
  <2>5. CASE ClearBusy(w)
    BY <2>5 DEF ClearBusy
  <2>6. CASE ClearSlot(w)
    BY <2>6 DEF ClearSlot, EmptySlot
  <2>7. CASE Requeue(w)
    BY <2>7 DEF Requeue, Enqueue
  <2>8. CASE RequeueReturn(w)
    <3>1. wrk_fifo_size <= wrk_fifo_size'
      BY <2>8, EnqueueReturnType DEF RequeueReturn
    <3>2. UNCHANGED <<i, j, mpc, cur, taskid_seed, bktask_sz, bktask, tstate, wid>>
      BY <2>8 DEF RequeueReturn
    <3>3. \A t \in Task : Found(t)' = Found(t)
      BY <3>2
    <3>4. mpc' = "dequeue" => wrk_fifo_size' > 0
      BY <3>1, <3>2
    <3> HIDE DEF Found
    <3> QED BY <3>2, <3>3, <3>4
  <2> QED BY <1>5, <2>1, <2>2, <2>3, <2>4, <2>5, <2>6, <2>7, <2>8 DEF WorkerStep
<1>6. CASE UNCHANGED vars
  BY <1>6 DEF vars
<1> QED
  BY <1>1, <1>2, <1>3, <1>4, <1>5, <1>6 DEF Next, ClientStep, Quiet

LEMMA MutexOKStep == ThreadType /\ MutexOK /\ CreatingOK /\ [Next]_vars => MutexOK'
<1> SUFFICES ASSUME ThreadType, MutexOK, CreatingOK, [Next]_vars PROVE MutexOK'
  OBVIOUS
<1> USE DEF MutexOK, ThreadType, mainVars, fifoVars, threadVars, Nobody, Main, Worker
<1>1. CASE CreateWorkers
  <2>1. CASE Clone
    BY <2>1, CreatingIdle DEF Clone, Creating
  <2>2. CASE NextClone /\ PauseIsEnough
    BY <2>2 DEF NextClone, PauseIsEnough
  <2>3. CASE ResetFifo
    BY <2>3 DEF ResetFifo
  <2>4. CASE Fill
    BY <2>4 DEF Fill, Enqueue
  <2>5. CASE FillReturn
    BY <2>5, NextCell DEF FillReturn, EnqueueReturn
  <2>6. CASE Created
    BY <2>6 DEF Created
  <2> QED BY <1>1, <2>1, <2>2, <2>3, <2>4, <2>5, <2>6 DEF CreateWorkers
<1>2. CASE InitTask
  BY <1>2 DEF InitTask
<1>3. ASSUME NEW t \in Task, Calls(t) PROVE MutexOK'
  <2>1. CASE GetNoWorker(t)
    BY <2>1 DEF GetNoWorker
  <2>2. CASE Dequeue(t)
    BY <2>2 DEF Dequeue
  <2>3. CASE AssignFails(t)
    BY <2>3 DEF AssignFails, Assignable
  <2>4. CASE AssignBusy(t)
    BY <2>4 DEF AssignBusy, Assignable
  <2>5. CASE DispatchFaults(t)
    BY <2>5 DEF DispatchFaults
  <2>6. CASE DispatchCheck(t)
    BY <2>6 DEF DispatchCheck
  <2> QED BY <1>3, <2>1, <2>2, <2>3, <2>4, <2>5, <2>6 DEF Calls
<1>4. CASE Returns
  <2>1. CASE DequeueReturn
    BY <2>1, NextCell DEF DequeueReturn
  <2>2. CASE AssignFunc
    BY <2>2 DEF AssignFunc
  <2>3. CASE AssignArg
    BY <2>3 DEF AssignArg
  <2>4. CASE Tkill
    BY <2>4 DEF Tkill
  <2> QED BY <1>4, <2>1, <2>2, <2>3, <2>4 DEF Returns
<1>5. ASSUME NEW w \in Worker, WorkerStep(w) PROVE MutexOK'
  <2>1. CASE ReadId(w)
    BY <2>1 DEF ReadId
  <2>2. CASE Wake(w)
    BY <2>2 DEF Wake
  <2>3. CASE Call(w)
    BY <2>3 DEF Call
  <2>4. CASE CallReturns(w)
    BY <2>4 DEF CallReturns
  <2>5. CASE ClearBusy(w)
    BY <2>5 DEF ClearBusy
  <2>6. CASE ClearSlot(w)
    BY <2>6 DEF ClearSlot, EmptySlot
  <2>7. CASE Requeue(w)
    BY <2>7 DEF Requeue, Enqueue
  <2>8. CASE RequeueReturn(w)
    <3> USE <2>8 DEF RequeueReturn, EnqueueReturn
    <3>1. wrk_fifo_mutex' = Nobody /\ mpc' = mpc
      OBVIOUS
    <3>2. mpc \notin {"filling", "dequeue"}
      OBVIOUS
    <3>3. \A v \in Worker : wpc'[v] = "enqueuing" <=> wpc[v] = "enqueuing" /\ v # w
      OBVIOUS
    <3>4. \A v \in Worker : wpc[v] = "enqueuing" => v = w
      OBVIOUS
    <3> QED BY <3>1, <3>2, <3>3, <3>4
  <2> QED BY <1>5, <2>1, <2>2, <2>3, <2>4, <2>5, <2>6, <2>7, <2>8 DEF WorkerStep
<1>6. CASE UNCHANGED vars
  BY <1>6 DEF vars
<1> QED
  BY <1>1, <1>2, <1>3, <1>4, <1>5, <1>6 DEF Next, ClientStep, Quiet

LEMMA ThreadOKStep == MainType /\ ThreadType /\ ThreadOK /\ [Next]_vars => ThreadOK'
<1> SUFFICES ASSUME MainType, ThreadType, ThreadOK, [Next]_vars PROVE ThreadOK'
  OBVIOUS
<1> USE PoolAssumption DEF ThreadOK, ThreadType, MainType, mainVars, threadVars, Worker
<1>1. CASE CreateWorkers
  <2>1. CASE Clone
    BY <2>1 DEF Clone
  <2>2. CASE NextClone /\ PauseIsEnough
    BY <2>2 DEF NextClone, PauseIsEnough
  <2>3. CASE ResetFifo
    BY <2>3 DEF ResetFifo
  <2>4. CASE Fill
    BY <2>4 DEF Fill, Enqueue
  <2>5. CASE FillReturn
    BY <2>5, NextCell DEF FillReturn, EnqueueReturn
  <2>6. CASE Created
    BY <2>6 DEF Created
  <2> QED BY <1>1, <2>1, <2>2, <2>3, <2>4, <2>5, <2>6 DEF CreateWorkers
<1>2. CASE InitTask
  BY <1>2 DEF InitTask
<1>3. ASSUME NEW t \in Task, Calls(t) PROVE ThreadOK'
  BY <1>3 DEF Calls, GetNoWorker, Dequeue, AssignFails, Assignable, AssignBusy, DispatchFaults, DispatchCheck
<1>4. CASE Returns
  BY <1>4, NextCell DEF Returns, DequeueReturn, AssignFunc, AssignArg, Tkill
<1>5. ASSUME NEW w \in Worker, WorkerStep(w) PROVE ThreadOK'
  <2>1. CASE ReadId(w)
    <3>1. /\ idx' = [idx EXCEPT ![w] = w] /\ wpc' = [wpc EXCEPT ![w] = "sigwait"]
          /\ UNCHANGED <<i, mpc, pending, runs>>
      BY <2>1, OwnIdRead DEF ReadId, mainVars
    <3> QED BY <3>1
  <2>2. CASE Wake(w)
    BY <2>2 DEF Wake
  <2>3. CASE Call(w)
    BY <2>3 DEF Call
  <2>4. CASE CallReturns(w)
    BY <2>4 DEF CallReturns
  <2>5. CASE ClearBusy(w)
    BY <2>5 DEF ClearBusy
  <2>6. CASE ClearSlot(w)
    BY <2>6 DEF ClearSlot, EmptySlot
  <2>7. CASE Requeue(w)
    BY <2>7 DEF Requeue, Enqueue
  <2>8. CASE RequeueReturn(w)
    BY <2>8, NextCell DEF RequeueReturn, EnqueueReturn
  <2> QED BY <1>5, <2>1, <2>2, <2>3, <2>4, <2>5, <2>6, <2>7, <2>8 DEF WorkerStep
<1>6. CASE UNCHANGED vars
  BY <1>6 DEF vars
<1> QED
  BY <1>1, <1>2, <1>3, <1>4, <1>5, <1>6 DEF Next, ClientStep, Quiet

LEMMA CreatingOKStep == TaskType /\ SlotType /\ ThreadType /\ ThreadOK /\ CreatingOK /\ [Next]_vars => CreatingOK'
<1> SUFFICES ASSUME TaskType, SlotType, ThreadType, ThreadOK, CreatingOK, [Next]_vars PROVE CreatingOK'
  OBVIOUS
<1> USE DEF CreatingOK, Untouched, Creating, TaskType, SlotType, ThreadType, mainVars, taskVars, slotVars, threadVars, ThreadOK
<1>1. CASE CreateWorkers
  <2>1. CASE Clone
    <3>1. \A v \in Worker : Untouched(v)'
      BY <2>1 DEF Clone
    <3> QED BY <2>1, <3>1 DEF Clone
  <2>2. CASE NextClone /\ PauseIsEnough
    BY <2>2 DEF NextClone, PauseIsEnough
  <2>3. CASE ResetFifo
    BY <2>3 DEF ResetFifo
  <2>4. CASE Fill
    BY <2>4 DEF Fill, Enqueue
  <2>5. CASE FillReturn
    BY <2>5, NextCell DEF FillReturn, EnqueueReturn
  <2>6. CASE Created
    BY <2>6 DEF Created
  <2> QED BY <1>1, <2>1, <2>2, <2>3, <2>4, <2>5, <2>6 DEF CreateWorkers
<1>2. CASE InitTask
  BY <1>2 DEF InitTask
<1>3. ASSUME NEW t \in Task, Calls(t) PROVE CreatingOK'
  BY <1>3 DEF Calls, GetNoWorker, Dequeue, AssignFails, Assignable, AssignBusy, DispatchFaults, DispatchCheck
<1>4. CASE Returns
  BY <1>4, NextCell DEF Returns, DequeueReturn, AssignFunc, AssignArg, Tkill
<1>5. ASSUME NEW w \in Worker, WorkerStep(w) PROVE CreatingOK'
  <2>1. CASE ReadId(w)
    BY <2>1 DEF ReadId
  <2>2. CASE Wake(w)
    BY <2>2 DEF Wake
  <2>3. CASE Call(w)
    BY <2>3 DEF Call
  <2>4. CASE CallReturns(w)
    BY <2>4 DEF CallReturns
  <2>5. CASE ClearBusy(w)
    BY <2>5 DEF ClearBusy
  <2>6. CASE ClearSlot(w)
    BY <2>6 DEF ClearSlot, EmptySlot
  <2>7. CASE Requeue(w)
    BY <2>7 DEF Requeue, Enqueue
  <2>8. CASE RequeueReturn(w)
    <3>1. ~Creating
      BY <2>8 DEF RequeueReturn
    <3> QED BY <2>8, <3>1 DEF RequeueReturn
  <2> QED BY <1>5, <2>1, <2>2, <2>3, <2>4, <2>5, <2>6, <2>7, <2>8 DEF WorkerStep
<1>6. CASE UNCHANGED vars
  BY <1>6 DEF vars
<1> QED
  BY <1>1, <1>2, <1>3, <1>4, <1>5, <1>6 DEF Next, ClientStep, Quiet

LEMMA EnqueueReturnTail ==
  ASSUME FifoType, TailOK, NEW p, EnqueueReturn(p)
  PROVE  TailOK'
<1>1. CASE wrk_fifo_size = MAX_WORKER
  BY <1>1, PoolAssumption DEF TailOK, EnqueueReturn
<1>2. CASE wrk_fifo_size < MAX_WORKER
  <2>1. wrk_fifo_tail' = IF wrk_fifo_tail + 1 = MAX_WORKER THEN 0 ELSE wrk_fifo_tail + 1
    BY <1>2, NextCell DEF FifoType, EnqueueReturn
  <2>2. wrk_fifo_head' = wrk_fifo_head /\ wrk_fifo_size' = wrk_fifo_size + 1
    BY <1>2 DEF EnqueueReturn
  <2> QED BY <1>2, <2>1, <2>2, PoolAssumption DEF TailOK, FifoType, Worker
<1> QED BY <1>1, <1>2, PoolAssumption DEF FifoType

LEMMA DequeueReturnTail ==
  ASSUME FifoType, TailOK, wrk_fifo_size > 0, DequeueReturn
  PROVE  TailOK'
<1>1. wrk_fifo_head' = IF wrk_fifo_head + 1 = MAX_WORKER THEN 0 ELSE wrk_fifo_head + 1
  BY NextCell DEF FifoType, DequeueReturn
<1>2. wrk_fifo_tail' = wrk_fifo_tail /\ wrk_fifo_size' = wrk_fifo_size - 1
  BY DEF DequeueReturn
<1> QED BY <1>1, <1>2, PoolAssumption DEF TailOK, FifoType, Worker

LEMMA LoneEnqueuer ==
  ASSUME ThreadType, MutexOK, CreatingOK, NEW w \in Worker, wpc[w] = "enqueuing"
  PROVE  /\ ~Creating /\ mpc # "dequeue"
         /\ \A v \in Worker : wpc[v] = "enqueuing" => v = w
<1>1. wrk_fifo_mutex = w /\ w # Main
  BY DEF MutexOK, Worker, Main
<1>2. mpc # "dequeue"
  BY <1>1 DEF MutexOK
<1>3. \A v \in Worker : wpc[v] = "enqueuing" => v = w
  BY <1>1 DEF MutexOK
<1> QED BY <1>2, <1>3 DEF CreatingOK, Untouched

LEMMA RequeueRing ==
  ASSUME FifoType, ThreadType, MutexOK, ThreadOK, CreatingOK, RingOK,
         NEW w \in Worker, Requeue(w)
  PROVE  RingOK'
<1> USE DEF Requeue
<1>1. ~Creating
  BY DEF CreatingOK, Untouched
<1>2. mpc # "dequeue" /\ mpc' = mpc
  BY DEF MutexOK, Enqueue, Main, Nobody, mainVars
<1>3. \A v \in Worker : wpc[v] # "enqueuing"
  BY DEF MutexOK, Enqueue, Worker, Nobody
<1>4. \A v \in Worker : wpc'[v] = "enqueuing" => v = w
  BY <1>3 DEF ThreadType
<1>5. wrk_fifo_size < MAX_WORKER => wrk_fifo'[wrk_fifo_tail] = w
  BY DEF Enqueue, FifoType, ThreadOK
<1>6. UNCHANGED <<wrk_fifo_tail, wrk_fifo_size>>
  BY DEF Enqueue
<1> QED BY <1>1, <1>2, <1>4, <1>5, <1>6 DEF RingOK, Creating

LEMMA RequeueReturnRing ==
  ASSUME ThreadType, MutexOK, CreatingOK, RingOK, NEW w \in Worker, RequeueReturn(w)
  PROVE  RingOK'
<1> USE DEF RequeueReturn
<1>1. ~Creating /\ mpc # "dequeue" /\ mpc' = mpc
  BY LoneEnqueuer DEF mainVars
<1>2. \A v \in Worker : wpc'[v] # "enqueuing"
  BY LoneEnqueuer DEF ThreadType
<1> QED BY <1>1, <1>2 DEF RingOK, Creating

LEMMA FillRing ==
  ASSUME MainType, FifoType, CallOK, MutexOK, CreatingOK, TailOK, RingOK, Fill
  PROVE  RingOK'
<1> USE DEF Fill
<1>1. wrk_fifo_size = j /\ wrk_fifo_tail = j /\ wrk_fifo_head = 0 /\ j \in Worker
  BY PoolAssumption DEF RingOK, TailOK, MainType, Worker, Creating
<1>2. wrk_fifo' = [wrk_fifo EXCEPT ![j] = j]
  BY <1>1 DEF Enqueue, Worker
<1>3. \A c \in Worker : c < j => wrk_fifo'[c] = c
  BY <1>1, <1>2 DEF FifoType, RingOK, Worker
<1>4. wrk_fifo'[j] = j
  BY <1>1, <1>2 DEF FifoType
<1>5. UNCHANGED <<j, wrk_fifo_size, wrk_fifo_tail, wrk_fifo_head>>
  BY DEF Enqueue
<1>6. \A w \in Worker : wpc'[w] # "enqueuing"
  BY DEF CreatingOK, Creating, Untouched, threadVars
<1> QED BY <1>1, <1>3, <1>4, <1>5, <1>6 DEF RingOK, Creating

LEMMA FillReturnRing ==
  ASSUME MainType, FifoType, CallOK, CreatingOK, TailOK, RingOK, FillReturn
  PROVE  RingOK'
<1> USE DEF FillReturn
<1>1. j < MAX_WORKER /\ wrk_fifo_size = j /\ wrk_fifo_tail = j /\ wrk_fifo_head = 0
  BY PoolAssumption DEF CallOK, RingOK, TailOK, Creating, Worker
<1>2. wrk_fifo_size' = j + 1 /\ wrk_fifo_head' = 0 /\ wrk_fifo' = wrk_fifo
  BY <1>1 DEF EnqueueReturn
<1>3. \A c \in Worker : c < j + 1 => wrk_fifo[c] = c
  BY <1>1 DEF RingOK, MainType, Worker
<1>4. \A w \in Worker : wpc'[w] # "enqueuing"
  BY DEF CreatingOK, Creating, Untouched, threadVars
<1> QED BY <1>2, <1>3, <1>4 DEF RingOK, Creating

(* A step that leaves the ring and the main thread alone and lets no worker *)
(* into the critical section.                                               *)
LEMMA StillNotEnqueuing ==
  ASSUME ThreadType, NEW w \in Worker, NEW pc, pc # "enqueuing",
         wpc' = [wpc EXCEPT ![w] = pc]
  PROVE  \A v \in Worker : wpc'[v] = "enqueuing" => wpc[v] = "enqueuing"
BY DEF ThreadType

LEMMA RingFrame ==
  ASSUME RingOK, UNCHANGED <<mainVars, wid, fifoVars>>,
         \A w \in Worker : wpc'[w] = "enqueuing" => wpc[w] = "enqueuing"
  PROVE  RingOK'
BY DEF RingOK, Creating, mainVars, fifoVars

LEMMA TailOKStep == FifoType /\ CallOK /\ TailOK /\ [Next]_vars => TailOK'
<1> SUFFICES ASSUME FifoType, CallOK, TailOK, [Next]_vars PROVE TailOK'
  OBVIOUS
<1> USE PoolAssumption DEF TailOK, fifoVars, Enqueue
<1>1. CASE CreateWorkers
  <2>1. CASE Clone
    BY <2>1 DEF Clone
  <2>2. CASE NextClone /\ PauseIsEnough
    BY <2>2 DEF NextClone, PauseIsEnough
  <2>3. CASE ResetFifo
    BY <2>3 DEF ResetFifo
  <2>4. CASE Fill
    BY <2>4 DEF Fill, Enqueue
  <2>5. CASE FillReturn
    BY <2>5, NextCell, EnqueueReturnTail DEF FillReturn, EnqueueReturn
  <2>6. CASE Created
    BY <2>6 DEF Created
  <2> QED BY <1>1, <2>1, <2>2, <2>3, <2>4, <2>5, <2>6 DEF CreateWorkers
<1>2. CASE InitTask
  BY <1>2 DEF InitTask
<1>3. ASSUME NEW t \in Task, Calls(t) PROVE TailOK'
  BY <1>3 DEF Calls, GetNoWorker, Dequeue, AssignFails, Assignable, AssignBusy, DispatchFaults, DispatchCheck
<1>4. CASE Returns
  <2>1. CASE DequeueReturn
    BY <2>1, DequeueReturnTail DEF CallOK, DequeueReturn
  <2>2. CASE AssignFunc
    BY <2>2 DEF AssignFunc
  <2>3. CASE AssignArg
    BY <2>3 DEF AssignArg
  <2>4. CASE Tkill
    BY <2>4 DEF Tkill
  <2> QED BY <1>4, <2>1, <2>2, <2>3, <2>4 DEF Returns
<1>5. ASSUME NEW w \in Worker, WorkerStep(w) PROVE TailOK'
  <2>1. CASE ReadId(w)
    BY <2>1 DEF ReadId
  <2>2. CASE Wake(w)
    BY <2>2 DEF Wake
  <2>3. CASE Call(w)
    BY <2>3 DEF Call
  <2>4. CASE CallReturns(w)
    BY <2>4 DEF CallReturns
  <2>5. CASE ClearBusy(w)
    BY <2>5 DEF ClearBusy
  <2>6. CASE ClearSlot(w)
    BY <2>6 DEF ClearSlot, EmptySlot
  <2>7. CASE Requeue(w)
    BY <2>7 DEF Requeue, Enqueue
  <2>8. CASE RequeueReturn(w)
    BY <2>8, NextCell, EnqueueReturnTail DEF RequeueReturn, EnqueueReturn
  <2> QED BY <1>5, <2>1, <2>2, <2>3, <2>4, <2>5, <2>6, <2>7, <2>8 DEF WorkerStep
<1>6. CASE UNCHANGED vars
  BY <1>6 DEF vars
<1> QED
  BY <1>1, <1>2, <1>3, <1>4, <1>5, <1>6 DEF Next, ClientStep, Quiet

LEMMA RingOKStep == MainType /\ TaskType /\ FifoType /\ FifoType' /\ ThreadType /\ CallOK /\ MutexOK /\ ThreadOK /\ CreatingOK /\ TailOK /\ RingOK /\ [Next]_vars => RingOK'
<1> SUFFICES ASSUME MainType, TaskType, FifoType, FifoType', ThreadType, CallOK, MutexOK, ThreadOK, CreatingOK, TailOK, RingOK, [Next]_vars PROVE RingOK'
  OBVIOUS
<1> USE PoolAssumption DEF RingOK, MainType, TaskType, FifoType, ThreadType, CallOK, MutexOK, ThreadOK, CreatingOK, Untouched, Creating, InCall, Worker, Main, Nobody, mainVars, taskVars, fifoVars, slotVars, threadVars
<1>1. CASE CreateWorkers
  <2>1. CASE Clone
    BY <2>1 DEF Clone
  <2>2. CASE NextClone /\ PauseIsEnough
    BY <2>2 DEF NextClone, PauseIsEnough
  <2>3. CASE ResetFifo
    BY <2>3 DEF ResetFifo
  <2>4. CASE Fill
    BY <2>4, FillRing
  <2>5. CASE FillReturn
    BY <2>5, FillReturnRing
  <2>6. CASE Created
    BY <2>6 DEF Created
  <2> QED BY <1>1, <2>1, <2>2, <2>3, <2>4, <2>5, <2>6 DEF CreateWorkers
<1>2. CASE InitTask
  BY <1>2 DEF InitTask
<1>3. ASSUME NEW t \in Task, Calls(t) PROVE RingOK'
  <2>1. CASE GetNoWorker(t)
    BY <2>1 DEF GetNoWorker
  <2>2. CASE Dequeue(t)
    BY <2>2 DEF Dequeue
  <2>3. CASE AssignFails(t)
    BY <2>3 DEF AssignFails, Assignable
  <2>4. CASE AssignBusy(t)
    BY <2>4 DEF AssignBusy, Assignable
  <2>5. CASE DispatchFaults(t)
    BY <2>5 DEF DispatchFaults
  <2>6. CASE DispatchCheck(t)
    BY <2>6 DEF DispatchCheck
  <2> QED BY <1>3, <2>1, <2>2, <2>3, <2>4, <2>5, <2>6 DEF Calls
<1>4. CASE Returns
  <2>1. CASE DequeueReturn
    <3>1. mpc' = "client" /\ wrk_fifo_mutex = Main
      BY <2>1 DEF DequeueReturn
    <3>2. \A w \in Worker : wpc'[w] # "enqueuing"
      BY <2>1 DEF DequeueReturn
    <3> QED BY <3>1, <3>2
  <2>2. CASE AssignFunc
    BY <2>2 DEF AssignFunc
  <2>3. CASE AssignArg
    BY <2>3 DEF AssignArg
  <2>4. CASE Tkill
    BY <2>4 DEF Tkill
  <2> QED BY <1>4, <2>1, <2>2, <2>3, <2>4 DEF Returns
<1>5. ASSUME NEW w \in Worker, WorkerStep(w) PROVE RingOK'
  <2>1. CASE ReadId(w)
    <3>1. \A v \in Worker : wpc'[v] = "enqueuing" => wpc[v] = "enqueuing"
      BY <2>1, StillNotEnqueuing DEF ReadId
    <3> QED BY <2>1, <3>1, RingFrame DEF ReadId
  <2>2. CASE Wake(w)
    <3>1. \A v \in Worker : wpc'[v] = "enqueuing" => wpc[v] = "enqueuing"
      BY <2>2, StillNotEnqueuing DEF Wake
    <3> QED BY <2>2, <3>1, RingFrame DEF Wake
  <2>3. CASE Call(w)
    <3>1. \A v \in Worker : wpc'[v] = "enqueuing" => wpc[v] = "enqueuing"
      BY <2>3, StillNotEnqueuing DEF Call
    <3> QED BY <2>3, <3>1, RingFrame DEF Call
  <2>4. CASE CallReturns(w)
    <3>1. \A v \in Worker : wpc'[v] = "enqueuing" => wpc[v] = "enqueuing"
      BY <2>4, StillNotEnqueuing DEF CallReturns
    <3> QED BY <2>4, <3>1, RingFrame DEF CallReturns
  <2>5. CASE ClearBusy(w)
    <3>1. \A v \in Worker : wpc'[v] = "enqueuing" => wpc[v] = "enqueuing"
      BY <2>5, StillNotEnqueuing DEF ClearBusy
    <3> QED BY <2>5, <3>1, RingFrame DEF ClearBusy
  <2>6. CASE ClearSlot(w)
    <3>1. \A v \in Worker : wpc'[v] = "enqueuing" => wpc[v] = "enqueuing"
      BY <2>6, StillNotEnqueuing DEF ClearSlot
    <3> QED BY <2>6, <3>1, RingFrame DEF ClearSlot
  <2>7. CASE Requeue(w)
    BY <2>7, RequeueRing
  <2>8. CASE RequeueReturn(w)
    BY <2>8, RequeueReturnRing
  <2> QED BY <1>5, <2>1, <2>2, <2>3, <2>4, <2>5, <2>6, <2>7, <2>8 DEF WorkerStep
<1>6. CASE UNCHANGED vars
  BY <1>6 DEF vars
<1> QED
  BY <1>1, <1>2, <1>3, <1>4, <1>5, <1>6 DEF Next, ClientStep, Quiet

LEMMA ReturnOKStep == TaskType /\ SlotType /\ ThreadType /\ CallOK /\ ThreadOK /\ ReservedOK /\ ReturnOK /\ [Next]_vars => ReturnOK'
<1> SUFFICES ASSUME TaskType, SlotType, ThreadType, CallOK, ThreadOK, ReservedOK, ReturnOK, [Next]_vars PROVE ReturnOK'
  OBVIOUS
<1> USE DEF ReturnOK, SlotType, ThreadType, CallOK, InCall, ThreadOK, ReservedOK, Reserved, Parked, mainVars, taskVars, fifoVars, slotVars, threadVars
<1>1. CASE CreateWorkers
  <2>1. CASE Clone
    BY <2>1 DEF Clone
  <2>2. CASE NextClone /\ PauseIsEnough
    BY <2>2 DEF NextClone, PauseIsEnough
  <2>3. CASE ResetFifo
    BY <2>3 DEF ResetFifo
  <2>4. CASE Fill
    BY <2>4 DEF Fill, Enqueue
  <2>5. CASE FillReturn
    BY <2>5, NextCell DEF FillReturn, EnqueueReturn
  <2>6. CASE Created
    BY <2>6 DEF Created
  <2> QED BY <1>1, <2>1, <2>2, <2>3, <2>4, <2>5, <2>6 DEF CreateWorkers
<1>2. CASE InitTask
  BY <1>2 DEF InitTask
<1>3. ASSUME NEW t \in Task, Calls(t) PROVE ReturnOK'
  <2>1. CASE GetNoWorker(t)
    BY <2>1 DEF GetNoWorker
  <2>2. CASE Dequeue(t)
    BY <2>2 DEF Dequeue
  <2>3. CASE AssignFails(t)
    BY <2>3 DEF AssignFails, Assignable
  <2>4. CASE AssignBusy(t)
    <3>1. wid[t] \in Worker /\ wpc[wid[t]] = "sigwait"
      BY <2>4, AssignableWorker DEF AssignBusy
    <3> QED BY <2>4, <3>1 DEF AssignBusy
  <2>5. CASE DispatchFaults(t)
    BY <2>5 DEF DispatchFaults
  <2>6. CASE DispatchCheck(t)
    BY <2>6 DEF DispatchCheck
  <2> QED BY <1>3, <2>1, <2>2, <2>3, <2>4, <2>5, <2>6 DEF Calls
<1>4. CASE Returns
  <2>1. CASE DequeueReturn
    BY <2>1, NextCell DEF DequeueReturn
  <2>2. CASE AssignFunc
    BY <2>2 DEF AssignFunc
  <2>3. CASE AssignArg
    BY <2>3 DEF AssignArg
  <2>4. CASE Tkill
    BY <2>4 DEF Tkill
  <2> QED BY <1>4, <2>1, <2>2, <2>3, <2>4 DEF Returns
<1>5. ASSUME NEW w \in Worker, WorkerStep(w) PROVE ReturnOK'
  <2>1. CASE ReadId(w)
    BY <2>1 DEF ReadId
  <2>2. CASE Wake(w)
    BY <2>2 DEF Wake
  <2>3. CASE Call(w)
    BY <2>3 DEF Call
  <2>4. CASE CallReturns(w)
    BY <2>4 DEF CallReturns
  <2>5. CASE ClearBusy(w)
    BY <2>5 DEF ClearBusy
  <2>6. CASE ClearSlot(w)
    BY <2>6 DEF ClearSlot, EmptySlot
  <2>7. CASE Requeue(w)
    BY <2>7 DEF Requeue, Enqueue
  <2>8. CASE RequeueReturn(w)
    BY <2>8, NextCell DEF RequeueReturn, EnqueueReturn
  <2> QED BY <1>5, <2>1, <2>2, <2>3, <2>4, <2>5, <2>6, <2>7, <2>8 DEF WorkerStep
<1>6. CASE UNCHANGED vars
  BY <1>6 DEF vars
<1> QED
  BY <1>1, <1>2, <1>3, <1>4, <1>5, <1>6 DEF Next, ClientStep, Quiet

(* What the three ring operations do to the workers that are in the ring *)

LEMMA EnqueueIn ==
  ASSUME FifoType, TailOK, NEW p, NEW w \in Worker, Enqueue(p, w)
  PROVE  /\ \A v \in Worker : In(v)' <=> In(v)
         /\ Distinct' <=> Distinct
<1>1. \A c \in Worker : InRing(c)' <=> InRing(c)
  BY DEF Enqueue, InRing
<1>2. \A c \in Worker : InRing(c) => wrk_fifo'[c] = wrk_fifo[c]
  <2> SUFFICES ASSUME NEW c \in Worker, InRing(c) PROVE wrk_fifo'[c] = wrk_fifo[c]
    OBVIOUS
  <2>1. CASE wrk_fifo_size < MAX_WORKER
    <3>1. c # wrk_fifo_tail
      BY <2>1, PoolAssumption DEF InRing, TailOK, FifoType, Worker
    <3> QED BY <2>1, <3>1 DEF Enqueue, FifoType
  <2>2. CASE ~(wrk_fifo_size < MAX_WORKER)
    BY <2>2 DEF Enqueue
  <2> QED BY <2>1, <2>2
<1> QED BY <1>1, <1>2 DEF In, Distinct

LEMMA EnqueueReturnIn ==
  ASSUME FifoType, TailOK, NEW p, EnqueueReturn(p), wrk_fifo_size < MAX_WORKER
  PROVE  /\ \A v \in Worker : In(v)' <=> In(v) \/ v = wrk_fifo[wrk_fifo_tail]
         /\ Distinct /\ ~In(wrk_fifo[wrk_fifo_tail]) => Distinct'
<1>1. \A c \in Worker : InRing(c)' <=> InRing(c) \/ c = wrk_fifo_tail
  <2> SUFFICES ASSUME NEW c \in Worker PROVE InRing(c)' <=> InRing(c) \/ c = wrk_fifo_tail
    OBVIOUS
  <2>1. wrk_fifo_size' = wrk_fifo_size + 1 /\ wrk_fifo_head' = wrk_fifo_head
    BY DEF EnqueueReturn
  <2> QED BY <2>1, PoolAssumption DEF InRing, TailOK, FifoType, Worker
<1>2. wrk_fifo' = wrk_fifo /\ wrk_fifo_tail \in Worker
  BY DEF EnqueueReturn, FifoType
<1>3. \A v \in Worker : In(v)' <=> In(v) \/ v = wrk_fifo[wrk_fifo_tail]
  BY <1>1, <1>2 DEF In
<1>4. Distinct /\ ~In(wrk_fifo[wrk_fifo_tail]) => Distinct'
  BY <1>1, <1>2 DEF In, Distinct
<1> QED BY <1>3, <1>4

LEMMA DequeueReturnIn ==
  ASSUME FifoType, Distinct, wrk_fifo_size > 0, DequeueReturn
  PROVE  /\ In(wrk_fifo[wrk_fifo_head])
         /\ \A v \in Worker : In(v)' <=> In(v) /\ v # wrk_fifo[wrk_fifo_head]
         /\ Distinct'
<1>1. wrk_fifo_head' = IF wrk_fifo_head + 1 = MAX_WORKER THEN 0 ELSE wrk_fifo_head + 1
  BY NextCell DEF DequeueReturn, FifoType
<1>2. wrk_fifo_size' = wrk_fifo_size - 1 /\ wrk_fifo' = wrk_fifo
  BY DEF DequeueReturn
<1>3. InRing(wrk_fifo_head) /\ wrk_fifo_head \in Worker
  BY PoolAssumption DEF FifoType, InRing, Worker
<1>4. \A c \in Worker : InRing(c)' <=> InRing(c) /\ c # wrk_fifo_head
  BY <1>1, <1>2, PoolAssumption DEF InRing, FifoType, Worker
<1>5. In(wrk_fifo[wrk_fifo_head])
  BY <1>3 DEF In
<1>6. \A v \in Worker : In(v)' <=> In(v) /\ v # wrk_fifo[wrk_fifo_head]
  BY <1>2, <1>3, <1>4 DEF In, Distinct
<1> QED BY <1>2, <1>4, <1>5, <1>6 DEF Distinct

LEMMA SameIn ==
  ASSUME UNCHANGED <<wrk_fifo, wrk_fifo_head, wrk_fifo_size>>
  PROVE  (Distinct' <=> Distinct) /\ \A v \in Worker : In(v)' <=> In(v)
BY DEF Distinct, In, InRing

(* While the ring is filled it holds the workers below j. *)
LEMMA FillIn ==
  ASSUME MainType, FifoType, TailOK, RingOK, mpc \in {"fill", "filling"}
  PROVE  /\ \A v \in Worker : In(v) <=> v < j
         /\ j < MAX_WORKER => wrk_fifo_tail = j /\ wrk_fifo_size < MAX_WORKER
<1>1. wrk_fifo_head = 0 /\ wrk_fifo_size = j
  BY DEF RingOK, Creating
<1>2. \A c \in Worker : InRing(c) <=> c < j
  BY <1>1, PoolAssumption DEF InRing, MainType, Worker
<1>3. \A c \in Worker : c < j => wrk_fifo[c] = c
  BY DEF RingOK
<1>4. \A v \in Worker : In(v) <=> v < j
  BY <1>2, <1>3 DEF In
<1> QED BY <1>1, <1>4, PoolAssumption DEF TailOK, MainType

(* A worker that is about to enter the ring is not in it, and so, by the    *)
(* pigeonhole principle, the ring has a free cell.                          *)
LEMMA FullRingHoldsAll ==
  ASSUME FifoType, Distinct, wrk_fifo_size = MAX_WORKER, NEW w \in Worker
  PROVE  In(w)
<1> SUFFICES ASSUME ~In(w) PROVE FALSE
  OBVIOUS
<1> DEFINE Others == Worker \ {w}
<1>1. \A c \in Worker : InRing(c)
  BY PoolAssumption DEF FifoType, InRing, Worker
<1>2. wrk_fifo \in [Worker -> Others]
  BY <1>1 DEF In, FifoType
<1>3. IsFiniteSet(Worker) /\ Cardinality(Worker) = MAX_WORKER
  BY FS_Interval, PoolAssumption DEF Worker
<1>4. IsFiniteSet(Others) /\ Cardinality(Others) = MAX_WORKER - 1
  BY <1>3, FS_RemoveElement
<1>5. \E c, d \in Worker : c # d /\ wrk_fifo[c] = wrk_fifo[d]
  <2>1. Cardinality(Others) < Cardinality(Worker)
    BY <1>3, <1>4, PoolAssumption
  <2> HIDE DEF Others
  <2> QED BY <1>2, <1>3, <1>4, <2>1, FS_PigeonHole
<1> QED BY <1>1, <1>5 DEF Distinct

LEMMA RoomToRequeue ==
  ASSUME FifoType, Distinct, InIdle, NEW w \in Worker, wpc[w] = "enqueuing"
  PROVE  ~In(w) /\ wrk_fifo_size < MAX_WORKER
<1>1. ~In(w)
  BY DEF InIdle, Idle, Parked
<1>2. wrk_fifo_size # MAX_WORKER
  BY <1>1, FullRingHoldsAll
<1> QED BY <1>1, <1>2, PoolAssumption DEF FifoType

LEMMA DutyFrame ==
  ASSUME DutyOK, UNCHANGED <<worker, wid, runs, tstate, pending, wpc>>
  PROVE  DutyOK'
BY DEF DutyOK, HasTask

LEMMA DistinctStep == MainType /\ FifoType /\ CallOK /\ ThreadOK /\ TailOK /\ RingOK /\ InIdle /\ Distinct /\ [Next]_vars => Distinct'
<1> SUFFICES ASSUME MainType, FifoType, CallOK, ThreadOK, TailOK, RingOK, InIdle, Distinct, [Next]_vars PROVE Distinct'
  OBVIOUS
<1> USE DEF fifoVars
<1>1. CASE CreateWorkers
  <2>1. CASE Clone
    BY <2>1, SameIn DEF Clone
  <2>2. CASE NextClone /\ PauseIsEnough
    BY <2>2, SameIn DEF NextClone, PauseIsEnough
  <2>3. CASE ResetFifo
    <3>1. UNCHANGED <<wrk_fifo, wrk_fifo_head, wrk_fifo_size>>
      BY <2>3 DEF ResetFifo, RingOK, Creating
    <3> QED BY <3>1, SameIn
  <2>4. CASE Fill
    BY <2>4, EnqueueIn, PoolAssumption DEF Fill, Worker, MainType
  <2>5. CASE FillReturn
    <3>1. j \in Worker /\ j < MAX_WORKER /\ wrk_fifo[wrk_fifo_tail] = j
      BY <2>5, PoolAssumption DEF FillReturn, CallOK, RingOK, Worker
    <3>2. ~In(j) /\ wrk_fifo_size < MAX_WORKER
      BY <2>5, <3>1, FillIn DEF FillReturn, Worker
    <3> QED BY <2>5, <3>1, <3>2, EnqueueReturnIn DEF FillReturn
  <2>6. CASE Created
    BY <2>6, SameIn DEF Created
  <2> QED BY <1>1, <2>1, <2>2, <2>3, <2>4, <2>5, <2>6 DEF CreateWorkers
<1>2. CASE InitTask
  BY <1>2, SameIn DEF InitTask
<1>3. ASSUME NEW t \in Task, Calls(t) PROVE Distinct'
  BY <1>3, SameIn DEF Calls, GetNoWorker, Dequeue, AssignFails, Assignable, AssignBusy, DispatchFaults, DispatchCheck
<1>4. CASE Returns
  <2>1. CASE DequeueReturn
    BY <2>1, DequeueReturnIn DEF CallOK, DequeueReturn
  <2>2. CASE AssignFunc
    BY <2>2, SameIn DEF AssignFunc
  <2>3. CASE AssignArg
    BY <2>3, SameIn DEF AssignArg
  <2>4. CASE Tkill
    BY <2>4, SameIn DEF Tkill
  <2> QED BY <1>4, <2>1, <2>2, <2>3, <2>4 DEF Returns
<1>5. ASSUME NEW w \in Worker, WorkerStep(w) PROVE Distinct'
  <2>1. CASE ReadId(w)
    BY <2>1, SameIn DEF ReadId
  <2>2. CASE Wake(w)
    BY <2>2, SameIn DEF Wake
  <2>3. CASE Call(w)
    BY <2>3, SameIn DEF Call
  <2>4. CASE CallReturns(w)
    BY <2>4, SameIn DEF CallReturns
  <2>5. CASE ClearBusy(w)
    BY <2>5, SameIn DEF ClearBusy
  <2>6. CASE ClearSlot(w)
    BY <2>6, SameIn DEF ClearSlot, EmptySlot
  <2>7. CASE Requeue(w)
    BY <2>7, EnqueueIn DEF Requeue, ThreadOK
  <2>8. CASE RequeueReturn(w)
    <3>1. ~In(w) /\ wrk_fifo_size < MAX_WORKER
      BY <2>8, RoomToRequeue DEF RequeueReturn
    <3>2. wrk_fifo[wrk_fifo_tail] = w
      BY <2>8, <3>1 DEF RequeueReturn, RingOK
    <3> QED BY <2>8, <3>1, <3>2, EnqueueReturnIn DEF RequeueReturn
  <2> QED BY <1>5, <2>1, <2>2, <2>3, <2>4, <2>5, <2>6, <2>7, <2>8 DEF WorkerStep
<1>6. CASE UNCHANGED vars
  BY <1>6, SameIn DEF vars
<1> QED
  BY <1>1, <1>2, <1>3, <1>4, <1>5, <1>6 DEF Next, ClientStep, Quiet

LEMMA InIdleStep == MainType /\ TaskType /\ FifoType /\ SlotType /\ ThreadType /\ CallOK /\ ThreadOK /\ CreatingOK /\ TailOK /\ RingOK /\ Distinct /\ ReturnOK /\ ReservedOK /\ SlotOK /\ DutyOK /\ InIdle /\ [Next]_vars => InIdle'
<1> SUFFICES ASSUME MainType, TaskType, FifoType, SlotType, ThreadType, CallOK, ThreadOK, CreatingOK, TailOK, RingOK, Distinct, ReturnOK, ReservedOK, SlotOK, DutyOK, InIdle, [Next]_vars PROVE InIdle'
  OBVIOUS
<1> USE DEF InIdle, Idle, Parked, mainVars, taskVars, fifoVars, slotVars, threadVars
<1>1. CASE CreateWorkers
  <2>1. CASE Clone
    <3>1. \A v \in Worker : ~In(v)
      BY <2>1, PoolAssumption DEF Clone, RingOK, Creating, In, InRing, Worker
    <3> QED BY <2>1, <3>1, SameIn DEF Clone
  <2>2. CASE NextClone /\ PauseIsEnough
    BY <2>2, SameIn DEF NextClone, PauseIsEnough
  <2>3. CASE ResetFifo
    <3>1. UNCHANGED <<wrk_fifo, wrk_fifo_head, wrk_fifo_size>>
      BY <2>3 DEF ResetFifo, RingOK, Creating
    <3> QED BY <2>3, <3>1, SameIn DEF ResetFifo
  <2>4. CASE Fill
    BY <2>4, EnqueueIn, PoolAssumption DEF Fill, Worker, MainType
  <2>5. CASE FillReturn
    <3>1. j \in Worker /\ j < MAX_WORKER /\ wrk_fifo[wrk_fifo_tail] = j
      BY <2>5, PoolAssumption DEF FillReturn, CallOK, RingOK, Worker
    <3>2. wrk_fifo_size < MAX_WORKER
      BY <2>5, <3>1, FillIn DEF FillReturn
    <3>3. \A v \in Worker : In(v)' <=> In(v) \/ v = j
      BY <2>5, <3>1, <3>2, EnqueueReturnIn DEF FillReturn
    <3>4. Idle(j)
      BY <2>5, <3>1 DEF FillReturn, CreatingOK, Creating, Untouched, ThreadOK
    <3> QED BY <2>5, <3>3, <3>4 DEF FillReturn
  <2>6. CASE Created
    BY <2>6, SameIn DEF Created
  <2> QED BY <1>1, <2>1, <2>2, <2>3, <2>4, <2>5, <2>6 DEF CreateWorkers
<1>2. CASE InitTask
  BY <1>2, SameIn DEF InitTask
<1>3. ASSUME NEW t \in Task, Calls(t) PROVE InIdle'
  <2>1. CASE GetNoWorker(t)
    BY <2>1, SameIn DEF GetNoWorker
  <2>2. CASE Dequeue(t)
    BY <2>2, SameIn DEF Dequeue
  <2>3. CASE AssignFails(t)
    BY <2>3, SameIn DEF AssignFails, Assignable
  <2>4. CASE AssignBusy(t)
    <3>1. ~In(wid[t])
      BY <2>4, AssignableWorker DEF AssignBusy, ReservedOK, Reserved
    <3> QED BY <2>4, <3>1, SameIn DEF AssignBusy, SlotType
  <2>5. CASE DispatchFaults(t)
    BY <2>5, SameIn DEF DispatchFaults
  <2>6. CASE DispatchCheck(t)
    BY <2>6, SameIn DEF DispatchCheck
  <2> QED BY <1>3, <2>1, <2>2, <2>3, <2>4, <2>5, <2>6 DEF Calls
<1>4. CASE Returns
  <2>1. CASE DequeueReturn
    BY <2>1, DequeueReturnIn DEF CallOK, DequeueReturn
  <2>2. CASE AssignFunc
    <3>1. ~In(wid[cur])
      BY <2>2 DEF AssignFunc, CallOK, InCall, ReservedOK, Reserved
    <3> QED BY <2>2, <3>1, SameIn DEF AssignFunc, SlotType
  <2>3. CASE AssignArg
    <3>1. ~In(wid[cur])
      BY <2>3 DEF AssignArg, CallOK, InCall, ReservedOK, Reserved
    <3> QED BY <2>3, <3>1, SameIn DEF AssignArg, SlotType
  <2>4. CASE Tkill
    <3>1. ~In(wid[cur])
      BY <2>4 DEF Tkill, CallOK, InCall, ReservedOK, Reserved
    <3> QED BY <2>4, <3>1, SameIn DEF Tkill, ThreadType
  <2> QED BY <1>4, <2>1, <2>2, <2>3, <2>4 DEF Returns
<1>5. ASSUME NEW w \in Worker, WorkerStep(w) PROVE InIdle'
  <2>1. CASE ReadId(w)
    BY <2>1, SameIn DEF ReadId, ThreadType
  <2>2. CASE Wake(w)
    BY <2>2, SameIn DEF Wake, ThreadType
  <2>3. CASE Call(w)
    BY <2>3, SameIn DEF Call, ThreadType
  <2>4. CASE CallReturns(w)
    BY <2>4, SameIn DEF CallReturns, ThreadType
  <2>5. CASE ClearBusy(w)
    BY <2>5, SameIn DEF ClearBusy, ThreadType, SlotType, ThreadOK
  <2>6. CASE ClearSlot(w)
    BY <2>6, SameIn DEF ClearSlot, ThreadType, SlotType, ThreadOK
  <2>7. CASE Requeue(w)
    BY <2>7, EnqueueIn DEF Requeue, ThreadOK, ThreadType
  <2>8. CASE RequeueReturn(w)
    <3>1. wrk_fifo_size < MAX_WORKER
      BY <2>8, RoomToRequeue DEF RequeueReturn
    <3>2. wrk_fifo[wrk_fifo_tail] = w
      BY <2>8, <3>1 DEF RequeueReturn, RingOK
    <3>3. \A v \in Worker : In(v)' <=> In(v) \/ v = w
      BY <2>8, <3>1, <3>2, EnqueueReturnIn DEF RequeueReturn
    <3>4. wrkid_busy[w] = 0 /\ worker[w].func = NULL /\ pending[w] = {}
      BY <2>8 DEF RequeueReturn, ReturnOK, DutyOK
    <3> QED BY <2>8, <3>3, <3>4 DEF RequeueReturn, ThreadType
  <2> QED BY <1>5, <2>1, <2>2, <2>3, <2>4, <2>5, <2>6, <2>7, <2>8 DEF WorkerStep
<1>6. CASE UNCHANGED vars
  BY <1>6, SameIn DEF vars
<1> QED
  BY <1>1, <1>2, <1>3, <1>4, <1>5, <1>6 DEF Next, ClientStep, Quiet

LEMMA ReservedOKStep == TaskType /\ FifoType /\ ThreadType /\ CallOK /\ ThreadOK /\ CreatingOK /\ TailOK /\ RingOK /\ Distinct /\ InIdle /\ ReservedOK /\ [Next]_vars => ReservedOK'
<1> SUFFICES ASSUME TaskType, FifoType, ThreadType, CallOK, ThreadOK, CreatingOK, TailOK, RingOK, Distinct, InIdle, ReservedOK, [Next]_vars PROVE ReservedOK'
  OBVIOUS
<1> USE DEF ReservedOK, Reserved, Parked, TaskType, mainVars, taskVars, fifoVars, slotVars, threadVars
<1>1. CASE CreateWorkers
  <2>1. CASE Clone
    BY <2>1 DEF Clone, CreatingOK, Creating
  <2>2. CASE NextClone /\ PauseIsEnough
    BY <2>2, SameIn DEF NextClone, PauseIsEnough
  <2>3. CASE ResetFifo
    BY <2>3 DEF ResetFifo, CreatingOK, Creating
  <2>4. CASE Fill
    BY <2>4 DEF Fill, CreatingOK, Creating
  <2>5. CASE FillReturn
    BY <2>5 DEF FillReturn, CreatingOK, Creating
  <2>6. CASE Created
    BY <2>6, SameIn DEF Created
  <2> QED BY <1>1, <2>1, <2>2, <2>3, <2>4, <2>5, <2>6 DEF CreateWorkers
<1>2. CASE InitTask
  BY <1>2, SameIn DEF InitTask
<1>3. ASSUME NEW t \in Task, Calls(t) PROVE ReservedOK'
  <2>1. CASE GetNoWorker(t)
    BY <2>1, SameIn, PoolAssumption DEF GetNoWorker, NULL, Worker
  <2>2. CASE Dequeue(t)
    BY <2>2, SameIn DEF Dequeue
  <2>3. CASE AssignFails(t)
    BY <2>3, SameIn DEF AssignFails, Assignable
  <2>4. CASE AssignBusy(t)
    BY <2>4, SameIn DEF AssignBusy, Assignable
  <2>5. CASE DispatchFaults(t)
    BY <2>5, SameIn DEF DispatchFaults
  <2>6. CASE DispatchCheck(t)
    BY <2>6, SameIn DEF DispatchCheck
  <2> QED BY <1>3, <2>1, <2>2, <2>3, <2>4, <2>5, <2>6 DEF Calls
<1>4. CASE Returns
  <2>1. CASE DequeueReturn
    <3>1. cur \in Task /\ wid[cur] = wrk_fifo[wrk_fifo_head] /\ wid[cur] \in Worker
      BY <2>1 DEF DequeueReturn, CallOK, InCall, RingOK
    <3>2. In(wid[cur]) /\ \A v \in Worker : In(v)' <=> In(v) /\ v # wid[cur]
      BY <2>1, <3>1, DequeueReturnIn DEF DequeueReturn, CallOK
    <3>3. Parked(wid[cur])
      BY <3>1, <3>2 DEF InIdle, Idle
    <3>4. \A u \in Task : Reserved(u)' => Reserved(u) \/ u = cur
      BY <2>1 DEF DequeueReturn
    <3> QED BY <2>1, <3>1, <3>2, <3>3, <3>4 DEF DequeueReturn
  <2>2. CASE AssignFunc
    BY <2>2, SameIn DEF AssignFunc
  <2>3. CASE AssignArg
    <3>1. \A u \in Task : Reserved(u)' <=> Reserved(u)
      BY <2>3 DEF AssignArg, CallOK, InCall
    <3>2. UNCHANGED <<wid, wpc, pending, wrk_fifo, wrk_fifo_head, wrk_fifo_size>>
      BY <2>3 DEF AssignArg
    <3> QED BY <3>1, <3>2, SameIn
  <2>4. CASE Tkill
    BY <2>4, SameIn DEF Tkill, ThreadType, CallOK, InCall
  <2> QED BY <1>4, <2>1, <2>2, <2>3, <2>4 DEF Returns
<1>5. ASSUME NEW w \in Worker, WorkerStep(w) PROVE ReservedOK'
  <2>1. CASE ReadId(w)
    BY <2>1, SameIn DEF ReadId
  <2>2. CASE Wake(w)
    BY <2>2, SameIn DEF Wake, ThreadType
  <2>3. CASE Call(w)
    BY <2>3, SameIn DEF Call
  <2>4. CASE CallReturns(w)
    BY <2>4, SameIn DEF CallReturns
  <2>5. CASE ClearBusy(w)
    BY <2>5, SameIn DEF ClearBusy
  <2>6. CASE ClearSlot(w)
    BY <2>6, SameIn DEF ClearSlot, EmptySlot
  <2>7. CASE Requeue(w)
    BY <2>7, EnqueueIn DEF Requeue, ThreadOK, ThreadType
  <2>8. CASE RequeueReturn(w)
    <3>1. wrk_fifo_size < MAX_WORKER
      BY <2>8, RoomToRequeue DEF RequeueReturn
    <3>2. wrk_fifo[wrk_fifo_tail] = w
      BY <2>8, <3>1 DEF RequeueReturn, RingOK
    <3>3. \A v \in Worker : In(v)' <=> In(v) \/ v = w
      BY <2>8, <3>1, <3>2, EnqueueReturnIn DEF RequeueReturn
    <3> QED BY <2>8, <3>3 DEF RequeueReturn, ThreadType
  <2> QED BY <1>5, <2>1, <2>2, <2>3, <2>4, <2>5, <2>6, <2>7, <2>8 DEF WorkerStep
<1>6. CASE UNCHANGED vars
  BY <1>6, SameIn DEF vars
<1> QED
  BY <1>1, <1>2, <1>3, <1>4, <1>5, <1>6 DEF Next, ClientStep, Quiet

LEMMA SlotOKStep == TaskType /\ SlotType /\ ThreadType /\ CallOK /\ ThreadOK /\ CreatingOK /\ RingOK /\ Distinct /\ InIdle /\ ReservedOK /\ FifoType /\ SlotOK /\ [Next]_vars => SlotOK'
<1> SUFFICES ASSUME TaskType, SlotType, ThreadType, CallOK, ThreadOK, CreatingOK, RingOK, Distinct, InIdle, ReservedOK, FifoType, SlotOK, [Next]_vars PROVE SlotOK'
  OBVIOUS
<1> USE DEF SlotOK, Reserved, Assigning, FullSlot, mainVars, taskVars, fifoVars, slotVars, threadVars
<1>1. CASE CreateWorkers
  BY <1>1, NextCell DEF CreateWorkers, Clone, NextClone, PauseIsEnough, ResetFifo, Fill, Enqueue, FillReturn, EnqueueReturn, Created
<1>2. CASE InitTask
  BY <1>2 DEF InitTask
<1>3. ASSUME NEW t \in Task, Calls(t) PROVE SlotOK'
  <2>1. CASE GetNoWorker(t)
    BY <2>1, PoolAssumption DEF GetNoWorker, NULL, Worker, TaskType
  <2>2. CASE Dequeue(t)
    BY <2>2 DEF Dequeue
  <2>3. CASE AssignFails(t)
    BY <2>3 DEF AssignFails, Assignable
  <2>4. CASE AssignBusy(t)
    <3>1. wid[t] \in Worker /\ \A u \in Task \ {t} : Reserved(u) => wid[u] # wid[t]
      BY <2>4, AssignableWorker DEF AssignBusy, ReservedOK
    <3> QED BY <2>4, <3>1 DEF AssignBusy, SlotType
  <2>5. CASE DispatchFaults(t)
    BY <2>5 DEF DispatchFaults
  <2>6. CASE DispatchCheck(t)
    <3>1. CASE worker[wid[t]].func = NULL
      BY <2>6, <3>1 DEF DispatchCheck, TaskType
    <3>2. CASE worker[wid[t]].func # NULL
      BY <2>6, <3>2 DEF DispatchCheck
    <3> QED BY <3>1, <3>2
  <2> QED BY <1>3, <2>1, <2>2, <2>3, <2>4, <2>5, <2>6 DEF Calls
<1>4. CASE Returns
  <2>1. CASE DequeueReturn
    <3>1. cur \in Task /\ wid[cur] = wrk_fifo[wrk_fifo_head] /\ wid[cur] \in Worker
      BY <2>1 DEF DequeueReturn, CallOK, InCall, RingOK
    <3>2. In(wid[cur])
      BY <2>1, <3>1, DequeueReturnIn DEF DequeueReturn, CallOK
    <3>3. wrkid_busy[wid[cur]] = 0 /\ worker[wid[cur]].func = NULL
      BY <3>1, <3>2 DEF InIdle, Idle
    <3> QED BY <2>1, <3>3 DEF DequeueReturn, TaskType
  <2>2. CASE AssignFunc
    <3>1. /\ cur \in Task /\ wid[cur] \in Worker /\ tstate[cur] = "got"
          /\ \A u \in Task \ {cur} : Reserved(u) => wid[u] # wid[cur]
      BY <2>2 DEF AssignFunc, CallOK, InCall, ReservedOK
    <3> QED BY <2>2, <3>1 DEF AssignFunc, SlotType
  <2>3. CASE AssignArg
    <3>1. /\ cur \in Task /\ wid[cur] \in Worker /\ tstate[cur] = "got"
          /\ \A u \in Task \ {cur} : Reserved(u) => wid[u] # wid[cur]
      BY <2>3 DEF AssignArg, CallOK, InCall, ReservedOK
    <3> QED BY ZenonT(60), <2>3, <3>1 DEF AssignArg, SlotType, TaskType
  <2>4. CASE Tkill
    BY <2>4 DEF Tkill, TaskType
  <2> QED BY <1>4, <2>1, <2>2, <2>3, <2>4 DEF Returns
<1>5. ASSUME NEW w \in Worker, WorkerStep(w) PROVE SlotOK'
  <2>1. CASE ReadId(w)
    BY <2>1 DEF ReadId
  <2>2. CASE Wake(w)
    BY <2>2 DEF Wake
  <2>3. CASE Call(w)
    BY <2>3 DEF Call
  <2>4. CASE CallReturns(w)
    BY <2>4 DEF CallReturns
  <2>5. CASE ClearBusy(w)
    <3>1. idx[w] = w /\ \A u \in Task : Reserved(u) => wid[u] # w
      BY <2>5 DEF ClearBusy, ThreadOK, ReservedOK, Parked
    <3> QED BY <2>5, <3>1 DEF ClearBusy, SlotType
  <2>6. CASE ClearSlot(w)
    <3>1. idx[w] = w /\ \A u \in Task : Reserved(u) => wid[u] # w
      BY <2>6 DEF ClearSlot, ThreadOK, ReservedOK, Parked
    <3>2. mpc = "assign arg" => Reserved(cur) /\ cur \in Task
      BY DEF CallOK, InCall
    <3> QED BY <2>6, <3>1, <3>2 DEF ClearSlot, SlotType
  <2>7. CASE Requeue(w)
    BY <2>7 DEF Requeue, Enqueue
  <2>8. CASE RequeueReturn(w)
    BY <2>8, NextCell DEF RequeueReturn, EnqueueReturn
  <2> QED BY <1>5, <2>1, <2>2, <2>3, <2>4, <2>5, <2>6, <2>7, <2>8 DEF WorkerStep
<1>6. CASE UNCHANGED vars
  BY <1>6 DEF vars
<1> QED
  BY <1>1, <1>2, <1>3, <1>4, <1>5, <1>6 DEF Next, ClientStep, Quiet

LEMMA DutyOKStep == TaskType /\ SlotType /\ ThreadType /\ CallOK /\ ThreadOK /\ CreatingOK /\ ReservedOK /\ SlotOK /\ DutyOK /\ [Next]_vars => DutyOK'
<1> SUFFICES ASSUME TaskType, SlotType, ThreadType, CallOK, ThreadOK, CreatingOK, ReservedOK, SlotOK, DutyOK, [Next]_vars PROVE DutyOK'
  OBVIOUS
<1> USE DEF DutyOK, HasTask, mainVars, taskVars, fifoVars, slotVars, threadVars
<1>1. CASE CreateWorkers
  <2>1. CASE Clone
    BY <2>1 DEF Clone, CreatingOK, Creating, Untouched, ThreadType
  <2>2. CASE NextClone /\ PauseIsEnough
    BY <2>2 DEF NextClone, PauseIsEnough
  <2>3. CASE ResetFifo
    BY <2>3 DEF ResetFifo
  <2>4. CASE Fill
    BY <2>4 DEF Fill, Enqueue
  <2>5. CASE FillReturn
    BY <2>5, NextCell DEF FillReturn, EnqueueReturn
  <2>6. CASE Created
    BY <2>6 DEF Created
  <2> QED BY <1>1, <2>1, <2>2, <2>3, <2>4, <2>5, <2>6 DEF CreateWorkers
<1>2. CASE InitTask
  <2>1. taskid_seed \in Task /\ tstate[taskid_seed] = "none"
    BY <1>2, PoolAssumption DEF InitTask, TaskType, CallOK, Found, Task
  <2>2. \A u \in Task : tstate'[u] = "dispatched" <=> tstate[u] = "dispatched"
    BY <1>2, <2>1 DEF InitTask, TaskType
  <2>3. UNCHANGED <<worker, wid, runs, pending, wpc>>
    BY <1>2 DEF InitTask
  <2> QED BY <2>2, <2>3
<1>3. ASSUME NEW t \in Task, Calls(t) PROVE DutyOK'
  <2>1. CASE GetNoWorker(t)
    BY <2>1 DEF GetNoWorker
  <2>2. CASE Dequeue(t)
    BY <2>2 DEF Dequeue
  <2>3. CASE AssignFails(t)
    BY <2>3 DEF AssignFails, Assignable
  <2>4. CASE AssignBusy(t)
    <3>1. UNCHANGED <<worker, wid, runs, tstate, pending, wpc>>
      BY <2>4 DEF AssignBusy
    <3> QED BY <3>1, DutyFrame
  <2>5. CASE DispatchFaults(t)
    BY <2>5 DEF DispatchFaults
  <2>6. CASE DispatchCheck(t)
    <3>1. CASE worker[wid[t]].func = NULL
      BY <2>6, <3>1 DEF DispatchCheck, TaskType
    <3>2. CASE worker[wid[t]].func # NULL
      BY <2>6, <3>2 DEF DispatchCheck
    <3> QED BY <3>1, <3>2
  <2> QED BY <1>3, <2>1, <2>2, <2>3, <2>4, <2>5, <2>6 DEF Calls
<1>4. CASE Returns
  <2>1. CASE DequeueReturn
    <3>1. \A u \in Task : tstate'[u] = "dispatched" <=> tstate[u] = "dispatched"
      BY <2>1 DEF DequeueReturn, TaskType, CallOK, InCall
    <3>2. UNCHANGED <<worker, wid, runs, pending, wpc>>
      BY <2>1 DEF DequeueReturn
    <3> QED BY <3>1, <3>2
  <2>2. CASE AssignFunc
    <3>1. Parked(wid[cur]) /\ wid[cur] \in Worker
      BY <2>2 DEF AssignFunc, CallOK, InCall, ReservedOK, Reserved
    <3>2. \A v \in Worker : pending[v] # {} \/ wpc[v] = "awake" => v # wid[cur]
      BY <3>1 DEF Parked
    <3>3. \A v \in Worker : v # wid[cur] => worker'[v] = worker[v]
      BY <2>2, <3>1 DEF AssignFunc, SlotType
    <3>4. UNCHANGED <<tstate, wid, runs, pending, wpc>>
      BY <2>2 DEF AssignFunc
    <3> QED BY <3>2, <3>3, <3>4
  <2>3. CASE AssignArg
    <3>1. /\ Parked(wid[cur]) /\ wid[cur] \in Worker
          /\ cur \in Task /\ tstate[cur] = "got"
      BY <2>3 DEF AssignArg, CallOK, InCall, ReservedOK, Reserved
    <3>2. \A v \in Worker : pending[v] # {} \/ wpc[v] = "awake" => v # wid[cur]
      BY <3>1 DEF Parked
    <3>3. \A v \in Worker : v # wid[cur] => worker'[v] = worker[v]
      BY <2>3, <3>1 DEF AssignArg, SlotType
    <3>4. \A u \in Task : /\ tstate[u] = "dispatched" <=> tstate'[u] = "dispatched"
                         /\ runs'[u] = runs[u] /\ wid'[u] = wid[u]
      BY <2>3, <3>1 DEF AssignArg, TaskType
    <3>5. UNCHANGED <<pending, wpc>>
      BY <2>3 DEF AssignArg
    <3> QED BY <3>2, <3>3, <3>4, <3>5
  <2>4. CASE Tkill
    <3>1. /\ Parked(wid[cur]) /\ wid[cur] \in Worker
          /\ cur \in Task /\ tstate[cur] = "assigned"
      BY <2>4 DEF Tkill, CallOK, InCall, ReservedOK, Reserved
    <3>2. PICK t \in Task : t = cur
      BY <3>1
    <3>3. PICK w \in Worker : w = wid[t]
      BY <3>1, <3>2
    <3>4. HasTask(w, t)'
      BY <2>4, <3>1, <3>2, <3>3 DEF Tkill, SlotOK, TaskType
    <3>5. \A v \in Worker, u \in Task : HasTask(v, u) => HasTask(v, u)'
      BY <2>4, <3>1 DEF Tkill, TaskType
    <3>6. \A v \in Worker : v # w => pending'[v] = pending[v]
      BY <2>4, <3>2, <3>3 DEF Tkill, ThreadType
    <3>7. wpc' = wpc /\ wpc[w] = "sigwait"
      BY <2>4, <3>1, <3>2, <3>3 DEF Tkill, Parked
    <3>8. \A u \in Task : tstate'[u] # "dispatched" => runs'[u] = 0
      BY <2>4, <3>1 DEF Tkill, TaskType
    <3> HIDE DEF HasTask
    <3> QED BY <3>4, <3>5, <3>6, <3>7, <3>8
  <2> QED BY <1>4, <2>1, <2>2, <2>3, <2>4 DEF Returns
<1>5. ASSUME NEW w \in Worker, WorkerStep(w) PROVE DutyOK'
  <2>1. CASE ReadId(w)
    BY <2>1 DEF ReadId
  <2>2. CASE Wake(w)
    BY <2>2 DEF Wake, ThreadType
  <2>3. CASE Call(w)
    <3>1. PICK t \in Task : HasTask(w, t)
      BY <2>3 DEF Call
    <3>2. idx[w] = w /\ pending[w] = {}
      BY <2>3 DEF Call, ThreadOK
    <3>3. \A u \in Task : u # t => runs'[u] = runs[u]
      BY <2>3, <3>1, <3>2 DEF Call, FullSlot, ThreadType
    <3>4. wpc'[w] # "awake" /\ \A v \in Worker : v # w => wpc'[v] = wpc[v]
      BY <2>3 DEF Call, ThreadType
    <3>5. \A v \in Worker, u \in Task : v # w /\ HasTask(v, u) => HasTask(v, u)'
      BY <2>3, <3>1, <3>3 DEF Call
    <3>6. \A u \in Task : tstate[u] # "dispatched" => runs'[u] = 0
      BY <3>1, <3>3
    <3>7. UNCHANGED <<tstate, pending>>
      BY <2>3 DEF Call
    <3> HIDE DEF HasTask
    <3> QED BY <3>2, <3>4, <3>5, <3>6, <3>7
  <2>4. CASE CallReturns(w)
    BY <2>4 DEF CallReturns
  <2>5. CASE ClearBusy(w)
    BY <2>5 DEF ClearBusy
  <2>6. CASE ClearSlot(w)
    <3>1. idx[w] = w /\ pending[w] = {} /\ wpc[w] # "awake"
      BY <2>6 DEF ClearSlot, ThreadOK
    <3> QED BY <2>6, <3>1 DEF ClearSlot, SlotType, ThreadType
  <2>7. CASE Requeue(w)
    BY <2>7 DEF Requeue, Enqueue
  <2>8. CASE RequeueReturn(w)
    BY <2>8, NextCell DEF RequeueReturn, EnqueueReturn
  <2> QED BY <1>5, <2>1, <2>2, <2>3, <2>4, <2>5, <2>6, <2>7, <2>8 DEF WorkerStep
<1>6. CASE UNCHANGED vars
  BY <1>6 DEF vars
<1> QED
  BY <1>1, <1>2, <1>3, <1>4, <1>5, <1>6 DEF Next, ClientStep, Quiet

LEMMA PlaceOKStep == MainType /\ TaskType /\ FifoType /\ ThreadType /\ CallOK /\ ThreadOK /\ CreatingOK /\ TailOK /\ RingOK /\ Distinct /\ InIdle /\ ReservedOK /\ SlotOK /\ DutyOK /\ PlaceOK /\ [Next]_vars => PlaceOK'
<1> SUFFICES ASSUME MainType, TaskType, FifoType, ThreadType, CallOK, ThreadOK, CreatingOK, TailOK, RingOK, Distinct, InIdle, ReservedOK, SlotOK, DutyOK, PlaceOK, [Next]_vars PROVE PlaceOK'
  OBVIOUS
<1> USE DEF PlaceOK, Creating, Reserved, Parked, mainVars, taskVars, fifoVars, slotVars, threadVars
<1>1. CASE CreateWorkers
  <2>1. CASE Clone
    BY <2>1, SameIn DEF Clone
  <2>2. CASE NextClone /\ PauseIsEnough
    BY <2>2, SameIn DEF NextClone, PauseIsEnough
  <2>3. CASE ResetFifo
    BY <2>3, SameIn DEF ResetFifo
  <2>4. CASE Fill
    BY <2>4, SameIn DEF Fill, Enqueue
  <2>5. CASE FillReturn
    BY <2>5, NextCell, SameIn DEF FillReturn, EnqueueReturn
  <2>6. CASE Created
    BY <2>6, FillIn, SameIn, PoolAssumption DEF Created, Worker
  <2> QED BY <1>1, <2>1, <2>2, <2>3, <2>4, <2>5, <2>6 DEF CreateWorkers
<1>2. CASE InitTask
  <2>1. \A u \in Task : Reserved(u) => Reserved(u)'
    BY <1>2 DEF InitTask, TaskType, CallOK, Found
  <2> QED BY <1>2, <2>1, SameIn DEF InitTask, Parked
<1>3. ASSUME NEW t \in Task, Calls(t) PROVE PlaceOK'
  <2>1. CASE GetNoWorker(t)
    BY <2>1, SameIn DEF GetNoWorker
  <2>2. CASE Dequeue(t)
    BY <2>2, SameIn DEF Dequeue
  <2>3. CASE AssignFails(t)
    <3>1. wid[t] \notin Worker
      BY <2>3, PoolAssumption DEF AssignFails, Assignable, CallOK, Worker
    <3>2. \A u \in Task : Reserved(u) => Reserved(u)'
      BY <2>3, <3>1 DEF AssignFails, TaskType
    <3> QED BY <2>3, <3>2, SameIn DEF AssignFails, Parked
  <2>4. CASE AssignBusy(t)
    BY <2>4, SameIn DEF AssignBusy, Assignable
  <2>5. CASE DispatchFaults(t)
    BY <2>5, SameIn DEF DispatchFaults
  <2>6. CASE DispatchCheck(t)
    <3>1. tstate[t] = "assigned"
      BY <2>6 DEF DispatchCheck, CallOK, NULL, Worker
    <3>2. worker[wid[t]] = FullSlot(t)
      BY <3>1 DEF SlotOK
    <3>3. worker[wid[t]].func = t
      BY <3>2 DEF FullSlot
    <3>4. t # NULL
      BY DEF Task, NULL
    <3> QED BY <2>6, <3>3, <3>4, SameIn DEF DispatchCheck
  <2> QED BY <1>3, <2>1, <2>2, <2>3, <2>4, <2>5, <2>6 DEF Calls
<1>4. CASE Returns
  <2>1. CASE DequeueReturn
    <3>1. PICK t \in Task : t = cur
      BY <2>1 DEF DequeueReturn, CallOK, InCall
    <3>2. wid[t] = wrk_fifo[wrk_fifo_head] /\ wid[t] \in Worker
      BY <2>1, <3>1 DEF DequeueReturn, CallOK, InCall, RingOK
    <3>3. \A v \in Worker : In(v)' <=> In(v) /\ v # wid[t]
      BY <2>1, <3>2, DequeueReturnIn DEF DequeueReturn, CallOK
    <3>4. Reserved(t)' /\ wid' = wid
      BY <2>1, <3>1, <3>2 DEF DequeueReturn, TaskType
    <3>5. \A u \in Task : Reserved(u) => Reserved(u)'
      BY <2>1, <3>1, <3>4 DEF DequeueReturn, TaskType
    <3>6. \A v \in Worker : Parked(v)' <=> Parked(v)
      BY <2>1 DEF DequeueReturn
    <3>7. ~Creating
      BY <2>1 DEF DequeueReturn
    <3> HIDE DEF Reserved, Parked
    <3> QED BY <3>2, <3>3, <3>4, <3>5, <3>6, <3>7
  <2>2. CASE AssignFunc
    BY <2>2, SameIn DEF AssignFunc
  <2>3. CASE AssignArg
    <3>1. \A u \in Task : Reserved(u) => Reserved(u)'
      BY <2>3 DEF AssignArg, TaskType, CallOK, InCall
    <3> QED BY <2>3, <3>1, SameIn DEF AssignArg, Parked
  <2>4. CASE Tkill
    <3>1. PICK t \in Task : t = cur
      BY <2>4 DEF Tkill, CallOK, InCall
    <3>2. \A u \in Task : u # t /\ Reserved(u) => Reserved(u)'
      BY <2>4, <3>1 DEF Tkill, TaskType
    <3>3. PICK w \in Worker : w = wid[t]
      BY <2>4, <3>1 DEF Tkill, CallOK, InCall
    <3>4. ~Parked(w)'
      BY <2>4, <3>1, <3>3 DEF Tkill, ThreadType
    <3>5. \A v \in Worker : ~Parked(v) => ~Parked(v)'
      BY <2>4 DEF Tkill, ThreadType
    <3>6. UNCHANGED wid /\ ~Creating
      BY <2>4 DEF Tkill
    <3>7. \A v \in Worker : In(v)' <=> In(v)
      BY <2>4, SameIn DEF Tkill
    <3> HIDE DEF Reserved, Parked
    <3> QED BY <3>2, <3>3, <3>4, <3>5, <3>6, <3>7
  <2> QED BY <1>4, <2>1, <2>2, <2>3, <2>4 DEF Returns
<1>5. ASSUME NEW w \in Worker, WorkerStep(w) PROVE PlaceOK'
  <2>1. CASE ReadId(w)
    BY <2>1, SameIn DEF ReadId, ThreadOK
  <2>2. CASE Wake(w)
    BY <2>2, SameIn DEF Wake, Parked, ThreadType
  <2>3. CASE Call(w)
    BY <2>3, SameIn DEF Call, Parked, ThreadType
  <2>4. CASE CallReturns(w)
    BY <2>4, SameIn DEF CallReturns, Parked, ThreadType
  <2>5. CASE ClearBusy(w)
    BY <2>5, SameIn DEF ClearBusy, Parked, ThreadType
  <2>6. CASE ClearSlot(w)
    BY <2>6, SameIn DEF ClearSlot, Parked, ThreadType
  <2>7. CASE Requeue(w)
    BY <2>7, EnqueueIn DEF Requeue, Parked, ThreadType, ThreadOK
  <2>8. CASE RequeueReturn(w)
    <3>1. wrk_fifo_size < MAX_WORKER
      BY <2>8, RoomToRequeue DEF RequeueReturn
    <3>2. wrk_fifo[wrk_fifo_tail] = w
      BY <2>8, <3>1 DEF RequeueReturn, RingOK
    <3>3. \A v \in Worker : In(v)' <=> In(v) \/ v = w
      BY <2>8, <3>1, <3>2, EnqueueReturnIn DEF RequeueReturn
    <3> QED BY <2>8, <3>3 DEF RequeueReturn, Parked, ThreadType
  <2> QED BY <1>5, <2>1, <2>2, <2>3, <2>4, <2>5, <2>6, <2>7, <2>8 DEF WorkerStep
<1>6. CASE UNCHANGED vars
  BY <1>6, SameIn DEF vars
<1> QED
  BY <1>1, <1>2, <1>3, <1>4, <1>5, <1>6 DEF Next, ClientStep, Quiet

-----------------------------------------------------------------------------
(* The inductive invariant and what follows from it *)

LEMMA IndInvInit == Init => IndInv
<1> SUFFICES ASSUME Init PROVE IndInv
  OBVIOUS
<1>1. Inv1
  BY Init1
<1>2. \A c \in Worker : ~InRing(c)
  BY PoolAssumption DEF Init, InRing, Worker
<1>3. TailOK /\ RingOK
  BY PoolAssumption DEF Init, TailOK, RingOK, Creating, Worker
<1>4. Distinct /\ InIdle
  BY <1>2 DEF Distinct, InIdle, In
<1>5. ReturnOK /\ ReservedOK /\ SlotOK /\ DutyOK /\ PlaceOK
  BY DEF Init, ReturnOK, ReservedOK, Reserved, SlotOK, DutyOK, PlaceOK, Creating
<1> QED BY <1>1, <1>3, <1>4, <1>5 DEF IndInv, Inv2

LEMMA IndInvStep == IndInv /\ [Next]_vars => IndInv'
<1> SUFFICES ASSUME IndInv, [Next]_vars PROVE IndInv'
  OBVIOUS
<1> USE DEF IndInv, Inv1, Inv2, TypeOK
<1>1. MainType' /\ TaskType' /\ FifoType' /\ SlotType' /\ ThreadType'
  BY MainTypeStep, TaskTypeStep, FifoTypeStep, SlotTypeStep, ThreadTypeStep
<1>2. CallOK' /\ MutexOK' /\ ThreadOK' /\ CreatingOK'
  BY <1>1, CallOKStep, MutexOKStep, ThreadOKStep, CreatingOKStep
<1>3. TailOK' /\ RingOK' /\ ReturnOK'
  BY <1>1, TailOKStep, RingOKStep, ReturnOKStep
<1>4. Distinct' /\ InIdle' /\ ReservedOK' /\ SlotOK' /\ DutyOK' /\ PlaceOK'
  BY DistinctStep, InIdleStep, ReservedOKStep, SlotOKStep, DutyOKStep, PlaceOKStep
<1> QED BY <1>1, <1>2, <1>3, <1>4

(* The inductive invariant holds in every reachable state. *)
THEOREM IndInvHolds == Spec => []IndInv
BY IndInvInit, IndInvStep, PTL DEF Spec

(* Type correctness. *)
THEOREM TypeCorrect == Spec => []TypeOK
<1>1. IndInv => TypeOK
  BY DEF IndInv, Inv1
<1> QED BY <1>1, IndInvHolds, PTL

(* The ring never holds a worker twice, nor one that is not idle.           *)
THEOREM RingHoldsIdleWorkers == Spec => []FifoHoldsIdle
<1>1. IndInv => FifoHoldsIdle
  <2> SUFFICES ASSUME IndInv PROVE FifoHoldsIdle
    OBVIOUS
  <2>1. \A w \in Avail : w \in Worker /\ In(w)
    BY DEF IndInv, Inv1, TypeOK, FifoType, Avail, In
  <2>2. Distinct /\ InIdle
    BY DEF IndInv, Inv2
  <2> QED BY <2>1, <2>2 DEF FifoHoldsIdle, Distinct, InIdle
<1> QED BY <1>1, IndInvHolds, PTL

(* What bkwrk_get_worker returns is idle and promised to one task only.     *)
THEOREM SchedulerReturnsIdleWorker == Spec => []SelectedWorkerIdle
<1>1. IndInv => SelectedWorkerIdle
  BY DEF IndInv, Inv2, SelectedWorkerIdle, ReservedOK, SlotOK, Assigning, Idle, Reserved
<1> QED BY <1>1, IndInvHolds, PTL

(* No worker meets a full ring: enqueue_worker's silent branch is dead.     *)
THEOREM RequeueNeverDropped == Spec => []NoDroppedRequeue
<1>1. IndInv => NoDroppedRequeue
  BY RoomToRequeue DEF IndInv, Inv1, Inv2, TypeOK, NoDroppedRequeue
<1> QED BY <1>1, IndInvHolds, PTL

(* No worker is ever lost to the pool.                                      *)
THEOREM WorkersAreConserved == Spec => []NoWorkerLost
<1>1. IndInv => NoWorkerLost
  <2> SUFFICES ASSUME IndInv PROVE NoWorkerLost
    OBVIOUS
  <2>1. \A w \in Worker : In(w) => w \in Avail
    BY DEF Avail, In
  <2>2. PlaceOK
    BY DEF IndInv, Inv2
  <2> QED BY <2>1, <2>2 DEF NoWorkerLost, PlaceOK, Creating
<1> QED BY <1>1, IndInvHolds, PTL

(* A worker that wakes up has one whole task, not yet run.                  *)
THEOREM WokenWorkerIsReady == Spec => []WokenWorkerHasItsTask
<1>1. IndInv => WokenWorkerHasItsTask
  BY DEF IndInv, Inv2, DutyOK, HasTask, FullSlot, WokenWorkerHasItsTask
<1> QED BY <1>1, IndInvHolds, PTL

(* No dispatch meets a pending signal, so none is merged away.              *)
THEOREM SignalsNeverMerge == Spec => []NoSignalMerged
<1>1. IndInv => NoSignalMerged
  BY DEF IndInv, Inv1, Inv2, CallOK, InCall, ReservedOK, Reserved, NoSignalMerged
<1> QED BY <1>1, IndInvHolds, PTL

-----------------------------------------------------------------------------
(***************************************************************************)
(* WorkerPool implements PoolContract, for every number of workers and     *)
(* tasks.  Every step of the pool is a step of the contract or leaves what *)
(* the contract sees alone: the second half of an enqueue is Park, the     *)
(* second half of a dequeue is Take, the last store of an assignment is    *)
(* Give, the call of the task's function is Run.                           *)
(***************************************************************************)

(* The refinement mapping by names. *)
Cell(k) == (wrk_fifo_head + k - 1) % MAX_WORKER
Queue == [k \in 1 .. wrk_fifo_size |-> wrk_fifo[(wrk_fifo_head + k - 1) % MAX_WORKER]]
Duties == [w \in Worker |-> DutyOf(w)]
Jobs == [t \in Task |-> IF tstate[t] \in {"assigned", "dispatched"} THEN wid[t] ELSE -1]
Ran == {t \in Task : runs[t] > 0}

-----------------------------------------------------------------------------
(* What the ring operations do to the queue *)

LEMMA Residue ==
  ASSUME NEW c \in 0 .. (2 * MAX_WORKER - 1)
  PROVE  /\ c % MAX_WORKER = IF c < MAX_WORKER THEN c ELSE c - MAX_WORKER
         /\ c % MAX_WORKER \in Worker
<1> USE PoolAssumption DEF Worker
<1>1. CASE c < MAX_WORKER
  BY <1>1
<1>2. CASE ~(c < MAX_WORKER)
  <2>1. \A r \in 0 .. (MAX_WORKER - 1) : (r + MAX_WORKER) % MAX_WORKER = r
    OBVIOUS
  <2>2. c - MAX_WORKER \in 0 .. (MAX_WORKER - 1) /\ (c - MAX_WORKER) + MAX_WORKER = c
    BY <1>2
  <2> QED BY <1>2, <2>1, <2>2
<1> QED BY <1>1, <1>2

LEMMA Around ==
  ASSUME NEW h \in Worker, NEW k \in 1 .. MAX_WORKER
  PROVE  /\ (h + k - 1) % MAX_WORKER = IF h + k - 1 < MAX_WORKER THEN h + k - 1
                                       ELSE h + k - 1 - MAX_WORKER
         /\ (h + k - 1) % MAX_WORKER \in Worker
<1>1. h + k - 1 \in 0 .. (2 * MAX_WORKER - 1)
  BY PoolAssumption DEF Worker
<1>2. PICK c \in 0 .. (2 * MAX_WORKER - 1) : c = h + k - 1
  BY <1>1
<1>3. /\ c % MAX_WORKER = IF c < MAX_WORKER THEN c ELSE c - MAX_WORKER
      /\ c % MAX_WORKER \in Worker
  BY Residue
<1>4. c % MAX_WORKER = (h + k - 1) % MAX_WORKER
  BY <1>2
<1>5. h \in Int /\ k \in Int /\ MAX_WORKER \in Int
  BY PoolAssumption DEF Worker
<1> QED BY <1>2, <1>3, <1>4, <1>5

LEMMA CellIs ==
  ASSUME FifoType, NEW k \in 1 .. MAX_WORKER
  PROVE  /\ Cell(k) = IF wrk_fifo_head + k - 1 < MAX_WORKER
                      THEN wrk_fifo_head + k - 1 ELSE wrk_fifo_head + k - 1 - MAX_WORKER
         /\ Cell(k) \in Worker
BY Around DEF Cell, FifoType

LEMMA QueueStays ==
  ASSUME UNCHANGED <<wrk_fifo, wrk_fifo_head, wrk_fifo_size>>
  PROVE  Queue' = Queue
BY DEF Queue

LEMMA QueueTyped ==
  ASSUME FifoType
  PROVE  Queue \in Seq(Worker) /\ Len(Queue) = wrk_fifo_size
<1>1. \A k \in 1 .. wrk_fifo_size : wrk_fifo[(wrk_fifo_head + k - 1) % MAX_WORKER] \in Worker
  <2> SUFFICES ASSUME NEW k \in 1 .. wrk_fifo_size PROVE wrk_fifo[Cell(k)] \in Worker
    BY DEF Cell
  <2>1. k \in 1 .. MAX_WORKER
    BY PoolAssumption DEF FifoType
  <2> QED BY <2>1, CellIs DEF FifoType
<1>2. wrk_fifo_size \in Nat
  BY PoolAssumption DEF FifoType
<1>3. Queue \in [1 .. wrk_fifo_size -> Worker]
  BY <1>1 DEF Queue
<1> QED BY <1>2, <1>3

(* The first half of an enqueue stores behind the last worker. *)
LEMMA EnqueueKeepsQueue ==
  ASSUME FifoType, TailOK, NEW p, NEW w \in Worker, Enqueue(p, w)
  PROVE  Queue' = Queue
<1>1. wrk_fifo_head' = wrk_fifo_head /\ wrk_fifo_size' = wrk_fifo_size
  BY DEF Enqueue
<1>2. ASSUME NEW k \in 1 .. wrk_fifo_size PROVE wrk_fifo'[Cell(k)] = wrk_fifo[Cell(k)]
  <2>1. k \in 1 .. MAX_WORKER /\ k \in 1 .. wrk_fifo_size
    BY PoolAssumption DEF FifoType
  <2>2. CASE wrk_fifo_size < MAX_WORKER
    <3>1. Cell(k) # wrk_fifo_tail
      <4>1. Cell(k) = IF wrk_fifo_head + k - 1 < MAX_WORKER
                      THEN wrk_fifo_head + k - 1 ELSE wrk_fifo_head + k - 1 - MAX_WORKER
        BY <2>1, CellIs
      <4> QED BY SMTT(30), <2>1, <2>2, <4>1, PoolAssumption DEF TailOK, FifoType, Worker
    <3> QED BY <2>1, <2>2, <3>1, CellIs DEF Enqueue, FifoType
  <2>3. CASE ~(wrk_fifo_size < MAX_WORKER)
    BY <2>3 DEF Enqueue
  <2> QED BY <2>2, <2>3
<1> QED BY <1>1, <1>2 DEF Queue, Cell

LEMMA EnqueueReturnAppends ==
  ASSUME FifoType, TailOK, NEW p, EnqueueReturn(p), wrk_fifo_size < MAX_WORKER
  PROVE  Queue' = Append(Queue, wrk_fifo[wrk_fifo_tail])
<1> DEFINE n == wrk_fifo_size
<1>1. wrk_fifo_head' = wrk_fifo_head /\ wrk_fifo_size' = n + 1 /\ wrk_fifo' = wrk_fifo
  BY DEF EnqueueReturn
<1>2. n \in Nat /\ n + 1 \in 1 .. MAX_WORKER
  BY PoolAssumption DEF FifoType
<1>3. Cell(n + 1) = wrk_fifo_tail
  <2>1. Cell(n + 1) = IF wrk_fifo_head + (n + 1) - 1 < MAX_WORKER
                      THEN wrk_fifo_head + (n + 1) - 1
                      ELSE wrk_fifo_head + (n + 1) - 1 - MAX_WORKER
    BY <1>2, CellIs
  <2> QED BY <1>2, <2>1, PoolAssumption DEF TailOK, FifoType, Worker
<1>4. wrk_fifo[(wrk_fifo_head + (n + 1) - 1) % MAX_WORKER] = wrk_fifo[wrk_fifo_tail]
  BY <1>3 DEF Cell
<1>5. Queue' = [k \in 1 .. n + 1 |-> wrk_fifo[(wrk_fifo_head + k - 1) % MAX_WORKER]]
  BY <1>1 DEF Queue
<1>6. Append(Queue, wrk_fifo[wrk_fifo_tail])
        = [k \in 1 .. n + 1 |-> IF k \in 1 .. n THEN Queue[k] ELSE wrk_fifo[wrk_fifo_tail]]
  BY <1>2, QueueTyped
<1>7. \A k \in 1 .. n + 1 : k \in 1 .. n \/ k = n + 1
  BY <1>2
<1>8. \A k \in 1 .. n : Queue[k] = wrk_fifo[(wrk_fifo_head + k - 1) % MAX_WORKER]
  BY DEF Queue
<1> QED BY <1>2, <1>4, <1>5, <1>6, <1>7, <1>8

LEMMA DequeueReturnTakes ==
  ASSUME FifoType, DequeueReturn, wrk_fifo_size > 0
  PROVE  /\ Queue # <<>> /\ Head(Queue) = wrk_fifo[wrk_fifo_head]
         /\ Queue' = Tail(Queue)
<1> DEFINE n == wrk_fifo_size
<1>1. wrk_fifo_size' = n - 1 /\ wrk_fifo' = wrk_fifo
      /\ wrk_fifo_head' = IF wrk_fifo_head + 1 = MAX_WORKER THEN 0 ELSE wrk_fifo_head + 1
  BY NextCell DEF DequeueReturn, FifoType
<1>2. n \in 1 .. MAX_WORKER /\ wrk_fifo_head \in Worker
  BY PoolAssumption DEF FifoType
<1>3. Cell(1) = wrk_fifo_head
  BY <1>2, CellIs, PoolAssumption DEF Worker
<1>4. Queue[1] = wrk_fifo[wrk_fifo_head]
  BY <1>2, <1>3 DEF Queue, Cell
<1>5. Queue # <<>> /\ Head(Queue) = Queue[1] /\ Len(Queue) = n
  BY <1>2, QueueTyped
<1>6. ASSUME NEW k \in 1 .. n - 1
      PROVE  Cell(k)' = Cell(k + 1)
  <2>1. k \in 1 .. MAX_WORKER /\ k + 1 \in 1 .. MAX_WORKER
    BY <1>2, PoolAssumption
  <2>2. wrk_fifo_head' \in Worker
    BY NextCell DEF DequeueReturn, FifoType
  <2>3. Cell(k)' = IF wrk_fifo_head' + k - 1 < MAX_WORKER
                   THEN wrk_fifo_head' + k - 1 ELSE wrk_fifo_head' + k - 1 - MAX_WORKER
    BY <2>1, <2>2, Around DEF Cell
  <2>4. Cell(k + 1) = IF wrk_fifo_head + (k + 1) - 1 < MAX_WORKER
                      THEN wrk_fifo_head + (k + 1) - 1
                      ELSE wrk_fifo_head + (k + 1) - 1 - MAX_WORKER
    BY <2>1, CellIs
  <2> QED BY <1>1, <1>2, <2>1, <2>3, <2>4, PoolAssumption DEF Worker
<1>7. Queue' = [k \in 1 .. n - 1 |-> wrk_fifo[Cell(k)']]
  BY <1>1 DEF Queue, Cell
<1>8. Tail(Queue) = [k \in 1 .. n - 1 |-> Queue[k + 1]]
  <2>1. /\ Tail(Queue) \in Seq(Worker) /\ Len(Tail(Queue)) = n - 1
        /\ \A k \in 1 .. Len(Tail(Queue)) : Tail(Queue)[k] = Queue[k + 1]
    BY <1>5, QueueTyped, HeadTailProperties
  <2>2. Tail(Queue) = [k \in 1 .. n - 1 |-> Tail(Queue)[k]]
    BY <2>1, LenProperties
  <2> QED BY <2>1, <2>2
<1>9. ASSUME NEW k \in 1 .. n - 1 PROVE Queue[k + 1] = wrk_fifo[Cell(k + 1)]
  BY <1>2 DEF Queue, Cell
<1> QED BY <1>4, <1>5, <1>6, <1>7, <1>8, <1>9

-----------------------------------------------------------------------------
(* Every task that was dispatched and has not run is on its way: its worker *)
(* holds it and is signalled or awake.                                      *)
OnItsWay(t) == /\ wid[t] \in Worker /\ worker[wid[t]] = FullSlot(t)
               /\ pending[wid[t]] # {} \/ wpc[wid[t]] = "awake"

DispatchedOK == \A t \in Task : tstate[t] = "dispatched" /\ runs[t] = 0 => OnItsWay(t)

LEMMA DispatchedFrame ==
  ASSUME DispatchedOK, UNCHANGED <<worker, wid, runs, pending, wpc>>,
         \A t \in Task : tstate'[t] = "dispatched" => tstate[t] = "dispatched"
  PROVE  DispatchedOK'
BY DEF DispatchedOK, OnItsWay

(* A step of one worker that is neither signalled nor awake. *)
LEMMA DispatchedElsewhere ==
  ASSUME DispatchedOK, NEW w \in Worker, UNCHANGED <<wid, runs, tstate>>,
         pending[w] = {} /\ wpc[w] # "awake",
         \A v \in Worker : v # w => /\ worker'[v] = worker[v] /\ wpc'[v] = wpc[v]
                                   /\ pending'[v] = pending[v]
  PROVE  DispatchedOK'
BY DEF DispatchedOK, OnItsWay

LEMMA DispatchedStep ==
  ASSUME IndInv, DispatchedOK, [Next]_vars
  PROVE  DispatchedOK'
<1> USE DEF IndInv, Inv1, Inv2, TypeOK, mainVars, taskVars, fifoVars, slotVars, threadVars
<1>1. CASE CreateWorkers
  <2>1. CASE Clone
    <3>1. i \in Worker /\ pending[i] = {} /\ wpc[i] # "awake"
      BY <2>1, PoolAssumption DEF Clone, MainType, Worker, CreatingOK, Creating, Untouched
    <3>2. \A v \in Worker : v # i => wpc'[v] = wpc[v]
      BY <2>1 DEF Clone, ThreadType
    <3>3. UNCHANGED <<wid, runs, tstate, worker, pending>>
      BY <2>1 DEF Clone
    <3> QED BY <3>1, <3>2, <3>3, DispatchedElsewhere
  <2>2. CASE NextClone \/ ResetFifo \/ Fill \/ FillReturn \/ Created
    <3>1. UNCHANGED <<worker, wid, runs, tstate, pending, wpc>>
      BY <2>2 DEF NextClone, ResetFifo, Fill, FillReturn, Created
    <3> QED BY <3>1, DispatchedFrame
  <2> QED BY <1>1, <2>1, <2>2 DEF CreateWorkers
<1>2. CASE InitTask
  <2>1. UNCHANGED <<worker, wid, runs, pending, wpc>>
    BY <1>2 DEF InitTask
  <2>2. \A t \in Task : tstate'[t] = "dispatched" => tstate[t] = "dispatched"
    BY <1>2 DEF InitTask, TaskType
  <2> QED BY <2>1, <2>2, DispatchedFrame
<1>3. ASSUME NEW t \in Task, Calls(t) PROVE DispatchedOK'
  <2>1. CASE GetNoWorker(t) \/ Dequeue(t)
    <3>1. tstate[t] = "created" /\ UNCHANGED <<worker, runs, pending, wpc>>
      BY <2>1 DEF GetNoWorker, Dequeue
    <3>2. ASSUME NEW u \in Task, tstate'[u] = "dispatched"
          PROVE  tstate[u] = "dispatched" /\ wid'[u] = wid[u]
      BY <2>1, <3>1, <3>2 DEF GetNoWorker, Dequeue, TaskType
    <3>3. ASSUME NEW u \in Task, tstate'[u] = "dispatched", runs'[u] = 0
          PROVE  OnItsWay(u)'
      <4>1. OnItsWay(u)
        BY <3>1, <3>2, <3>3 DEF DispatchedOK
      <4> QED BY <3>1, <3>2, <3>3, <4>1 DEF OnItsWay
    <3> QED BY <3>3 DEF DispatchedOK
  <2>2. CASE AssignFails(t) \/ AssignBusy(t) \/ DispatchFaults(t) \/ DispatchCheck(t)
    <3>1. UNCHANGED <<worker, wid, runs, pending, wpc>>
      BY <2>2 DEF AssignFails, AssignBusy, DispatchFaults, DispatchCheck
    <3>2. \A u \in Task : tstate'[u] = "dispatched" => tstate[u] = "dispatched"
      BY <2>2 DEF AssignFails, AssignBusy, DispatchFaults, DispatchCheck, TaskType
    <3> QED BY <3>1, <3>2, DispatchedFrame
  <2> QED BY <1>3, <2>1, <2>2 DEF Calls
<1>4. CASE Returns
  <2>1. CASE DequeueReturn
    <3>1. UNCHANGED <<worker, wid, runs, pending, wpc>>
      BY <2>1 DEF DequeueReturn
    <3>2. \A t \in Task : tstate'[t] = "dispatched" => tstate[t] = "dispatched"
      BY <2>1 DEF DequeueReturn, TaskType
    <3> QED BY <3>1, <3>2, DispatchedFrame
  <2>2. CASE AssignFunc \/ AssignArg
    <3>1. cur \in Task /\ Parked(wid[cur]) /\ wid[cur] \in Worker
      BY <2>2 DEF AssignFunc, AssignArg, CallOK, InCall, ReservedOK, Reserved
    <3>2. \A v \in Worker : v # wid[cur] => worker'[v] = worker[v]
      BY <2>2, <3>1 DEF AssignFunc, AssignArg, SlotType
    <3>3. \A u \in Task : tstate'[u] = "dispatched" => tstate[u] = "dispatched"
      BY <2>2 DEF AssignFunc, AssignArg, TaskType
    <3>4. UNCHANGED <<wid, runs, pending, wpc>>
      BY <2>2 DEF AssignFunc, AssignArg
    <3> QED BY <3>1, <3>2, <3>3, <3>4 DEF DispatchedOK, OnItsWay, Parked
  <2>3. CASE Tkill
    <3>1. /\ cur \in Task /\ tstate[cur] = "assigned" /\ wid[cur] \in Worker
          /\ worker[wid[cur]] = FullSlot(cur)
      BY <2>3 DEF Tkill, CallOK, InCall, SlotOK
    <3>2. \A v \in Worker : pending[v] # {} => pending'[v] # {}
      BY <2>3, <3>1 DEF Tkill, ThreadType
    <3>3. pending'[wid[cur]] # {}
      BY <2>3, <3>1 DEF Tkill, ThreadType
    <3>4. \A u \in Task : u # cur => tstate'[u] = tstate[u]
      BY <2>3 DEF Tkill, TaskType
    <3>5. UNCHANGED <<worker, wid, runs, wpc>>
      BY <2>3 DEF Tkill
    <3> QED BY <3>1, <3>2, <3>3, <3>4, <3>5 DEF DispatchedOK, OnItsWay
  <2> QED BY <1>4, <2>1, <2>2, <2>3 DEF Returns
<1>5. ASSUME NEW w \in Worker, WorkerStep(w) PROVE DispatchedOK'
  <2>1. CASE Wake(w)
    <3>1. wpc'[w] = "awake" /\ UNCHANGED <<worker, wid, runs, tstate>>
      BY <2>1 DEF Wake, ThreadType
    <3>2. \A v \in Worker : v # w => wpc'[v] = wpc[v] /\ pending'[v] = pending[v]
      BY <2>1 DEF Wake, ThreadType
    <3> QED BY <3>1, <3>2 DEF DispatchedOK, OnItsWay
  <2>2. CASE Call(w)
    <3>1. idx[w] = w /\ pending[w] = {} /\ wpc[w] = "awake"
      BY <2>2 DEF Call, ThreadOK, DutyOK
    <3>2. PICK t \in Task : HasTask(w, t)
      BY <3>1 DEF DutyOK
    <3>3. worker[w].func = t /\ t # NULL
      BY <3>2, PoolAssumption DEF HasTask, FullSlot, Task, NULL
    <3>4. runs' = [runs EXCEPT ![t] = @ + 1]
      BY <2>2, <3>1, <3>3 DEF Call
    <3>5. ASSUME NEW u \in Task, tstate'[u] = "dispatched", runs'[u] = 0
          PROVE  u # t /\ tstate[u] = "dispatched" /\ runs[u] = 0
      <4>1. u # t
        BY <3>4, <3>5 DEF ThreadType
      <4> QED BY <2>2, <3>4, <3>5, <4>1 DEF Call, ThreadType
    <3>6. ASSUME NEW u \in Task, tstate'[u] = "dispatched", runs'[u] = 0
          PROVE  wid[u] # w /\ OnItsWay(u)
      <4>1. OnItsWay(u)
        BY <3>5, <3>6 DEF DispatchedOK
      <4>2. wid[u] = w => FullSlot(u) = FullSlot(t)
        BY <3>2, <4>1 DEF HasTask, OnItsWay
      <4>3. FullSlot(u) # FullSlot(t)
        BY <3>5, <3>6 DEF FullSlot
      <4> QED BY <4>1, <4>2, <4>3
    <3>7. \A v \in Worker : v # w => wpc'[v] = wpc[v]
      BY <2>2 DEF Call, ThreadType
    <3>8. UNCHANGED <<worker, wid, pending>>
      BY <2>2 DEF Call
    <3> QED BY <3>6, <3>7, <3>8 DEF DispatchedOK, OnItsWay
  <2>3. CASE ReadId(w) \/ CallReturns(w) \/ ClearBusy(w) \/ ClearSlot(w) \/ Requeue(w) \/ RequeueReturn(w)
    <3>1. pending[w] = {} /\ wpc[w] # "awake"
      BY <2>3 DEF ReadId, CallReturns, ClearBusy, ClearSlot, Requeue, RequeueReturn, DutyOK
    <3>2. \A v \in Worker : v # w => wpc'[v] = wpc[v]
      BY <2>3 DEF ReadId, CallReturns, ClearBusy, ClearSlot, Requeue, RequeueReturn, ThreadType
    <3>3. \A v \in Worker : v # w => worker'[v] = worker[v]
      <4>1. ClearSlot(w) => idx[w] = w
        BY <2>3 DEF ClearSlot, ThreadOK
      <4> QED BY <2>3, <4>1 DEF ReadId, CallReturns, ClearBusy, ClearSlot, Requeue, RequeueReturn, SlotType
    <3>4. UNCHANGED <<wid, runs, tstate, pending>>
      BY <2>3 DEF ReadId, CallReturns, ClearBusy, ClearSlot, Requeue, RequeueReturn
    <3> QED BY <3>1, <3>2, <3>3, <3>4, DispatchedElsewhere
  <2> QED BY <1>5, <2>1, <2>2, <2>3 DEF WorkerStep
<1>6. CASE UNCHANGED vars
  BY <1>6, DispatchedFrame DEF vars
<1> QED
  BY <1>1, <1>2, <1>3, <1>4, <1>5, <1>6 DEF Next, ClientStep, Quiet

LEMMA DispatchedHolds == Spec => []DispatchedOK
<1>1. Init => DispatchedOK
  BY DEF Init, DispatchedOK
<1> QED BY <1>1, DispatchedStep, IndInvHolds, PTL DEF Spec
-----------------------------------------------------------------------------
(* The mapping in terms of the ring's workers *)

Returning(w) == wpc[w] \in {"done", "clear", "enqueue", "enqueuing", "running"}
HasJob(w) == \E t \in Task : tstate[t] \in {"assigned", "dispatched"} /\ wid[t] = w /\ runs[t] = 0
HasPromise(w) == \E t \in Task : tstate[t] = "got" /\ wid[t] = w

DutyIn(w) == IF Returning(w) THEN "ran" ELSE IF In(w) THEN "free"
             ELSE IF HasJob(w) THEN "busy" ELSE IF HasPromise(w) THEN "taken" ELSE "new"

LEMMA DutyIs ==
  ASSUME NEW w \in Worker
  PROVE  DutyOf(w) = DutyIn(w) /\ DutyOf(w)' = DutyIn(w)'
<1>1. w \in Avail <=> In(w)
  BY DEF Avail, In
<1>2. w \in Avail' <=> In(w)'
  BY DEF Avail, In
<1>3. DutyOf(w) = DutyIn(w)
  BY <1>1 DEF DutyOf, DutyIn, Returning, HasJob, HasPromise
<1>4. DutyOf(w)' = DutyIn(w)'
  BY <1>2 DEF DutyOf, DutyIn, Returning, HasJob, HasPromise
<1> QED BY <1>3, <1>4

(* What decides a worker's duty is as it was. *)
SameDuty(v) == /\ Returning(v)' <=> Returning(v)
               /\ In(v)' <=> In(v)
               /\ HasJob(v)' <=> HasJob(v)
               /\ HasPromise(v)' <=> HasPromise(v)

LEMMA DutiesStay ==
  ASSUME \A v \in Worker : SameDuty(v)
  PROVE  Duties' = Duties
<1>1. ASSUME NEW v \in Worker PROVE DutyOf(v)' = DutyOf(v)
  BY DutyIs DEF SameDuty, DutyIn
<1> QED BY <1>1 DEF Duties

LEMMA OneDutyChanges ==
  ASSUME NEW w \in Worker, NEW d, DutyIn(w)' = d,
         \A v \in Worker : v # w => SameDuty(v)
  PROVE  Duties' = [Duties EXCEPT ![w] = d]
<1>1. ASSUME NEW v \in Worker, v # w PROVE DutyOf(v)' = DutyOf(v)
  BY <1>1, DutyIs DEF SameDuty, DutyIn
<1>2. DutyOf(w)' = d
  BY DutyIs
<1> QED BY <1>1, <1>2 DEF Duties

Invisible == UNCHANGED <<Queue, Duties, Jobs, Ran>>

(* A step that touches no task and moves no worker across a line. *)
LEMMA TasksStay ==
  ASSUME UNCHANGED <<tstate, wid, runs, Queue>>,
         \A v \in Worker : (In(v)' <=> In(v)) /\ (Returning(v)' <=> Returning(v))
  PROVE  Invisible
<1>1. \A v \in Worker : SameDuty(v)
  BY DEF SameDuty, HasJob, HasPromise
<1> QED BY <1>1, DutiesStay DEF Invisible, Jobs, Ran

(* A step that changes one task in a way the contract does not see. *)
LEMMA OneTaskStays ==
  ASSUME NEW t \in Task, UNCHANGED <<wrk_fifo, wrk_fifo_head, wrk_fifo_size, wpc, runs>>,
         \A u \in Task : u # t => tstate'[u] = tstate[u] /\ wid'[u] = wid[u],
         \/ /\ tstate[t] \notin {"got", "assigned", "dispatched"}
            /\ tstate'[t] \notin {"got", "assigned", "dispatched"}
         \/ /\ tstate[t] \in {"assigned", "dispatched"} /\ wid'[t] = wid[t]
            /\ tstate'[t] \in {"assigned", "dispatched"}
         \/ /\ tstate[t] \notin {"got", "assigned", "dispatched"}
            /\ tstate'[t] = "got" /\ wid'[t] \notin Worker
         \/ /\ tstate[t] = "got" /\ wid[t] \notin Worker
            /\ tstate'[t] \notin {"got", "assigned", "dispatched"}
  PROVE  Invisible
<1>1. \A v \in Worker : In(v)' <=> In(v)
  BY SameIn
<1>2. \A v \in Worker : Returning(v)' <=> Returning(v)
  BY DEF Returning
<1>3. \A v \in Worker : (HasJob(v)' <=> HasJob(v)) /\ (HasPromise(v)' <=> HasPromise(v))
  BY DEF HasJob, HasPromise
<1>4. Duties' = Duties
  BY <1>1, <1>2, <1>3, DutiesStay DEF SameDuty
<1>5. Jobs' = Jobs
  BY DEF Jobs
<1> QED BY <1>4, <1>5, QueueStays DEF Invisible, Ran

-----------------------------------------------------------------------------
(* The five steps that the contract sees *)

(* A worker in the ring has no task. *)
LEMMA IdleHasNoJob ==
  ASSUME IndInv, DispatchedOK, NEW w \in Worker, Parked(w),
         \A t \in Task : tstate[t] = "assigned" => wid[t] # w
  PROVE  ~HasJob(w)
BY DEF HasJob, DispatchedOK, OnItsWay, Parked

LEMMA ParkMaps ==
  ASSUME FifoType, TailOK, NEW p, NEW w \in Worker, EnqueueReturn(p),
         wrk_fifo_size < MAX_WORKER, wrk_fifo[wrk_fifo_tail] = w,
         DutyIn(w) \in {"new", "ran"}, ~Returning(w)',
         \A v \in Worker : v # w => (Returning(v)' <=> Returning(v)),
         UNCHANGED <<tstate, wid, runs>>
  PROVE  Contract!Park(w)
<1>1. Queue' = Append(Queue, w)
  BY EnqueueReturnAppends
<1>2. \A v \in Worker : In(v)' <=> In(v) \/ v = w
  BY EnqueueReturnIn
<1>3. Duties' = [Duties EXCEPT ![w] = "free"]
  <2>1. DutyIn(w)' = "free"
    BY <1>2 DEF DutyIn
  <2>2. \A v \in Worker : v # w => SameDuty(v)
    BY <1>2 DEF SameDuty, HasJob, HasPromise
  <2> QED BY <2>1, <2>2, OneDutyChanges
<1>4. Duties[w] \in {"new", "ran"}
  BY DutyIs DEF Duties
<1>5. Jobs' = Jobs /\ Ran' = Ran
  BY DEF Jobs, Ran
<1> QED BY <1>1, <1>3, <1>4, <1>5 DEF Contract!Park, Queue, Duties, Jobs, Ran

LEMMA FillReturnMaps ==
  ASSUME IndInv, DispatchedOK, FillReturn
  PROVE  \E w \in Worker : Contract!Park(w)
<1> USE DEF IndInv, Inv1, Inv2, TypeOK
<1>1. j \in Worker /\ mpc = "filling"
  BY DEF FillReturn, CallOK
<1> PICK w \in Worker : w = j
  BY <1>1
<1>2. wrk_fifo[wrk_fifo_tail] = j /\ wrk_fifo_size < MAX_WORKER /\ ~In(j)
  <2>1. j < MAX_WORKER
    BY <1>1, PoolAssumption DEF Worker
  <2>2. wrk_fifo[wrk_fifo_tail] = j
    BY <1>1 DEF RingOK
  <2>3. wrk_fifo_size < MAX_WORKER /\ (In(j) <=> j < j)
    BY <1>1, <2>1, FillIn
  <2> QED BY <1>1, <2>2, <2>3 DEF Worker
<1>3. Untouched(w) /\ \A t \in Task : tstate[t] = "none"
  BY <1>1 DEF CreatingOK, Creating
<1>4. DutyIn(w) = "new"
  BY <1>2, <1>3 DEF DutyIn, Returning, Untouched, HasJob, HasPromise
<1>5. EnqueueReturn(Main) /\ UNCHANGED <<wpc, tstate, wid, runs>>
  BY DEF FillReturn, taskVars, threadVars
<1>6. ~Returning(w)' /\ \A v \in Worker : Returning(v)' <=> Returning(v)
  BY <1>3, <1>5 DEF Returning, Untouched
<1>7. Contract!Park(w)
  BY <1>2, <1>4, <1>5, <1>6, ParkMaps
<1> QED BY <1>7

LEMMA RequeueReturnMaps ==
  ASSUME IndInv, DispatchedOK, NEW w \in Worker, RequeueReturn(w)
  PROVE  Contract!Park(w)
<1> USE DEF IndInv, Inv1, Inv2, TypeOK
<1>1. wpc[w] = "enqueuing" /\ EnqueueReturn(w) /\ UNCHANGED <<tstate, wid, runs>>
  BY DEF RequeueReturn, taskVars
<1>2. wrk_fifo_size < MAX_WORKER /\ wrk_fifo[wrk_fifo_tail] = w
  BY <1>1, RoomToRequeue DEF RingOK
<1>3. wpc' = [wpc EXCEPT ![w] = "sigwait"]
  BY DEF RequeueReturn
<1>4. ~Returning(w)' /\ \A v \in Worker : v # w => (Returning(v)' <=> Returning(v))
  BY <1>3 DEF Returning, ThreadType
<1>5. DutyIn(w) = "ran"
  BY <1>1 DEF DutyIn, Returning
<1> QED BY <1>1, <1>2, <1>4, <1>5, ParkMaps

LEMMA DequeueReturnMaps ==
  ASSUME IndInv, DispatchedOK, DequeueReturn
  PROVE  Contract!Take
<1> USE DEF IndInv, Inv1, Inv2, TypeOK
<1> PICK w \in Worker : w = wrk_fifo[wrk_fifo_head]
  BY DEF DequeueReturn, CallOK, InCall, RingOK
<1>1. /\ cur \in Task /\ wid[cur] = w /\ w \in Worker /\ wrk_fifo_size > 0
      /\ tstate[cur] = "created"
  BY DEF DequeueReturn, CallOK, InCall, RingOK
<1>2. Queue # <<>> /\ Head(Queue) = w /\ Queue' = Tail(Queue)
  BY <1>1, DequeueReturnTakes
<1>3. In(w) /\ \A v \in Worker : In(v)' <=> In(v) /\ v # w
  BY <1>1, DequeueReturnIn
<1>4. tstate' = [tstate EXCEPT ![cur] = "got"] /\ UNCHANGED <<wid, runs, wpc>>
  BY DEF DequeueReturn, threadVars
<1>5. \A v \in Worker : HasJob(v)' <=> HasJob(v)
  BY <1>1, <1>4 DEF HasJob, TaskType
<1>6. \A v \in Worker : v # w => (HasPromise(v)' <=> HasPromise(v))
  BY <1>1, <1>4 DEF HasPromise, TaskType
<1>7. HasPromise(w)'
  BY <1>1, <1>4 DEF HasPromise, TaskType
<1>8. ~HasJob(w) /\ ~Returning(w)
  <2>1. Parked(w)
    BY <1>1, <1>3 DEF InIdle, Idle
  <2>2. \A t \in Task : tstate[t] = "assigned" => wid[t] # w
    BY <1>3 DEF ReservedOK, Reserved, SlotOK
  <2> QED BY <1>1, <2>1, <2>2, IdleHasNoJob DEF Returning, Parked
<1>9. \A v \in Worker : Returning(v)' <=> Returning(v)
  BY <1>4 DEF Returning
<1>10. Duties' = [Duties EXCEPT ![w] = "taken"]
  <2>1. DutyIn(w)' = "taken"
    BY <1>1, <1>3, <1>5, <1>7, <1>8, <1>9 DEF DutyIn
  <2>2. \A v \in Worker : v # w => SameDuty(v)
    BY <1>3, <1>5, <1>6, <1>9 DEF SameDuty
  <2> QED BY <1>1, <2>1, <2>2, OneDutyChanges
<1>11. Jobs' = Jobs /\ Ran' = Ran
  BY <1>1, <1>4 DEF Jobs, Ran, TaskType
<1> QED BY <1>2, <1>10, <1>11 DEF Contract!Take, Queue, Duties, Jobs, Ran
LEMMA AssignArgMaps ==
  ASSUME IndInv, DispatchedOK, AssignArg
  PROVE  \E w \in Worker, t \in Task : Contract!Give(w, t)
<1> USE DEF IndInv, Inv1, Inv2, TypeOK
<1>1. /\ cur \in Task /\ wid[cur] \in Worker /\ tstate[cur] = "got" /\ Reserved(cur)
      /\ Parked(wid[cur]) /\ ~In(wid[cur]) /\ runs[cur] = 0
  BY DEF AssignArg, CallOK, InCall, Reserved, ReservedOK, DutyOK
<1> PICK t \in Task, w \in Worker : t = cur /\ w = wid[cur]
  BY <1>1
<1>2. tstate' = [tstate EXCEPT ![t] = "assigned"] /\ UNCHANGED <<wid, runs, wpc, fifoVars>>
  BY DEF AssignArg, threadVars
<1>3. \A u \in Task : u # t => tstate'[u] = tstate[u] /\ (tstate[u] \in {"got", "assigned"} => wid[u] # w)
  BY <1>1, <1>2 DEF TaskType, ReservedOK, Reserved
<1>4. \A v \in Worker : (In(v)' <=> In(v)) /\ (Returning(v)' <=> Returning(v))
  BY <1>2, SameIn DEF fifoVars, Returning
<1>5. DutyIn(w) = "taken"
  <2>1. ~HasJob(w)
    BY <1>1, <1>3, IdleHasNoJob
  <2>2. HasPromise(w) /\ ~Returning(w)
    BY <1>1 DEF HasPromise, Returning, Parked
  <2> QED BY <1>1, <2>1, <2>2 DEF DutyIn
<1>6. DutyIn(w)' = "busy"
  <2>1. HasJob(w)'
    BY <1>1, <1>2 DEF HasJob, TaskType
  <2>2. ~Returning(w)' /\ ~In(w)'
    BY <1>1, <1>4 DEF Returning, Parked
  <2> QED BY <2>1, <2>2 DEF DutyIn
<1>7. \A v \in Worker : v # w => SameDuty(v)
  <2>1. \A u \in Task, v \in Worker : v # w /\ wid[u] = v => u # t
    BY <1>1
  <2> QED BY <1>2, <1>3, <1>4, <2>1 DEF SameDuty, HasJob, HasPromise
<1>8. Duties' = [Duties EXCEPT ![w] = "busy"] /\ Duties[w] = "taken"
  BY <1>5, <1>6, <1>7, OneDutyChanges, DutyIs DEF Duties
<1>9. Jobs[t] = -1 /\ Jobs' = [Jobs EXCEPT ![t] = w]
  BY <1>1, <1>2, <1>3 DEF Jobs, TaskType
<1>10. Queue' = Queue /\ Ran' = Ran
  BY <1>2, QueueStays DEF fifoVars, Ran
<1>11. Contract!Give(w, t)
  BY <1>8, <1>9, <1>10 DEF Contract!Give, Queue, Duties, Jobs, Ran
<1> QED BY <1>11

LEMMA CallMaps ==
  ASSUME IndInv, DispatchedOK, NEW w \in Worker, Call(w)
  PROVE  \E t \in Task : Contract!Run(w, t)
<1> USE DEF IndInv, Inv1, Inv2, TypeOK
<1>1. wpc[w] = "awake" /\ idx[w] = w
  BY DEF Call, ThreadOK
<1>2. PICK t \in Task : HasTask(w, t)
  BY <1>1 DEF DutyOK
<1>3. worker[w].func = t /\ t # NULL
  BY <1>2, PoolAssumption DEF HasTask, FullSlot, Task, NULL
<1>4. /\ runs' = [runs EXCEPT ![t] = @ + 1]
      /\ wpc' = [wpc EXCEPT ![w] = "running"]
      /\ UNCHANGED <<tstate, wid, fifoVars>>
  BY <1>1, <1>3 DEF Call, taskVars
<1>5. \A v \in Worker : In(v)' <=> In(v)
  BY <1>4, SameIn DEF fifoVars
<1>6. Returning(w)' /\ ~Returning(w) /\ \A v \in Worker : v # w => (Returning(v)' <=> Returning(v))
  BY <1>1, <1>4 DEF Returning, ThreadType
<1>7. DutyIn(w) = "busy"
  <2>1. ~In(w)
    BY <1>1 DEF InIdle, Idle, Parked
  <2>2. HasJob(w)
    BY <1>2 DEF HasTask, HasJob
  <2> QED BY <1>6, <2>1, <2>2 DEF DutyIn
<1>8. DutyIn(w)' = "ran"
  BY <1>6 DEF DutyIn
<1>9. \A v \in Worker : v # w => SameDuty(v)
  <2>1. \A u \in Task : u # t => runs'[u] = runs[u]
    BY <1>4 DEF ThreadType
  <2>2. wid[t] = w
    BY <1>2 DEF HasTask
  <2>3. \A u \in Task, v \in Worker : v # w /\ wid[u] = v => u # t
    BY <2>2
  <2> QED BY <1>4, <1>5, <1>6, <2>1, <2>3 DEF SameDuty, HasJob, HasPromise
<1>10. Duties' = [Duties EXCEPT ![w] = "ran"] /\ Duties[w] = "busy"
  BY <1>7, <1>8, <1>9, OneDutyChanges, DutyIs DEF Duties
<1>11. Jobs' = Jobs /\ Jobs[t] = w
  BY <1>2, <1>4 DEF Jobs, HasTask
<1>12. t \notin Ran /\ Ran' = Ran \cup {t}
  BY <1>2, <1>4 DEF Ran, HasTask, ThreadType
<1>13. Queue' = Queue
  BY <1>4, QueueStays DEF fifoVars
<1>14. Contract!Run(w, t)
  BY <1>10, <1>11, <1>12, <1>13 DEF Contract!Run, Queue, Duties, Jobs, Ran
<1> QED BY <1>14

-----------------------------------------------------------------------------
(* Every step *)

Seen == \/ Contract!Take
        \/ \E w \in Worker : Contract!Park(w)
        \/ \E w \in Worker, t \in Task : Contract!Give(w, t) \/ Contract!Run(w, t)

LEMMA CreateMaps ==
  ASSUME IndInv, DispatchedOK, CreateWorkers
  PROVE  Seen \/ Invisible
<1> USE DEF IndInv, Inv1, Inv2, TypeOK
<1>1. CASE Clone \/ (NextClone /\ PauseIsEnough) \/ ResetFifo \/ Created
  <2>1. UNCHANGED <<wrk_fifo, wrk_fifo_head, wrk_fifo_size, tstate, wid, runs>>
    BY <1>1 DEF Clone, NextClone, ResetFifo, Created, RingOK, Creating, fifoVars, taskVars, threadVars
  <2>2. \A v \in Worker : Returning(v)' <=> Returning(v)
    <3>1. CASE Clone
      <4>1. mpc = "clone" /\ \A v \in Worker : Untouched(v)
        BY <3>1 DEF Clone, CreatingOK, Creating
      <4>2. wpc' = [wpc EXCEPT ![i] = "boot"]
        BY <3>1 DEF Clone
      <4> QED BY <4>1, <4>2 DEF Returning, Untouched, ThreadType
    <3>2. CASE ~Clone
      BY <1>1, <3>2 DEF NextClone, ResetFifo, Created, threadVars, Returning
    <3> QED BY <3>1, <3>2
  <2> QED BY <2>1, <2>2, SameIn, QueueStays, TasksStay
<1>2. CASE Fill
  <2>1. j \in Worker
    BY <1>2, PoolAssumption DEF Fill, MainType, Worker
  <2>2. Enqueue(Main, j) /\ UNCHANGED <<tstate, wid, runs, wpc, j>>
    BY <1>2 DEF Fill, taskVars, threadVars
  <2>3. Queue' = Queue /\ \A v \in Worker : In(v)' <=> In(v)
    BY <2>1, <2>2, EnqueueKeepsQueue, EnqueueIn
  <2>4. \A v \in Worker : Returning(v)' <=> Returning(v)
    BY <2>2 DEF Returning
  <2> QED BY <2>2, <2>3, <2>4, TasksStay
<1>3. CASE FillReturn
  BY <1>3, FillReturnMaps DEF Seen
<1> QED BY <1>1, <1>2, <1>3 DEF CreateWorkers

LEMMA ClientMaps ==
  ASSUME IndInv, DispatchedOK, ClientStep
  PROVE  Seen \/ Invisible
<1> USE DEF IndInv, Inv1, Inv2, TypeOK
<1>1. CASE InitTask
  <2>1. taskid_seed \in Task /\ tstate[taskid_seed] = "none"
    BY <1>1, PoolAssumption DEF InitTask, TaskType, CallOK, Found, Task
  <2>2. UNCHANGED <<wrk_fifo, wrk_fifo_head, wrk_fifo_size, wpc, runs, wid>>
    BY <1>1 DEF InitTask, fifoVars, threadVars
  <2>3. tstate' = [tstate EXCEPT ![taskid_seed] = "created"]
    BY <1>1 DEF InitTask
  <2>4. PICK t \in Task : t = taskid_seed
    BY <2>1
  <2>5. /\ tstate'[t] = "created" /\ tstate[t] = "none"
        /\ \A u \in Task : u # t => tstate'[u] = tstate[u] /\ wid'[u] = wid[u]
    BY <2>1, <2>2, <2>3, <2>4 DEF TaskType
  <2> QED BY <2>2, <2>5, OneTaskStays
<1>2. ASSUME NEW t \in Task, Calls(t) PROVE Seen \/ Invisible
  <2>1. CASE GetNoWorker(t)
    <3>1. UNCHANGED <<wrk_fifo, wrk_fifo_head, wrk_fifo_size, wpc, runs>>
      BY <2>1 DEF GetNoWorker, fifoVars, threadVars
    <3>2. /\ tstate[t] = "created" /\ tstate'[t] = "got" /\ wid'[t] = NULL
          /\ \A u \in Task : u # t => tstate'[u] = tstate[u] /\ wid'[u] = wid[u]
      BY <2>1 DEF GetNoWorker, TaskType
    <3>3. NULL \notin Worker
      BY DEF NULL, Worker
    <3> QED BY <3>1, <3>2, <3>3, OneTaskStays
  <2>2. CASE Dequeue(t)
    <3>1. UNCHANGED <<wrk_fifo, wrk_fifo_head, wrk_fifo_size, wpc, runs>>
      BY <2>2 DEF Dequeue, threadVars
    <3>2. /\ tstate[t] = "created" /\ tstate' = tstate
          /\ \A u \in Task : u # t => tstate'[u] = tstate[u] /\ wid'[u] = wid[u]
      BY <2>2 DEF Dequeue, TaskType
    <3> QED BY <3>1, <3>2, OneTaskStays
  <2>3. CASE AssignFails(t)
    <3>1. UNCHANGED <<wrk_fifo, wrk_fifo_head, wrk_fifo_size, wpc, runs>>
      BY <2>3 DEF AssignFails, fifoVars, threadVars
    <3>2. /\ tstate[t] = "got" /\ tstate'[t] = "failed"
          /\ \A u \in Task : u # t => tstate'[u] = tstate[u] /\ wid'[u] = wid[u]
      BY <2>3 DEF AssignFails, TaskType
    <3>3. wid[t] \notin Worker
      BY <2>3, PoolAssumption DEF AssignFails, Assignable, CallOK, Worker
    <3> QED BY <3>1, <3>2, <3>3, OneTaskStays
  <2>4. CASE AssignBusy(t) \/ DispatchFaults(t) \/ DispatchCheck(t)
    <3>1. UNCHANGED <<wrk_fifo, wrk_fifo_head, wrk_fifo_size, wpc, runs, wid>>
      BY <2>4 DEF AssignBusy, DispatchFaults, DispatchCheck, fifoVars, threadVars, taskVars
    <3>2. DispatchCheck(t) => worker[wid[t]].func # NULL
      <4>1. FullSlot(t).func # NULL
        BY PoolAssumption DEF FullSlot, Task, NULL
      <4>2. DispatchCheck(t) => tstate[t] = "assigned"
        BY DEF DispatchCheck, CallOK, Worker, NULL
      <4> QED BY <4>1, <4>2 DEF SlotOK
    <3>3. tstate' = tstate
      BY <2>4, <3>2 DEF AssignBusy, DispatchFaults, DispatchCheck, taskVars
    <3> QED BY <3>1, <3>3, SameIn, QueueStays, TasksStay DEF Returning
  <2> QED BY <1>2, <2>1, <2>2, <2>3, <2>4 DEF Calls
<1>3. CASE Returns
  <2>1. CASE DequeueReturn
    BY <2>1, DequeueReturnMaps DEF Seen
  <2>2. CASE AssignFunc
    <3>1. UNCHANGED <<wrk_fifo, wrk_fifo_head, wrk_fifo_size, wpc, runs, wid, tstate>>
      BY <2>2 DEF AssignFunc, fifoVars, threadVars, taskVars
    <3> QED BY <3>1, SameIn, QueueStays, TasksStay DEF Returning
  <2>3. CASE AssignArg
    BY <2>3, AssignArgMaps DEF Seen
  <2>4. CASE Tkill
    <3>1. UNCHANGED <<wrk_fifo, wrk_fifo_head, wrk_fifo_size, wpc, runs, wid>>
      BY <2>4 DEF Tkill, fifoVars
    <3>2. cur \in Task /\ tstate[cur] = "assigned"
      BY <2>4 DEF Tkill, CallOK, InCall
    <3>3. PICK t \in Task : t = cur
      BY <3>2
    <3>4. /\ tstate[t] = "assigned" /\ tstate'[t] = "dispatched" /\ wid'[t] = wid[t]
          /\ \A u \in Task : u # t => tstate'[u] = tstate[u] /\ wid'[u] = wid[u]
      BY <2>4, <3>1, <3>2, <3>3 DEF Tkill, TaskType
    <3> QED BY <3>1, <3>4, OneTaskStays
  <2> QED BY <1>3, <2>1, <2>2, <2>3, <2>4 DEF Returns
<1> QED BY <1>1, <1>2, <1>3 DEF ClientStep

LEMMA WorkerMaps ==
  ASSUME IndInv, DispatchedOK, NEW w \in Worker, WorkerStep(w)
  PROVE  Seen \/ Invisible
<1> USE DEF IndInv, Inv1, Inv2, TypeOK
<1>1. CASE Call(w)
  BY <1>1, CallMaps DEF Seen
<1>2. CASE RequeueReturn(w)
  BY <1>2, RequeueReturnMaps DEF Seen
<1>3. CASE Requeue(w)
  <2>1. Enqueue(w, w) /\ UNCHANGED <<tstate, wid, runs>>
    BY <1>3 DEF Requeue, ThreadOK, taskVars
  <2>2. Queue' = Queue /\ \A v \in Worker : In(v)' <=> In(v)
    BY <2>1, EnqueueKeepsQueue, EnqueueIn
  <2>3. \A v \in Worker : Returning(v)' <=> Returning(v)
    BY <1>3 DEF Requeue, Returning, ThreadType
  <2> QED BY <2>1, <2>2, <2>3, TasksStay
<1>4. CASE ReadId(w) \/ Wake(w) \/ CallReturns(w) \/ ClearBusy(w) \/ ClearSlot(w)
  <2>1. UNCHANGED <<wrk_fifo, wrk_fifo_head, wrk_fifo_size, tstate, wid, runs>>
    BY <1>4 DEF ReadId, Wake, CallReturns, ClearBusy, ClearSlot, fifoVars, taskVars
  <2>2. \A v \in Worker : Returning(v)' <=> Returning(v)
    BY <1>4 DEF ReadId, Wake, CallReturns, ClearBusy, ClearSlot, Returning, ThreadType
  <2> QED BY <2>1, <2>2, SameIn, QueueStays, TasksStay
<1> QED BY <1>1, <1>2, <1>3, <1>4 DEF WorkerStep

LEMMA StepMaps ==
  ASSUME IndInv, DispatchedOK, [Next]_vars
  PROVE  [Contract!Next]_(Contract!vars)
<1>1. CASE UNCHANGED vars
  <2>1. UNCHANGED <<wrk_fifo, wrk_fifo_head, wrk_fifo_size, tstate, wid, runs, wpc>>
    BY <1>1 DEF vars, taskVars, fifoVars, threadVars
  <2>2. Invisible
    BY <2>1, SameIn, QueueStays, TasksStay DEF Returning
  <2> QED BY <2>2 DEF Invisible, Contract!vars, Queue, Duties, Jobs, Ran
<1>2. CASE Seen \/ Invisible
  BY <1>2 DEF Seen, Invisible, Contract!Next, Contract!vars, Queue, Duties, Jobs, Ran
<1>3. Next => (Seen \/ Invisible) \/ UNCHANGED vars
  BY CreateMaps, ClientMaps, WorkerMaps DEF Next, Quiet
<1> QED BY <1>1, <1>2, <1>3

LEMMA InitMaps == Init => Contract!Init
<1> SUFFICES ASSUME Init PROVE Contract!Init
  OBVIOUS
<1>1. Queue = <<>>
  BY DEF Init, Queue
<1>2. \A w \in Worker : DutyOf(w) = "new"
  <2> SUFFICES ASSUME NEW w \in Worker PROVE DutyIn(w) = "new"
    BY DutyIs
  <2>1. ~In(w)
    BY PoolAssumption DEF Init, In, InRing, Worker
  <2> QED BY <2>1 DEF Init, DutyIn, Returning, HasJob, HasPromise
<1>3. Jobs = [t \in Task |-> -1] /\ Ran = {}
  BY DEF Init, Jobs, Ran
<1> QED BY <1>1, <1>2, <1>3 DEF Contract!Init, Queue, Jobs, Ran

(* The pool keeps its contract: workers are handed out in the order they    *)
(* arrived (bkwrk.c:13-44), each task goes to one worker (bkwrk.c:84-100),  *)
(* which runs it once and only then waits again (bkwrk.c:46-82).            *)
THEOREM PoolKeepsItsContract == Spec => ContractSpec
<1>1. Spec => []IndInv /\ []DispatchedOK
  BY IndInvHolds, DispatchedHolds
<1> QED BY <1>1, InitMaps, StepMaps, PTL DEF Spec, ContractSpec, Contract!Spec
=============================================================================
