------------------------- MODULE ForkJoinPoolProofs -------------------------
(***************************************************************************)
(* The safety invariants of ForkJoinPool, proved for every finite set of   *)
(* workers, every size of the table and every n.                           *)
(*                                                                         *)
(* The invariant has six layers: who holds which lock and who works on     *)
(* which task (ControlInv); how many workers are on their way to the table *)
(* (WakeupInv); which children are counted and have reported (CountInv);   *)
(* what is left when the pool shuts down (QuietInv); what a completed task *)
(* holds and why the process may leave its tables (ValueInv); when         *)
(* completion_cond is signalled (OpenInv).                                 *)
(*                                                                         *)
(* ValueInv needs that fib is what its recursive equation says.  No prover *)
(* instantiates the operator parameter of the library's induction          *)
(* theorems; the induction is done by minimal counterexamples instead.     *)
(***************************************************************************)
EXTENDS ForkJoinPool, FiniteSetTheorems, TLAPS

WorkerPc == {"lock", "wait", "found", "run", "fork", "forked", "join", "asleep", "joined",
             "store", "stored", "exited"}
MainPc == {"fork", "forked", "join", "asleep", "joined", "shutdown", "join workers", "destroyed"}
WorkPc == {"run", "fork", "forked", "join", "asleep", "joined", "store"}
SplitPc == {"fork", "forked", "join", "asleep", "joined"}
Holding == {"forked", "found"}

PcOK == /\ pc[Main] \in MainPc /\ step[Main] = 1
        /\ \A w \in Workers : pc[w] \in WorkerPc

(* pool_lock is held between two steps by a fork and by get_next_task, a    *)
(* task's lock by the worker that reports it.                               *)
PoolLockOK == \A th \in Thread : pc[th] \in Holding <=> pool_lock = th
TaskLockOK == \A t \in Task, w \in Workers :
                lock[t] = w <=> (pc[w] = "stored" /\ task[w] = t)

(* The status of a task says what its worker is doing. *)
RangeOK == \A t \in Task : status[t] # "FAILED" /\ (status[t] # "WAITING" => t \in Forked)

WorkerOK ==
  \A w \in Workers :
    /\ pc[w] \in WorkPc => task[w] \in Task /\ status[task[w]] = "RUNNING"
    /\ pc[w] = "found" => task[w] \in Waiting
    /\ pc[w] = "stored" => /\ task[w] \in Task /\ status[task[w]] = "COMPLETED"
                           /\ parent_id[task[w]] # NULL

RunnerOK == \A t \in Task : status[t] = "RUNNING" => \E w \in Workers : pc[w] \in WorkPc /\ task[w] = t

SoleOK == \A v, w \in Workers : pc[v] \in WorkPc /\ pc[w] \in WorkPc /\ task[v] = task[w] => v = w

(* Arguments stay natural numbers, and so do results. *)
ArgOK == \A t \in Forked : arg[t] \in Nat
SplitOK == \A w \in Workers : pc[w] \in SplitPc => arg[task[w]] >= 2
StoreOK == \A w \in Workers : pc[w] = "store" =>
             \/ res[w][1] = NULL /\ res[w][2] = NULL
             \/ res[w][1] \in Nat /\ res[w][2] \in Nat

StatusOK == RangeOK /\ WorkerOK /\ RunnerOK /\ SoleOK
NumberOK == ArgOK /\ SplitOK /\ StoreOK
ControlInv == TypeOK /\ PcOK /\ PoolLockOK /\ TaskLockOK /\ StatusOK /\ NumberOK

-----------------------------------------------------------------------------
(* Steps that change nobody's part *)

(* A thread stays where it is or is woken. *)
Woken(v) == \/ pc'[v] = pc[v]
            \/ pc[v] = "wait" /\ pc'[v] = "lock"
            \/ pc[v] = "asleep" /\ pc'[v] = "join"

(* A thread keeps its part: the locks it holds and the task it works on. *)
SamePart(v) == /\ pc'[v] \in Holding <=> pc[v] \in Holding
               /\ pc'[v] = "found" <=> pc[v] = "found"
               /\ pc'[v] = "stored" <=> pc[v] = "stored"
               /\ pc'[v] \in WorkPc <=> pc[v] \in WorkPc
               /\ pc'[v] \in SplitPc <=> pc[v] \in SplitPc
               /\ pc'[v] = "store" <=> pc[v] = "store"

SameTable == /\ UNCHANGED <<status, arg, parent_id, child_count, completed_children, lock>>
             /\ Forked' = Forked

Neutral == /\ SameTable /\ UNCHANGED <<pool_lock, task>>
           /\ pc'[Main] \in Holding <=> pc[Main] \in Holding
           /\ \A w \in Workers : SamePart(w)
           /\ \A w \in Workers : pc[w] = "store" => res'[w] = res[w]

LEMMA Basics ==
  /\ Main \in Thread /\ Workers \subseteq Thread /\ Main \notin Workers
  /\ Nobody \notin Thread /\ Nobody \notin Workers
  /\ Task \subseteq Nat /\ NULL \notin Nat /\ NULL \notin Task
  /\ IsFiniteSet(Task) /\ IsFiniteSet(Workers)
<1>1. IsFiniteSet(Task)
  BY ForkJoinAssumption, FS_Interval DEF Task
<1> QED
  BY <1>1, ForkJoinAssumption DEF Thread, Task, NULL

LEMMA WokenKeepsPart == ASSUME NEW v, Woken(v) PROVE SamePart(v)
BY DEF Woken, SamePart, Holding, WorkPc, SplitPc

LEMMA NeutralStep ==
  ASSUME ControlInv, Neutral
  PROVE  PoolLockOK' /\ TaskLockOK' /\ StatusOK' /\ NumberOK'
<1> USE Basics DEF Neutral, SameTable
<1>1. Waiting' = Waiting
  BY DEF Waiting
<1>2. PoolLockOK'
  BY DEF ControlInv, PoolLockOK, SamePart, Thread
<1>3. TaskLockOK'
  BY DEF ControlInv, TaskLockOK, SamePart
<1>4. RangeOK'
  BY DEF ControlInv, StatusOK, RangeOK
<1>5. WorkerOK'
  BY <1>1 DEF ControlInv, StatusOK, WorkerOK, SamePart
<1>6. RunnerOK' /\ SoleOK'
  BY DEF ControlInv, StatusOK, RunnerOK, SoleOK, SamePart
<1>7. ArgOK' /\ SplitOK' /\ StoreOK'
  BY DEF ControlInv, NumberOK, ArgOK, SplitOK, StoreOK, SamePart
<1> QED
  BY <1>2, <1>3, <1>4, <1>5, <1>6, <1>7 DEF StatusOK, NumberOK

-----------------------------------------------------------------------------
(* Where the threads go *)

Others(th) == \A v \in Thread : v # th => Woken(v)

LEMMA ForkFailsMoves ==
  ASSUME TypeOK, NEW th \in Thread, ForkFails(th)
  PROVE  pc[th] = "fork" /\ pc'[th] \in {"fork", "join"} /\ Others(th)
BY DEF ForkFails, ForkedOne, TypeOK, Others, Woken

LEMMA ForkMoves ==
  ASSUME TypeOK, NEW th \in Thread, Fork(th)
  PROVE  pc[th] = "fork" /\ pc'[th] = "forked" /\ \A v \in Thread : v # th => pc'[v] = pc[v]
BY DEF Fork, TypeOK

(* At most one worker is signalled. *)
LEMMA ForkSignalMoves ==
  ASSUME TypeOK, NEW th \in Thread, ForkSignal(th)
  PROVE  /\ pc[th] = "forked" /\ pc'[th] \in {"fork", "join"}
         /\ \/ Asleep = {} /\ \A v \in Thread : v # th => pc'[v] = pc[v]
            \/ \E w \in Asleep : /\ pc'[w] = "lock"
                                 /\ \A v \in Thread : v \notin {th, w} => pc'[v] = pc[v]
<1> USE Basics
<1>1. pc[th] = "forked" /\ th \notin Asleep
  BY DEF ForkSignal, Asleep
<1>2. ForkedOne(th)[1] \in {"fork", "join"}
  BY DEF ForkedOne
<1>3. CASE Asleep = {}
  <2>1. pc' = [pc EXCEPT ![th] = ForkedOne(th)[1]]
    BY <1>3 DEF ForkSignal
  <2> QED
    BY <1>1, <1>2, <1>3, <2>1 DEF TypeOK
<1>4. CASE Asleep # {}
  <2>1. PICK w \in Asleep : pc' = [[pc EXCEPT ![th] = ForkedOne(th)[1]] EXCEPT ![w] = "lock"]
    BY <1>4 DEF ForkSignal
  <2>2. w \in Thread /\ w # th
    BY <1>1 DEF Asleep
  <2> QED
    BY <1>1, <1>2, <2>1, <2>2 DEF TypeOK
<1> QED
  BY <1>3, <1>4

LEMMA JoinReturnsMoves ==
  ASSUME TypeOK, NEW th \in Thread, JoinReturns(th)
  PROVE  pc[th] = "join" /\ pc'[th] \in {"join", "joined"} /\ Others(th)
BY DEF JoinReturns, TypeOK, Others, Woken

LEMMA ReportMoves ==
  ASSUME TypeOK, NEW w \in Workers, Report(w)
  PROVE  /\ pc[w] = "stored" /\ pc'[w] = "lock" /\ Others(w)
         /\ \A v \in Workers : pc[v] = "wait" => pc'[v] = "wait"
<1> USE Basics
<1>1. pc[w] = "stored" /\ w \in Thread
  BY DEF Report
<1> DEFINE p == parent_id[task[w]]
           on == [pc EXCEPT ![w] = "lock"]
<1>2. \/ pc' = on
      \/ \E th \in Joiners(p) : pc' = [on EXCEPT ![th] = "join"]
  BY DEF Report
<1>3. on \in [Thread -> Pc] /\ on[w] = "lock" /\ \A v \in Thread : v # w => on[v] = pc[v]
  BY <1>1 DEF TypeOK, Pc
<1>4. CASE pc' = on
  BY <1>1, <1>3, <1>4 DEF Others, Woken
<1>5. ASSUME NEW th \in Joiners(p), pc' = [on EXCEPT ![th] = "join"]
      PROVE  pc'[w] = "lock" /\ Others(w) /\ \A v \in Workers : pc[v] = "wait" => pc'[v] = "wait"
  <2>1. th \in Thread /\ pc[th] = "asleep"
    BY DEF Joiners
  <2> HIDE DEF on
  <2> QED
    BY <1>1, <1>3, <1>5, <2>1 DEF Others, Woken
<1> QED
  BY <1>1, <1>2, <1>3, <1>4, <1>5

-----------------------------------------------------------------------------
(* The steps that are neutral *)

LEMMA NeutralIf ==
  ASSUME SameTable, UNCHANGED <<pool_lock, task>>,
         NEW th \in Thread, SamePart(th), Others(th),
         th \in Workers /\ pc[th] = "store" => res'[th] = res[th],
         \A w \in Workers : w # th => res'[w] = res[w]
  PROVE  Neutral
<1>1. \A v \in Thread : SamePart(v)
  BY WokenKeepsPart DEF Others
<1> QED
  BY <1>1, Basics DEF Neutral, SamePart

LEMMA Kept == ASSUME UNCHANGED <<tableVars, lock, task_count>> PROVE SameTable
BY DEF SameTable, Forked, tableVars

LEMMA ForkFailsNeutral ==
  ASSUME ControlInv, NEW th \in Thread, ForkFails(th)
  PROVE  Neutral
<1>1. SamePart(th) /\ Others(th) /\ pc[th] # "store"
  BY ForkFailsMoves DEF ControlInv, SamePart, Holding, WorkPc, SplitPc
<1>2. Forked' = Forked
  BY ForkJoinAssumption DEF ForkFails, Forked, Task, ControlInv, TypeOK
<1>3. SameTable /\ UNCHANGED <<pool_lock, task, res>>
  BY <1>2 DEF ForkFails, SameTable, tableVars
<1> QED
  BY <1>1, <1>3, NeutralIf

LEMMA JoinReturnsNeutral ==
  ASSUME ControlInv, NEW th \in Thread, JoinReturns(th)
  PROVE  Neutral
<1>1. SamePart(th) /\ Others(th) /\ pc[th] # "store"
  BY JoinReturnsMoves DEF ControlInv, SamePart, Holding, WorkPc, SplitPc
<1>2. SameTable /\ UNCHANGED <<pool_lock, task>>
  BY Kept DEF JoinReturns, poolVars
<1>3. \A w \in Thread : w # th => res'[w] = res[w]
  BY DEF JoinReturns, ControlInv, TypeOK
<1> QED
  BY <1>1, <1>2, <1>3, NeutralIf, Basics

(* JoinFaults and JoinWaits; the steps of a worker that finds nothing. *)
LEMMA OtherThreadStepsNeutral ==
  ASSUME ControlInv, NEW th \in Thread, JoinFaults(th) \/ JoinWaits(th) \/ SpuriousWakeup(th)
  PROVE  Neutral
<1>1. SameTable /\ UNCHANGED <<pool_lock, task, res>>
  BY Kept DEF JoinFaults, JoinWaits, SpuriousWakeup, poolVars, localVars
<1>2. SamePart(th) /\ Others(th)
  BY DEF JoinFaults, JoinWaits, SpuriousWakeup, ControlInv, TypeOK, Others, Woken, SamePart,
         Holding, WorkPc, SplitPc
<1> QED
  BY <1>1, <1>2, NeutralIf

LEMMA IdleStepsNeutral ==
  ASSUME ControlInv, NEW w \in Workers, FindNoTask(w) \/ ScanFaults(w)
  PROVE  Neutral
<1>1. SameTable /\ UNCHANGED <<pool_lock, task, res>>
  BY Kept DEF FindNoTask, ScanFaults, poolVars, localVars
<1>2. SamePart(w) /\ Others(w)
  BY Basics DEF FindNoTask, ScanFaults, SleepOrExit, ControlInv, TypeOK, Others, Woken, SamePart,
         Holding, WorkPc, SplitPc
<1> QED
  BY <1>1, <1>2, NeutralIf, Basics

LEMMA MainStepsNeutral ==
  ASSUME ControlInv, ShowResult \/ Shutdown \/ Destroy
  PROVE  Neutral
<1>1. SameTable /\ UNCHANGED <<pool_lock, task, res>>
  BY Kept DEF ShowResult, Shutdown, Destroy, poolVars, localVars
<1>2. \A v \in Workers : Woken(v)
  BY Basics DEF ShowResult, Shutdown, Destroy, ControlInv, TypeOK, Woken, Asleep
<1>3. pc[Main] \notin Holding \cup {"stored", "store", "found"} /\ pc'[Main] \notin Holding \cup {"stored", "store", "found"}
  BY Basics DEF ShowResult, Shutdown, Destroy, ControlInv, TypeOK, Holding
<1>4. \A v \in Workers : SamePart(v)
  BY <1>2, WokenKeepsPart
<1> QED
  BY <1>1, <1>3, <1>4 DEF Neutral

-----------------------------------------------------------------------------
(* Types *)

LEMMA ForkFailsType ==
  ASSUME ControlInv, NEW th \in Thread, ForkFails(th)
  PROVE  TypeOK' /\ PcOK'
<1> USE Basics
<1>1. pc' \in [Thread -> Pc] /\ step' \in [Thread -> 1 .. 2] /\ step'[Main] = 1 /\ task_count' \in Nat
  <2>1. pc' = [pc EXCEPT ![th] = ForkedOne(th)[1]] /\ step' = [step EXCEPT ![th] = ForkedOne(th)[2]]
    BY DEF ForkFails
  <2>2. /\ ForkedOne(th)[1] \in Pc /\ ForkedOne(th)[2] \in 1 .. 2
        /\ th = Main => ForkedOne(th)[2] = 1
    BY DEF ForkedOne, Pc
  <2>3. task_count' \in Nat
    BY DEF ForkFails, ControlInv, TypeOK
  <2> QED
    BY <2>1, <2>2, <2>3 DEF ControlInv, TypeOK, PcOK
<1>2. child' \in [Thread -> [1 .. 2 -> Maybe(Task)]]
  BY DEF ForkFails, ControlInv, TypeOK, Maybe
<1>3. PcOK'
  BY <1>1, ForkFailsMoves DEF ControlInv, PcOK, Others, Woken, WorkerPc, MainPc
<1> QED
  BY <1>1, <1>2, <1>3 DEF ForkFails, ControlInv, TypeOK, config, tableVars

LEMMA ForkType ==
  ASSUME ControlInv, NEW th \in Thread, Fork(th)
  PROVE  TypeOK' /\ PcOK'
<1> USE Basics
<1>1. task_count \in Task /\ step[th] \in 1 .. 2 /\ task_count' \in Nat
  BY ForkJoinAssumption DEF Fork, ControlInv, TypeOK, Task
<1>2. ParentOf(th) \in Maybe(Task)
  BY DEF ParentOf, ControlInv, TypeOK, Maybe, Thread
<1>3. (IF th = Main THEN n ELSE arg[task[th]] - step[th]) \in Nat
  <2>1. CASE th = Main
    BY <2>1 DEF ControlInv, TypeOK
  <2>2. CASE th # Main
    <3>1. th \in Workers /\ pc[th] = "fork"
      BY <2>2 DEF Thread, Fork
    <3>2. arg[task[th]] >= 2 /\ arg[task[th]] \in Nat
      BY <3>1 DEF ControlInv, NumberOK, SplitOK, SplitPc, ArgOK, StatusOK, WorkerOK, RangeOK, WorkPc
    <3> QED
      BY <1>1, <2>2, <3>2
  <2> QED
    BY <2>1, <2>2
<1>4. /\ arg' \in [Task -> Maybe(Nat)] /\ result' \in [Task -> Maybe(Nat)]
      /\ parent_id' \in [Task -> Maybe(Task)]
  BY <1>1, <1>2, <1>3 DEF Fork, ControlInv, TypeOK, Maybe
<1>5. /\ status' \in [Task -> {"WAITING", "RUNNING", "COMPLETED", "FAILED"}]
      /\ child_count' \in [Task -> Nat] /\ completed_children' \in [Task -> Nat]
  BY DEF Fork, ControlInv, TypeOK
<1>6. child' \in [Thread -> [1 .. 2 -> Maybe(Task)]]
  BY <1>1 DEF Fork, ControlInv, TypeOK, Maybe
<1>7. pc' \in [Thread -> Pc] /\ pool_lock' \in Thread \cup {Nobody}
  BY DEF Fork, ControlInv, TypeOK, Pc
<1>8. PcOK'
  BY ForkMoves DEF ControlInv, Fork, PcOK, WorkerPc, MainPc
<1> QED
  BY <1>1, <1>4, <1>5, <1>6, <1>7, <1>8 DEF Fork, ControlInv, TypeOK, config

LEMMA ForkSignalType ==
  ASSUME ControlInv, NEW th \in Thread, ForkSignal(th)
  PROVE  TypeOK' /\ PcOK'
<1> USE Basics
<1>1. step' \in [Thread -> 1 .. 2] /\ step'[Main] = 1
  BY DEF ForkSignal, ForkedOne, ControlInv, TypeOK, PcOK
<1>2. child_count' \in [Task -> Nat]
  BY DEF ForkSignal, ControlInv, TypeOK
<1>3. pc' \in [Thread -> Pc]
  <2>1. [pc EXCEPT ![th] = ForkedOne(th)[1]] \in [Thread -> Pc]
    BY DEF ForkedOne, ControlInv, TypeOK, Pc
  <2> DEFINE on == [pc EXCEPT ![th] = ForkedOne(th)[1]]
  <2>2. pc' = on \/ \E w \in Asleep : pc' = [on EXCEPT ![w] = "lock"]
    BY DEF ForkSignal
  <2>3. on \in [Thread -> Pc]
    BY <2>1
  <2> HIDE DEF on
  <2> QED
    BY <2>2, <2>3 DEF Pc
<1>4. PcOK'
  BY <1>1, ForkSignalMoves DEF ControlInv, PcOK, WorkerPc, MainPc, Asleep
<1> QED
  BY <1>1, <1>2, <1>3, <1>4 DEF ForkSignal, ControlInv, TypeOK, config, poolVars

LEMMA JoinReturnsType ==
  ASSUME ControlInv, NEW th \in Thread, JoinReturns(th)
  PROVE  TypeOK' /\ PcOK'
<1> USE Basics
<1>1. /\ pc' \in [Thread -> Pc] /\ step' \in [Thread -> 1 .. 2] /\ step'[Main] = 1
  <2>1. /\ (IF th # Main /\ step[th] = 1 THEN "join" ELSE "joined") \in Pc
        /\ (IF th # Main /\ step[th] = 1 THEN 2 ELSE 1) \in 1 .. 2
    BY DEF Pc
  <2>2. /\ step' = [step EXCEPT ![th] = IF th # Main /\ step[th] = 1 THEN 2 ELSE 1]
        /\ pc' = [pc EXCEPT ![th] = IF th # Main /\ step[th] = 1 THEN "join" ELSE "joined"]
    BY DEF JoinReturns, ControlInv, TypeOK
  <2> QED
    BY <2>1, <2>2 DEF ControlInv, TypeOK, PcOK
<1>2. Joined(th) \in Task
  BY DEF JoinReturns, Joined, ControlInv, TypeOK, Maybe
<1>3. res' \in [Thread -> [1 .. 2 -> Maybe(Nat)]]
  BY <1>2 DEF JoinReturns, ControlInv, TypeOK
<1>4. PcOK'
  BY <1>1, JoinReturnsMoves DEF ControlInv, PcOK, Others, Woken, WorkerPc, MainPc
<1> QED
  BY <1>1, <1>3, <1>4 DEF JoinReturns, ControlInv, TypeOK, config, tableVars, poolVars

LEMMA OtherThreadStepsType ==
  ASSUME ControlInv, NEW th \in Thread, JoinFaults(th) \/ JoinWaits(th) \/ SpuriousWakeup(th)
  PROVE  TypeOK' /\ PcOK'
<1> USE Basics
<1>1. pc' \in [Thread -> Pc] /\ undefined' \in BOOLEAN /\ UNCHANGED <<config, tableVars, lock, poolVars, pool_lock, localVars>>
  BY DEF JoinFaults, JoinWaits, SpuriousWakeup, ControlInv, TypeOK, Pc
<1>2. PcOK'
  BY ZenonT(60) DEF JoinFaults, JoinWaits, SpuriousWakeup, ControlInv, PcOK, TypeOK, WorkerPc, MainPc, localVars
<1> QED
  BY <1>1, <1>2 DEF ControlInv, TypeOK, config, tableVars, poolVars, localVars

LEMMA IdleStepsType ==
  ASSUME ControlInv, NEW w \in Workers, FindNoTask(w) \/ ScanFaults(w)
  PROVE  TypeOK' /\ PcOK'
<1> USE Basics
<1>1. /\ pc' \in [Thread -> Pc] /\ undefined' \in BOOLEAN
      /\ UNCHANGED <<config, tableVars, lock, poolVars, pool_lock, localVars>>
  BY DEF FindNoTask, ScanFaults, SleepOrExit, ControlInv, TypeOK, Pc
<1>2. PcOK'
  BY DEF FindNoTask, ScanFaults, SleepOrExit, ControlInv, PcOK, TypeOK, WorkerPc, MainPc, localVars
<1> QED
  BY <1>1, <1>2 DEF ControlInv, TypeOK, config, tableVars, poolVars, localVars

LEMMA FindTaskType ==
  ASSUME ControlInv, NEW w \in Workers, FindTask(w)
  PROVE  TypeOK' /\ PcOK'
<1> USE Basics
<1>1. pc' = [pc EXCEPT ![w] = "found"] /\ pool_lock' = w
  BY DEF FindTask
<1>2. task' \in [Workers -> Maybe(Task)]
  BY DEF FindTask, ControlInv, TypeOK, Maybe
<1>3. pc' \in [Thread -> Pc] /\ pool_lock' \in Thread \cup {Nobody}
  BY <1>1 DEF ControlInv, TypeOK, Pc
<1>4. PcOK'
  BY <1>1 DEF FindTask, ControlInv, TypeOK, PcOK, WorkerPc
<1> QED
  BY <1>2, <1>3, <1>4 DEF FindTask, ControlInv, TypeOK, config, tableVars, poolVars

LEMMA MarkRunningType ==
  ASSUME ControlInv, NEW w \in Workers, MarkRunning(w)
  PROVE  TypeOK' /\ PcOK'
<1> USE Basics
<1>1. pc' = [pc EXCEPT ![w] = "run"] /\ pc' \in [Thread -> Pc] /\ pool_lock' \in Thread \cup {Nobody}
  BY DEF MarkRunning, ControlInv, TypeOK, Pc
<1>2. status' \in [Task -> {"WAITING", "RUNNING", "COMPLETED", "FAILED"}]
  BY DEF MarkRunning, ControlInv, TypeOK
<1>3. PcOK'
  BY <1>1 DEF MarkRunning, ControlInv, TypeOK, PcOK, WorkerPc, localVars
<1> QED
  BY <1>1, <1>2, <1>3 DEF MarkRunning, ControlInv, TypeOK, config, poolVars, localVars

LEMMA WorkingArg ==
  ASSUME ControlInv, NEW w \in Workers, pc[w] \in WorkPc
  PROVE  task[w] \in Forked /\ task[w] \in Task /\ arg[task[w]] \in Nat /\ status[task[w]] = "RUNNING"
BY DEF ControlInv, StatusOK, WorkerOK, RangeOK, NumberOK, ArgOK

(* What Run and RunFails make of w's results. *)
LEMMA RunMoves ==
  ASSUME ControlInv, NEW w \in Workers, Run(w) \/ RunFails(w)
  PROVE  /\ pc[w] = "run"
         /\ \/ pc' = [pc EXCEPT ![w] = "fork"] /\ arg[task[w]] >= 2 /\ res' = res
            \/ /\ pc' = [pc EXCEPT ![w] = "store"]
               /\ res' = [res EXCEPT ![w] = [k \in 1 .. 2 |-> NULL]]
            \/ /\ pc' = [pc EXCEPT ![w] = "store"] /\ arg[task[w]] <= 1
               /\ res' = [res EXCEPT ![w] = [k \in 1 .. 2 |-> IF k = 1 THEN arg[task[w]] ELSE 0]]
<1>1. pc[w] = "run"
  BY DEF Run, RunFails
<1>2. arg[task[w]] \in Nat
  BY <1>1, WorkingArg DEF WorkPc
<1>3. CASE Run(w) /\ arg[task[w]] <= 1
  BY <1>1, <1>3 DEF Run
<1>4. CASE Run(w) /\ ~ (arg[task[w]] <= 1)
  <2>1. pc' = [pc EXCEPT ![w] = "fork"] /\ res' = res
    BY <1>4 DEF Run
  <2> QED
    BY <1>1, <1>2, <1>4, <2>1
<1>5. CASE RunFails(w)
  BY <1>1, <1>5 DEF RunFails
<1> QED
  BY <1>3, <1>4, <1>5

LEMMA RunType ==
  ASSUME ControlInv, NEW w \in Workers, Run(w) \/ RunFails(w)
  PROVE  TypeOK' /\ PcOK'
<1> USE Basics
<1>1. arg[task[w]] \in Nat
  BY RunMoves, WorkingArg DEF WorkPc
<1>2. pc' \in [Thread -> Pc] /\ pc'[w] \in WorkerPc /\ \A v \in Thread : v # w => pc'[v] = pc[v]
  <2>1. PICK l \in {"fork", "store"} : pc' = [pc EXCEPT ![w] = l]
    BY RunMoves
  <2> QED
    BY <2>1 DEF ControlInv, TypeOK, Pc, WorkerPc
<1>3. res' \in [Thread -> [1 .. 2 -> Maybe(Nat)]]
  <2>1. [k \in 1 .. 2 |-> NULL] \in [1 .. 2 -> Maybe(Nat)]
    BY DEF Maybe
  <2>2. [k \in 1 .. 2 |-> IF k = 1 THEN arg[task[w]] ELSE 0] \in [1 .. 2 -> Maybe(Nat)]
    BY <1>1 DEF Maybe
  <2>3. res' = res \/ \E f \in [1 .. 2 -> Maybe(Nat)] : res' = [res EXCEPT ![w] = f]
    BY RunMoves, <2>1, <2>2
  <2> QED
    BY <2>3 DEF ControlInv, TypeOK
<1>4. UNCHANGED <<config, tableVars, lock, poolVars, pool_lock, task, step, child, undefined>>
  BY DEF Run, RunFails
<1>5. PcOK'
  BY <1>2, <1>4 DEF ControlInv, PcOK
<1> QED
  BY <1>2, <1>3, <1>4, <1>5 DEF ControlInv, TypeOK, config, tableVars, poolVars

LEMMA SumType ==
  ASSUME ControlInv, NEW w \in Workers, Sum(w)
  PROVE  TypeOK' /\ PcOK'
<1> USE Basics
<1>1. /\ pc' \in [Thread -> Pc] /\ undefined' \in BOOLEAN
      /\ \A v \in Thread : pc'[v] = pc[v] \/ (v = w /\ pc'[v] = "store")
  <2>1. \/ pc' = [pc EXCEPT ![w] = "store"] /\ undefined' = undefined
        \/ pc' = pc /\ undefined' = TRUE
    BY DEF Sum
  <2>2. pc' = [pc EXCEPT ![w] = "store"] \/ pc' = pc
    BY <2>1
  <2>3. undefined' \in BOOLEAN
    BY <2>1, Zenon DEF ControlInv, TypeOK
  <2>4. /\ pc' \in [Thread -> Pc]
        /\ \A v \in Thread : pc'[v] = pc[v] \/ (v = w /\ pc'[v] = "store")
    BY <2>2 DEF ControlInv, TypeOK, Pc
  <2> QED
    BY <2>3, <2>4
<1>2. UNCHANGED <<config, tableVars, lock, poolVars, pool_lock, localVars>>
  BY DEF Sum
<1>3. PcOK'
  BY <1>1, <1>2 DEF ControlInv, PcOK, WorkerPc, localVars
<1> QED
  BY <1>1, <1>2, <1>3 DEF ControlInv, TypeOK, config, tableVars, poolVars, localVars

LEMMA StoreType ==
  ASSUME ControlInv, NEW w \in Workers, Store(w)
  PROVE  TypeOK' /\ PcOK'
<1> USE Basics
<1>1. pc[w] = "store" /\ task[w] \in Task
  BY WorkingArg DEF Store, WorkPc
<1>2. Value(w) \in Maybe(Nat)
  BY <1>1 DEF Value, Maybe, ControlInv, NumberOK, StoreOK
<1>3. /\ result' \in [Task -> Maybe(Nat)]
      /\ status' \in [Task -> {"WAITING", "RUNNING", "COMPLETED", "FAILED"}]
  BY <1>2 DEF Store, ControlInv, TypeOK
<1>4. pc' \in [Thread -> Pc] /\ pc'[w] \in {"lock", "stored"} /\ \A v \in Thread : v # w => pc'[v] = pc[v]
  <2>1. PICK next \in {"lock", "stored"} : pc' = [pc EXCEPT ![w] = next]
    BY DEF Store
  <2>2. pc \in [Thread -> Pc] /\ next \in Pc /\ w \in Thread
    BY DEF ControlInv, TypeOK, Pc
  <2> QED
    BY <2>1, <2>2
<1>5. lock' \in [Task -> Workers \cup {Nobody}]
  BY DEF Store, ControlInv, TypeOK
<1>6. UNCHANGED <<config, arg, parent_id, child_count, completed_children, poolVars, pool_lock, localVars, undefined>>
  BY DEF Store
<1>7. PcOK'
  BY <1>4, <1>6 DEF ControlInv, PcOK, WorkerPc, localVars
<1> QED
  BY <1>3, <1>4, <1>5, <1>6, <1>7 DEF ControlInv, TypeOK, config, poolVars, localVars

LEMMA ReportType ==
  ASSUME ControlInv, NEW w \in Workers, Report(w)
  PROVE  TypeOK' /\ PcOK'
<1> USE Basics
<1>1. pc' \in [Thread -> Pc]
  <2> DEFINE on == [pc EXCEPT ![w] = "lock"]
  <2>1. on \in [Thread -> Pc]
    BY DEF ControlInv, TypeOK, Pc
  <2>2. pc' = on \/ \E th \in Thread : pc' = [on EXCEPT ![th] = "join"]
    BY DEF Report, Joiners
  <2> HIDE DEF on
  <2> QED
    BY <2>1, <2>2 DEF Pc
<1>2. completed_children' \in [Task -> Nat]
  <2>1. PICK p \in Task : p = parent_id[task[w]]
    BY DEF Report, ControlInv, TypeOK, StatusOK, WorkerOK, Maybe
  <2>2. completed_children \in [Task -> Nat]
    BY Zenon DEF ControlInv, TypeOK
  <2>3. completed_children[p] \in Nat
    BY <2>2, Zenon
  <2>4. PICK k \in Nat : k = completed_children[p] + 1
    BY <2>3
  <2>5. completed_children' = [completed_children EXCEPT ![p] = k]
    BY <2>1, <2>4 DEF Report
  <2> QED
    BY <2>2, <2>5, Zenon
<1>3. lock' \in [Task -> Workers \cup {Nobody}]
  BY DEF Report, ControlInv, TypeOK
<1>4. UNCHANGED <<config, status, arg, result, parent_id, child_count, poolVars, pool_lock, localVars, undefined>>
  BY DEF Report
<1>5. PcOK'
  BY <1>4, ReportMoves DEF ControlInv, PcOK, Others, Woken, WorkerPc, MainPc, localVars
<1> QED
  BY <1>1, <1>2, <1>3, <1>4, <1>5 DEF ControlInv, TypeOK, config, poolVars, localVars

LEMMA MainStepsType ==
  ASSUME ControlInv, ShowResult \/ Shutdown \/ Destroy
  PROVE  TypeOK' /\ PcOK'
<1> USE Basics
<1>1. UNCHANGED <<config, tableVars, lock, task_count, pool_lock, localVars>>
  BY DEF ShowResult, Shutdown, Destroy, poolVars
<1>2. /\ pc' \in [Thread -> Pc] /\ pc'[Main] \in MainPc
      /\ \A v \in Workers : pc'[v] = pc[v] \/ pc'[v] = "lock"
  <2>1. pc \in [Thread -> Pc] /\ pc[Main] \in MainPc
    BY DEF ControlInv, TypeOK, PcOK
  <2>2. {"shutdown", "join workers", "destroyed"} \subseteq Pc \cap MainPc /\ "lock" \in Pc
    BY DEF Pc, MainPc
  <2>3. CASE ShowResult
    BY <2>1, <2>2, <2>3 DEF ShowResult
  <2>4. CASE Shutdown
    BY <2>1, <2>2, <2>4 DEF Shutdown
  <2>5. CASE Destroy
    BY <2>1, <2>2, <2>5 DEF Destroy
  <2> QED
    BY <2>3, <2>4, <2>5
<1>3. active' \in BOOLEAN /\ undefined' \in BOOLEAN
  BY DEF ShowResult, Shutdown, Destroy, poolVars, ControlInv, TypeOK
<1>4. PcOK'
  BY <1>1, <1>2 DEF ControlInv, PcOK, WorkerPc, localVars
<1> QED
  BY <1>1, <1>2, <1>3, <1>4 DEF ControlInv, TypeOK, config, tableVars, localVars

-----------------------------------------------------------------------------
(* The control invariants of the steps that are not neutral *)

LEMMA Exclusive ==
  ASSUME ControlInv, NEW v \in Workers, NEW w \in Workers, pc[v] \in WorkPc, pc[w] \in WorkPc, v # w
  PROVE  task[v] # task[w]
BY DEF ControlInv, StatusOK, SoleOK

LEMMA ForkControl ==
  ASSUME ControlInv, NEW th \in Thread, Fork(th)
  PROVE  PoolLockOK' /\ TaskLockOK' /\ StatusOK' /\ NumberOK'
<1> USE Basics
<1>1. /\ task_count \in Task /\ Forked' = Forked \cup {task_count} /\ task_count \notin Forked
      /\ pool_lock = Nobody /\ pool_lock' = th
  BY ForkJoinAssumption DEF Fork, Forked, Task, ControlInv, TypeOK
<1>2. status[task_count] = "WAITING" /\ status' = status
  BY <1>1 DEF Fork, ControlInv, TypeOK, StatusOK, RangeOK
<1>3. /\ pc[th] = "fork" /\ pc'[th] = "forked" /\ \A v \in Thread : v # th => pc'[v] = pc[v]
  BY ForkMoves DEF ControlInv
<1>4. \A v \in Workers : SamePart(v) \/ v = th
  BY <1>3 DEF SamePart
<1>5. \A v \in Workers : /\ pc'[v] \in WorkPc <=> pc[v] \in WorkPc
                         /\ pc'[v] \in SplitPc <=> pc[v] \in SplitPc
                         /\ pc'[v] = "stored" <=> pc[v] = "stored"
                         /\ pc'[v] = "found" <=> pc[v] = "found"
                         /\ pc'[v] = "store" <=> pc[v] = "store"
  BY <1>3 DEF WorkPc, SplitPc
<1>6. task' = task /\ lock' = lock /\ res' = res
  BY DEF Fork
<1>7. PoolLockOK'
  BY <1>1, <1>3 DEF ControlInv, PoolLockOK, Holding
<1>8. TaskLockOK'
  BY <1>5, <1>6 DEF ControlInv, TaskLockOK
<1>9. RangeOK'
  BY <1>1, <1>2 DEF ControlInv, StatusOK, RangeOK
<1>10. \A t \in Forked : parent_id'[t] = parent_id[t] /\ arg'[t] = arg[t]
  BY <1>1 DEF Fork, ControlInv, TypeOK, Forked
<1>11. Waiting \subseteq Waiting'
  BY <1>1, <1>2 DEF Waiting
<1>12. WorkerOK'
  <2>1. \A t \in Task : status[t] = "COMPLETED" => t \in Forked
    BY DEF ControlInv, StatusOK, RangeOK
  <2>2. WorkerOK
    BY DEF ControlInv, StatusOK
  <2> HIDE DEF ControlInv
  <2>3. \A v \in Workers : pc'[v] = "stored" => parent_id'[task[v]] # NULL
    BY <1>5, <1>10, <2>1, <2>2 DEF WorkerOK
  <2> QED
    BY <1>2, <1>5, <1>6, <1>11, <2>2, <2>3 DEF WorkerOK
<1>13. RunnerOK' /\ SoleOK'
  BY <1>2, <1>5, <1>6 DEF ControlInv, StatusOK, RunnerOK, SoleOK
<1>14. arg'[task_count] \in Nat
  <2>1. arg'[task_count] = IF th = Main THEN n ELSE arg[task[th]] - step[th]
    BY <1>1 DEF Fork, ControlInv, TypeOK
  <2>2. CASE th = Main
    BY <2>1, <2>2 DEF ControlInv, TypeOK
  <2>3. CASE th # Main
    <3>1. th \in Workers /\ step[th] \in 1 .. 2
      BY <2>3 DEF Thread, ControlInv, TypeOK
    <3>2. arg[task[th]] \in Nat
      BY <1>3, <3>1, WorkingArg DEF WorkPc
    <3>3. arg[task[th]] >= 2
      BY <1>3, <3>1 DEF ControlInv, NumberOK, SplitOK, SplitPc
    <3> QED
      BY <2>1, <2>3, <3>1, <3>2, <3>3
  <2> QED
    BY <2>2, <2>3
<1>15. ArgOK'
  BY <1>1, <1>10, <1>14 DEF ControlInv, NumberOK, ArgOK
<1>16. SplitOK'
  <2>1. \A v \in Workers : pc[v] \in SplitPc => task[v] \in Forked
    BY WorkingArg DEF SplitPc, WorkPc
  <2> QED
    BY <1>5, <1>6, <1>10, <2>1 DEF ControlInv, NumberOK, SplitOK
<1>17. StoreOK'
  BY <1>5, <1>6 DEF ControlInv, NumberOK, StoreOK
<1> QED
  BY <1>7, <1>8, <1>9, <1>12, <1>13, <1>15, <1>16, <1>17 DEF StatusOK, NumberOK

(* Neutral but for pool_lock, which th gives back. *)
LEMMA ForkSignalControl ==
  ASSUME ControlInv, NEW th \in Thread, ForkSignal(th)
  PROVE  PoolLockOK' /\ TaskLockOK' /\ StatusOK' /\ NumberOK'
<1> USE Basics
<1>1. /\ pc[th] = "forked" /\ pc'[th] \in {"fork", "join"} /\ Others(th)
  BY ForkSignalMoves DEF ControlInv, Others, Woken, Asleep
<1>2. /\ UNCHANGED <<status, arg, parent_id, lock, task, res>> /\ Forked' = Forked /\ Waiting' = Waiting
      /\ pool_lock = th /\ pool_lock' = Nobody
  BY <1>1 DEF ForkSignal, poolVars, Forked, Waiting, ControlInv, PoolLockOK, Holding
<1>3. \A v \in Workers : /\ pc'[v] \in WorkPc <=> pc[v] \in WorkPc
                         /\ pc'[v] \in SplitPc <=> pc[v] \in SplitPc
                         /\ pc'[v] = "stored" <=> pc[v] = "stored"
                         /\ pc'[v] = "found" <=> pc[v] = "found"
                         /\ pc'[v] = "store" <=> pc[v] = "store"
  BY <1>1 DEF Others, Woken, WorkPc, SplitPc
<1>4. PoolLockOK'
  BY <1>1, <1>2 DEF ControlInv, PoolLockOK, Holding, Others, Woken
<1>5. TaskLockOK'
  BY <1>2, <1>3 DEF ControlInv, TaskLockOK
<1>6. RangeOK' /\ WorkerOK'
  BY <1>2, <1>3 DEF ControlInv, StatusOK, RangeOK, WorkerOK
<1>7. RunnerOK' /\ SoleOK'
  BY <1>2, <1>3 DEF ControlInv, StatusOK, RunnerOK, SoleOK
<1>8. ArgOK' /\ SplitOK' /\ StoreOK'
  BY <1>2, <1>3 DEF ControlInv, NumberOK, ArgOK, SplitOK, StoreOK
<1> QED
  BY <1>4, <1>5, <1>6, <1>7, <1>8 DEF StatusOK, NumberOK

LEMMA FindTaskControl ==
  ASSUME ControlInv, NEW w \in Workers, FindTask(w)
  PROVE  PoolLockOK' /\ TaskLockOK' /\ StatusOK' /\ NumberOK'
<1> USE Basics
<1>1. /\ pc[w] = "lock" /\ pc'[w] = "found" /\ \A v \in Thread : v # w => pc'[v] = pc[v]
  BY DEF FindTask, ControlInv, TypeOK
<1>2. /\ UNCHANGED <<status, arg, parent_id, lock, res>> /\ Forked' = Forked /\ Waiting' = Waiting
      /\ pool_lock = Nobody /\ pool_lock' = w
  BY DEF FindTask, poolVars, tableVars, Forked, Waiting
<1>3. task'[w] \in Waiting /\ \A v \in Workers : v # w => task'[v] = task[v]
  BY DEF FindTask, IsFirst, ControlInv, TypeOK
<1>4. PoolLockOK'
  BY <1>1, <1>2 DEF ControlInv, PoolLockOK, Holding
<1>5. TaskLockOK'
  BY <1>1, <1>2, <1>3 DEF ControlInv, TaskLockOK
<1>6. RangeOK' /\ WorkerOK'
  BY <1>1, <1>2, <1>3 DEF ControlInv, StatusOK, RangeOK, WorkerOK, WorkPc
<1>7. RunnerOK' /\ SoleOK'
  BY <1>1, <1>2, <1>3 DEF ControlInv, StatusOK, RunnerOK, SoleOK, WorkPc
<1>8. ArgOK' /\ SplitOK' /\ StoreOK'
  BY <1>1, <1>2, <1>3 DEF ControlInv, NumberOK, ArgOK, SplitOK, StoreOK, SplitPc
<1> QED
  BY <1>4, <1>5, <1>6, <1>7, <1>8 DEF StatusOK, NumberOK

LEMMA MarkRunningControl ==
  ASSUME ControlInv, NEW w \in Workers, MarkRunning(w)
  PROVE  PoolLockOK' /\ TaskLockOK' /\ StatusOK' /\ NumberOK'
<1> USE Basics
<1>1. /\ pc[w] = "found" /\ pc'[w] = "run" /\ \A v \in Thread : v # w => pc'[v] = pc[v]
  BY DEF MarkRunning, ControlInv, TypeOK
<1>2. /\ UNCHANGED <<arg, parent_id, lock, task, res>> /\ Forked' = Forked
      /\ pool_lock = w /\ pool_lock' = Nobody
  BY <1>1 DEF MarkRunning, poolVars, localVars, Forked, ControlInv, PoolLockOK, Holding
<1>3. /\ task[w] \in Waiting /\ task[w] \in Task /\ status[task[w]] = "WAITING"
      /\ status'[task[w]] = "RUNNING"
      /\ \A t \in Task : t # task[w] => status'[t] = status[t]
  BY <1>1 DEF MarkRunning, ControlInv, StatusOK, WorkerOK, Waiting, Forked, TypeOK
<1>4. \A v \in Workers : pc[v] = "found" => v = w
  BY <1>1 DEF ControlInv, PoolLockOK, Holding
<1>5. PoolLockOK'
  BY <1>1, <1>2 DEF ControlInv, PoolLockOK, Holding
<1>6. TaskLockOK'
  BY <1>1, <1>2 DEF ControlInv, TaskLockOK
<1>7. RangeOK'
  BY <1>2, <1>3 DEF ControlInv, StatusOK, RangeOK, Waiting
<1>8. WorkerOK'
  <2>1. ASSUME NEW v \in Workers, v # w
        PROVE  /\ pc'[v] \in WorkPc => task'[v] \in Task /\ status'[task'[v]] = "RUNNING"
               /\ pc'[v] # "found"
               /\ pc'[v] = "stored" => /\ task'[v] \in Task /\ status'[task'[v]] = "COMPLETED"
                                       /\ parent_id'[task'[v]] # NULL
    <3>1. pc'[v] = pc[v] /\ task'[v] = task[v] /\ parent_id' = parent_id
      BY <1>1, <1>2, <2>1
    <3>2. WorkerOK
      BY DEF ControlInv, StatusOK
    <3> QED
      BY <1>3, <1>4, <2>1, <3>1, <3>2 DEF WorkerOK
  <2>2. pc'[w] = "run" /\ task'[w] \in Task /\ status'[task'[w]] = "RUNNING"
    BY <1>1, <1>2, <1>3
  <2> QED
    BY <2>1, <2>2 DEF WorkerOK
<1>9. RunnerOK'
  BY <1>1, <1>2, <1>3 DEF ControlInv, StatusOK, RunnerOK, WorkPc
<1>10. SoleOK'
  BY <1>1, <1>2, <1>3 DEF ControlInv, StatusOK, WorkerOK, SoleOK, WorkPc
<1>11. ArgOK' /\ SplitOK' /\ StoreOK'
  BY <1>1, <1>2 DEF ControlInv, NumberOK, ArgOK, SplitOK, StoreOK, SplitPc
<1> QED
  BY <1>5, <1>6, <1>7, <1>8, <1>9, <1>10, <1>11 DEF StatusOK, NumberOK

LEMMA RunControl ==
  ASSUME ControlInv, NEW w \in Workers, Run(w) \/ RunFails(w)
  PROVE  PoolLockOK' /\ TaskLockOK' /\ StatusOK' /\ NumberOK'
<1> USE Basics
<1>1. /\ UNCHANGED <<status, arg, parent_id, lock, pool_lock, task>>
      /\ Forked' = Forked /\ Waiting' = Waiting
  BY DEF Run, RunFails, tableVars, poolVars, Forked, Waiting
<1>2. /\ pc[w] = "run" /\ pc'[w] \in {"fork", "store"} /\ \A v \in Thread : v # w => pc'[v] = pc[v]
  <2>1. PICK l \in {"fork", "store"} : pc' = [pc EXCEPT ![w] = l]
    BY RunMoves
  <2> QED
    BY <2>1, RunMoves DEF ControlInv, TypeOK
<1>3. \A v \in Workers : /\ pc'[v] \in WorkPc <=> pc[v] \in WorkPc
                         /\ pc'[v] \in Holding <=> pc[v] \in Holding
                         /\ pc'[v] = "stored" <=> pc[v] = "stored"
                         /\ pc'[v] = "found" <=> pc[v] = "found"
  BY <1>2 DEF WorkPc, Holding
<1>4. PoolLockOK' /\ TaskLockOK'
  BY <1>1, <1>2, <1>3 DEF ControlInv, PoolLockOK, TaskLockOK, Thread
<1>5. RangeOK' /\ WorkerOK'
  BY <1>1, <1>3 DEF ControlInv, StatusOK, RangeOK, WorkerOK
<1>6. RunnerOK' /\ SoleOK'
  BY <1>1, <1>3 DEF ControlInv, StatusOK, RunnerOK, SoleOK
<1>7. ArgOK'
  BY <1>1 DEF ControlInv, NumberOK, ArgOK
<1>8. SplitOK'
  <2>1. pc'[w] = "fork" => arg[task[w]] >= 2
    BY RunMoves DEF ControlInv, TypeOK
  <2> QED
    BY <1>1, <1>2, <2>1 DEF ControlInv, NumberOK, SplitOK, SplitPc
<1>9. StoreOK'
  <2>1. \A v \in Workers : v # w => res'[v] = res[v]
    BY RunMoves DEF ControlInv, TypeOK
  <2>2. arg[task[w]] \in Nat
    BY <1>2, WorkingArg DEF WorkPc
  <2>3. pc'[w] = "store" =>
          \/ res'[w] = [k \in 1 .. 2 |-> NULL]
          \/ res'[w] = [k \in 1 .. 2 |-> IF k = 1 THEN arg[task[w]] ELSE 0]
    <3>1. pc \in [Thread -> Pc] /\ DOMAIN res = Thread
      BY DEF ControlInv, TypeOK
    <3>2. CASE pc' = [pc EXCEPT ![w] = "fork"]
      BY <3>1, <3>2
    <3>3. CASE res' = [res EXCEPT ![w] = [k \in 1 .. 2 |-> NULL]]
      BY <3>1, <3>3
    <3>4. CASE res' = [res EXCEPT ![w] = [k \in 1 .. 2 |-> IF k = 1 THEN arg[task[w]] ELSE 0]]
      BY <3>1, <3>4
    <3> QED
      BY <3>2, <3>3, <3>4, RunMoves
  <2>4. pc'[w] = "store" => \/ res'[w][1] = NULL /\ res'[w][2] = NULL
                            \/ res'[w][1] \in Nat /\ res'[w][2] \in Nat
    BY <2>2, <2>3
  <2> QED
    BY <1>2, <2>1, <2>4 DEF ControlInv, NumberOK, StoreOK
<1> QED
  BY <1>4, <1>5, <1>6, <1>7, <1>8, <1>9 DEF StatusOK, NumberOK

LEMMA SumControl ==
  ASSUME ControlInv, NEW w \in Workers, Sum(w)
  PROVE  PoolLockOK' /\ TaskLockOK' /\ StatusOK' /\ NumberOK'
<1> USE Basics
<1>1. /\ UNCHANGED <<status, arg, parent_id, lock, pool_lock, task, res>>
      /\ Forked' = Forked /\ Waiting' = Waiting
  BY DEF Sum, tableVars, poolVars, localVars, Forked, Waiting
<1>2. pc[w] = "joined" /\ (pc' = pc \/ pc' = [pc EXCEPT ![w] = "store"])
  BY DEF Sum
<1>3. /\ \A v \in Thread : pc'[v] = pc[v] \/ (v = w /\ pc'[v] = "store")
      /\ pc'[w] = "store" => NULL \notin {res[w][1], res[w][2]}
  BY <1>2 DEF Sum, ControlInv, TypeOK
<1>4. \A v \in Workers : /\ pc'[v] \in WorkPc <=> pc[v] \in WorkPc
                         /\ pc'[v] \in SplitPc => pc[v] \in SplitPc
                         /\ pc'[v] \in Holding <=> pc[v] \in Holding
                         /\ pc'[v] = "stored" <=> pc[v] = "stored"
                         /\ pc'[v] = "found" <=> pc[v] = "found"
  BY <1>2, <1>3 DEF WorkPc, SplitPc, Holding
<1>5. PoolLockOK' /\ TaskLockOK'
  BY <1>1, <1>3, <1>4 DEF ControlInv, PoolLockOK, TaskLockOK, Thread
<1>6. RangeOK' /\ WorkerOK'
  BY <1>1, <1>4 DEF ControlInv, StatusOK, RangeOK, WorkerOK
<1>7. RunnerOK' /\ SoleOK'
  BY <1>1, <1>4 DEF ControlInv, StatusOK, RunnerOK, SoleOK
<1>8. ArgOK' /\ SplitOK'
  BY <1>1, <1>4 DEF ControlInv, NumberOK, ArgOK, SplitOK
<1>9. StoreOK'
  <2>1. res[w][1] \in Nat \cup {NULL} /\ res[w][2] \in Nat \cup {NULL}
    BY DEF ControlInv, TypeOK, Maybe
  <2> QED
    BY <1>1, <1>3, <2>1 DEF ControlInv, NumberOK, StoreOK
<1> QED
  BY <1>5, <1>6, <1>7, <1>8, <1>9 DEF StatusOK, NumberOK

LEMMA StoreMoves ==
  ASSUME ControlInv, NEW w \in Workers, Store(w)
  PROVE  /\ pc[w] = "store" /\ \A v \in Thread : v # w => pc'[v] = pc[v]
         /\ task[w] \in Task /\ task[w] \in Forked /\ status[task[w]] = "RUNNING"
         /\ status'[task[w]] = "COMPLETED" /\ \A t \in Task : t # task[w] => status'[t] = status[t]
         /\ result'[task[w]] = Value(w) /\ \A t \in Task : t # task[w] => result'[t] = result[t]
         /\ lock[task[w]] = Nobody
         /\ UNCHANGED <<arg, parent_id, child_count, completed_children, pool_lock, task, child,
                        step, res, task_count, active, undefined, n, tracked>>
         /\ Forked' = Forked /\ Waiting' = Waiting
         /\ \/ parent_id[task[w]] = NULL /\ pc'[w] = "lock" /\ lock' = lock
            \/ parent_id[task[w]] # NULL /\ pc'[w] = "stored" /\ lock' = [lock EXCEPT ![task[w]] = w]
<1> USE Basics
<1>1. /\ pc[w] = "store" /\ lock[task[w]] = Nobody
      /\ UNCHANGED <<arg, parent_id, child_count, completed_children, pool_lock, task, child,
                     step, res, task_count, active, undefined, n, tracked>>
      /\ status' = [status EXCEPT ![task[w]] = "COMPLETED"]
      /\ result' = [result EXCEPT ![task[w]] = Value(w)]
  BY DEF Store, poolVars, localVars, config
<1>2. task[w] \in Task /\ task[w] \in Forked /\ status[task[w]] = "RUNNING"
  BY <1>1, WorkingArg DEF WorkPc
<1>3. /\ status'[task[w]] = "COMPLETED" /\ \A t \in Task : t # task[w] => status'[t] = status[t]
      /\ result'[task[w]] = Value(w) /\ \A t \in Task : t # task[w] => result'[t] = result[t]
  BY <1>1, <1>2 DEF ControlInv, TypeOK
<1>4. Forked' = Forked /\ Waiting' = Waiting
  BY <1>1, <1>2, <1>3 DEF Forked, Waiting
<1>5. /\ \A v \in Thread : v # w => pc'[v] = pc[v]
      /\ \/ parent_id[task[w]] = NULL /\ pc'[w] = "lock" /\ lock' = lock
         \/ parent_id[task[w]] # NULL /\ pc'[w] = "stored" /\ lock' = [lock EXCEPT ![task[w]] = w]
  <2>1. CASE parent_id[task[w]] = NULL
    <3>1. pc' = [pc EXCEPT ![w] = "lock"] /\ lock' = lock
      BY <2>1 DEF Store
    <3> QED
      BY <2>1, <3>1 DEF ControlInv, TypeOK
  <2>2. CASE parent_id[task[w]] # NULL
    <3>1. pc' = [pc EXCEPT ![w] = "stored"] /\ lock' = [lock EXCEPT ![task[w]] = w]
      BY <2>2 DEF Store
    <3> QED
      BY <2>2, <3>1 DEF ControlInv, TypeOK
  <2> QED
    BY <2>1, <2>2
<1> QED
  BY <1>1, <1>2, <1>3, <1>4, <1>5

LEMMA StoreControl ==
  ASSUME ControlInv, NEW w \in Workers, Store(w)
  PROVE  PoolLockOK' /\ TaskLockOK' /\ StatusOK' /\ NumberOK'
<1> USE Basics
<1>1. pc[w] = "store" /\ pc'[w] \in {"lock", "stored"} /\ \A v \in Thread : v # w => pc'[v] = pc[v]
  BY StoreMoves
<1>2. UNCHANGED <<arg, parent_id, pool_lock, task, res>> /\ Forked' = Forked /\ Waiting' = Waiting
  BY StoreMoves
<1>3. /\ task[w] \in Task /\ task[w] \in Forked /\ status[task[w]] = "RUNNING"
      /\ status'[task[w]] = "COMPLETED" /\ \A t \in Task : t # task[w] => status'[t] = status[t]
  BY StoreMoves
<1>4. \A v \in Workers : v # w /\ pc[v] \in WorkPc => task[v] # task[w]
  BY <1>1, Exclusive DEF WorkPc
<1>5. PoolLockOK'
  BY <1>1, <1>2 DEF ControlInv, PoolLockOK, Holding
<1>6. TaskLockOK'
  <2>1. TaskLockOK /\ lock \in [Task -> Workers \cup {Nobody}]
    BY DEF ControlInv, TypeOK
  <2>2. CASE pc'[w] = "lock" /\ lock' = lock
    BY <1>1, <1>2, <2>1, <2>2 DEF TaskLockOK
  <2>3. CASE pc'[w] = "stored" /\ lock' = [lock EXCEPT ![task[w]] = w]
    <3>1. lock[task[w]] = Nobody
      BY StoreMoves
    <3> QED
      BY <1>1, <1>2, <1>3, <2>1, <2>3, <3>1 DEF TaskLockOK
  <2> QED
    BY <2>2, <2>3, StoreMoves
<1>7. RangeOK'
  BY <1>2, <1>3 DEF ControlInv, StatusOK, RangeOK
<1>8. WorkerOK'
  <2>1. pc'[w] = "stored" => parent_id[task[w]] # NULL
    BY StoreMoves
  <2>2. ASSUME NEW v \in Workers, v # w
        PROVE  /\ pc[v] \in WorkPc => task[v] \in Task /\ status'[task[v]] = "RUNNING"
               /\ pc[v] = "stored" => /\ task[v] \in Task /\ status'[task[v]] = "COMPLETED"
                                      /\ parent_id[task[v]] # NULL
               /\ pc[v] = "found" => task[v] \in Waiting
    BY <1>3, <1>4, <2>2 DEF ControlInv, StatusOK, WorkerOK
  <2> HIDE DEF ControlInv
  <2> QED
    BY <1>1, <1>2, <1>3, <2>1, <2>2 DEF WorkerOK, WorkPc
<1>9. RunnerOK'
  BY <1>1, <1>2, <1>3 DEF ControlInv, StatusOK, RunnerOK
<1>10. SoleOK'
  BY <1>1, <1>2 DEF ControlInv, StatusOK, SoleOK, WorkPc
<1>11. ArgOK' /\ SplitOK' /\ StoreOK'
  BY <1>1, <1>2 DEF ControlInv, NumberOK, ArgOK, SplitOK, StoreOK, SplitPc
<1> QED
  BY <1>5, <1>6, <1>7, <1>8, <1>9, <1>10, <1>11 DEF StatusOK, NumberOK

LEMMA ReportControl ==
  ASSUME ControlInv, NEW w \in Workers, Report(w)
  PROVE  PoolLockOK' /\ TaskLockOK' /\ StatusOK' /\ NumberOK'
<1> USE Basics
<1>1. pc[w] = "stored" /\ pc'[w] = "lock" /\ Others(w)
  BY ReportMoves DEF ControlInv
<1>2. /\ UNCHANGED <<status, arg, parent_id, pool_lock, task, res>>
      /\ Forked' = Forked /\ Waiting' = Waiting
      /\ lock' = [lock EXCEPT ![task[w]] = Nobody]
  BY DEF Report, poolVars, localVars, Forked, Waiting
<1>3. \A v \in Workers : /\ pc'[v] \in WorkPc <=> pc[v] \in WorkPc
                         /\ pc'[v] \in SplitPc <=> pc[v] \in SplitPc
                         /\ pc'[v] \in Holding <=> pc[v] \in Holding
                         /\ pc'[v] = "stored" <=> pc[v] = "stored" /\ v # w
                         /\ pc'[v] = "found" <=> pc[v] = "found"
                         /\ pc'[v] = "store" <=> pc[v] = "store"
  BY <1>1 DEF Others, Woken, WorkPc, SplitPc, Holding
<1>4. PoolLockOK'
  BY <1>1, <1>2, <1>3 DEF ControlInv, PoolLockOK, Thread, Others, Woken, Holding
<1>5. TaskLockOK'
  <2>1. TaskLockOK /\ lock \in [Task -> Workers \cup {Nobody}]
    BY DEF ControlInv, TypeOK
  <2>2. task[w] \in Task
    BY <1>1 DEF ControlInv, StatusOK, WorkerOK
  <2>3. lock[task[w]] = w
    <3>1. \A t \in Task : lock[t] = w <=> (pc[w] = "stored" /\ task[w] = t)
      BY <2>1 DEF TaskLockOK
    <3> DEFINE t == task[w]
    <3>2. lock[t] = w <=> (pc[w] = "stored" /\ task[w] = t)
      BY <2>2, <3>1, Zenon
    <3> QED
      BY <1>1, <3>2
  <2> QED
    BY <1>1, <1>2, <1>3, <2>1, <2>2, <2>3 DEF TaskLockOK
<1>6. RangeOK' /\ WorkerOK'
  BY <1>2, <1>3 DEF ControlInv, StatusOK, RangeOK, WorkerOK
<1>7. RunnerOK' /\ SoleOK'
  BY <1>2, <1>3 DEF ControlInv, StatusOK, RunnerOK, SoleOK
<1>8. ArgOK' /\ SplitOK' /\ StoreOK'
  BY <1>2, <1>3 DEF ControlInv, NumberOK, ArgOK, SplitOK, StoreOK
<1> QED
  BY <1>4, <1>5, <1>6, <1>7, <1>8 DEF StatusOK, NumberOK

-----------------------------------------------------------------------------
LEMMA ControlInit == Init => ControlInv
<1> USE Basics
<1> SUFFICES ASSUME Init PROVE ControlInv
  OBVIOUS
<1>1. Forked = {} /\ Waiting = {}
  <2>1. task_count = 0
    BY DEF Init
  <2> QED
    BY <2>1 DEF Forked, Waiting, Task
<1>2. pc \in [Thread -> Pc] /\ pc[Main] = "fork" /\ \A w \in Workers : pc[w] = "lock"
  BY DEF Init, Pc
<1>3. TypeOK
  <2>1. n \in Nat /\ task_count \in Nat
    BY ForkJoinAssumption DEF Init
  <2>5. tracked \in BOOLEAN /\ active \in BOOLEAN /\ undefined \in BOOLEAN
    BY Zenon DEF Init
  <2>2. /\ status \in [Task -> {"WAITING", "RUNNING", "COMPLETED", "FAILED"}]
        /\ arg \in [Task -> Maybe(Nat)] /\ result \in [Task -> Maybe(Nat)]
        /\ parent_id \in [Task -> Maybe(Task)]
        /\ child_count \in [Task -> Nat] /\ completed_children \in [Task -> Nat]
    BY DEF Init, Maybe
  <2>3. /\ lock \in [Task -> Workers \cup {Nobody}] /\ pool_lock \in Thread \cup {Nobody}
        /\ task \in [Workers -> Maybe(Task)] /\ step \in [Thread -> 1 .. 2]
    BY DEF Init, Maybe
  <2>4. child \in [Thread -> [1 .. 2 -> Maybe(Task)]] /\ res \in [Thread -> [1 .. 2 -> Maybe(Nat)]]
    BY DEF Init, Maybe
  <2> QED
    BY <1>2, <2>1, <2>2, <2>3, <2>4, <2>5 DEF TypeOK
<1>4. PcOK
  BY <1>2 DEF Init, PcOK, MainPc, WorkerPc
<1>5. PoolLockOK /\ TaskLockOK
  BY <1>2 DEF Init, PoolLockOK, TaskLockOK, Holding, Thread
<1>6. StatusOK
  BY <1>1, <1>2 DEF Init, StatusOK, RangeOK, WorkerOK, RunnerOK, SoleOK, WorkPc
<1>7. NumberOK
  BY <1>1, <1>2 DEF NumberOK, ArgOK, SplitOK, StoreOK, SplitPc
<1> QED
  BY <1>3, <1>4, <1>5, <1>6, <1>7 DEF ControlInv

LEMMA ControlNext == ControlInv /\ [Next]_vars => ControlInv'
<1> SUFFICES ASSUME ControlInv, [Next]_vars PROVE ControlInv'
  OBVIOUS
<1>1. CASE UNCHANGED vars
  BY <1>1 DEF vars, config, tableVars, poolVars, localVars, ControlInv, TypeOK, PcOK, PoolLockOK,
              TaskLockOK, StatusOK, RangeOK, WorkerOK, RunnerOK, SoleOK, NumberOK, ArgOK, SplitOK,
              StoreOK, Forked, Waiting
<1>2. ASSUME NEW th \in Thread, ForkFails(th) PROVE ControlInv'
  BY <1>2, ForkFailsType, ForkFailsNeutral, NeutralStep DEF ControlInv
<1>3. ASSUME NEW th \in Thread, Fork(th) PROVE ControlInv'
  BY <1>3, ForkType, ForkControl DEF ControlInv
<1>4. ASSUME NEW th \in Thread, ForkSignal(th) PROVE ControlInv'
  BY <1>4, ForkSignalType, ForkSignalControl DEF ControlInv
<1>5. ASSUME NEW th \in Thread, JoinReturns(th) PROVE ControlInv'
  BY <1>5, JoinReturnsType, JoinReturnsNeutral, NeutralStep DEF ControlInv
<1>6. ASSUME NEW th \in Thread, JoinFaults(th) \/ JoinWaits(th) \/ SpuriousWakeup(th)
      PROVE  ControlInv'
  BY <1>6, OtherThreadStepsType, OtherThreadStepsNeutral, NeutralStep DEF ControlInv
<1>7. ASSUME NEW w \in Workers, FindNoTask(w) \/ ScanFaults(w) PROVE ControlInv'
  BY <1>7, IdleStepsType, IdleStepsNeutral, NeutralStep DEF ControlInv
<1>8. ASSUME NEW w \in Workers, FindTask(w) PROVE ControlInv'
  BY <1>8, FindTaskType, FindTaskControl DEF ControlInv
<1>9. ASSUME NEW w \in Workers, MarkRunning(w) PROVE ControlInv'
  BY <1>9, MarkRunningType, MarkRunningControl DEF ControlInv
<1>10. ASSUME NEW w \in Workers, Run(w) \/ RunFails(w) PROVE ControlInv'
  BY <1>10, RunType, RunControl DEF ControlInv
<1>11. ASSUME NEW w \in Workers, Sum(w) PROVE ControlInv'
  BY <1>11, SumType, SumControl DEF ControlInv
<1>12. ASSUME NEW w \in Workers, Store(w) PROVE ControlInv'
  BY <1>12, StoreType, StoreControl DEF ControlInv
<1>13. ASSUME NEW w \in Workers, Report(w) PROVE ControlInv'
  BY <1>13, ReportType, ReportControl DEF ControlInv
<1>14. ASSUME ShowResult \/ Shutdown \/ Destroy PROVE ControlInv'
  BY <1>14, MainStepsType, MainStepsNeutral, NeutralStep DEF ControlInv
<1> HIDE DEF ControlInv
<1> QED
  BY <1>1, <1>2, <1>3, <1>4, <1>5, <1>6, <1>7, <1>8, <1>9, <1>10, <1>11, <1>12, <1>13, <1>14, Basics
  DEF Next, ThreadStep, WorkerStep, Thread, Ended

(* The control invariant holds in every reachable state. *)
LEMMA ControlHolds == Spec => []ControlInv
BY ControlInit, ControlNext, PTL DEF Spec

-----------------------------------------------------------------------------
(* Wakeups *)

Coming == {w \in Workers : pc[w] = "lock"}

(* Between a fork and its signal, or between finding a task and marking it, *)
(* one task more may wait.                                                  *)
WakeupInv ==
  Asleep # {} =>
    Cardinality(Waiting) <= Cardinality(Coming) + (IF pool_lock = Nobody THEN 0 ELSE 1)

LEMMA CardMono ==
  ASSUME NEW U, IsFiniteSet(U), NEW T \in SUBSET U, NEW S \in SUBSET T
  PROVE  /\ IsFiniteSet(S) /\ IsFiniteSet(T)
         /\ Cardinality(S) \in Nat /\ Cardinality(T) \in Nat /\ Cardinality(S) <= Cardinality(T)
BY FS_Subset, FS_CardinalityType

LEMMA Sizes ==
  /\ IsFiniteSet(Waiting) /\ Cardinality(Waiting) \in Nat
  /\ IsFiniteSet(Coming) /\ Cardinality(Coming) \in Nat
<1>1. Waiting \in SUBSET Task /\ Coming \in SUBSET Workers
  BY DEF Waiting, Forked, Coming
<1> QED
  BY <1>1, Basics, FS_Subset, FS_CardinalityType

LEMMA SizesNext ==
  /\ IsFiniteSet(Waiting') /\ Cardinality(Waiting') \in Nat
  /\ IsFiniteSet(Coming') /\ Cardinality(Coming') \in Nat
<1>1. Waiting' \in SUBSET Task /\ Coming' \in SUBSET Workers
  BY DEF Waiting, Forked, Coming
<1> QED
  BY <1>1, Basics, FS_Subset, FS_CardinalityType

(* Nobody falls asleep, and who is on the way stays on it. *)
Calm == \A v \in Workers : /\ pc[v] = "lock" => pc'[v] = "lock"
                           /\ pc'[v] = "wait" => pc[v] = "wait"

LEMMA WakeupFrame ==
  ASSUME WakeupInv, Calm, Waiting' = Waiting, pool_lock' = pool_lock
  PROVE  WakeupInv'
<1>1. Asleep' \subseteq Asleep /\ Coming \subseteq Coming' /\ Coming' \in SUBSET Workers
  BY DEF Calm, Asleep, Coming
<1>2. Cardinality(Coming) <= Cardinality(Coming')
  BY <1>1, Basics, CardMono
<1> QED
  BY <1>1, <1>2, Sizes, SizesNext DEF WakeupInv

LEMMA ForkWakeup ==
  ASSUME ControlInv, WakeupInv, NEW th \in Thread, Fork(th)
  PROVE  WakeupInv'
<1> USE Basics
<1>1. /\ task_count \in Task /\ Forked' = Forked \cup {task_count} /\ task_count \notin Forked
      /\ pool_lock = Nobody /\ pool_lock' = th /\ th # Nobody
  BY ForkJoinAssumption DEF Fork, Forked, Task, ControlInv, TypeOK
<1>2. status' = [status EXCEPT ![task_count] = "WAITING"]
  BY DEF Fork
<1>3. Waiting' = Waiting \cup {task_count} /\ task_count \notin Waiting
  BY <1>1, <1>2 DEF Waiting, ControlInv, TypeOK, Forked
<1>4. Cardinality(Waiting') = Cardinality(Waiting) + 1
  BY <1>3, Sizes, FS_AddElement
<1>5. Asleep' = Asleep /\ Coming' = Coming
  BY ForkMoves DEF ControlInv, Asleep, Coming
<1> QED
  BY <1>1, <1>4, <1>5, Sizes DEF WakeupInv

LEMMA ForkSignalWakeup ==
  ASSUME ControlInv, WakeupInv, NEW th \in Thread, ForkSignal(th)
  PROVE  WakeupInv'
<1> USE Basics
<1>1. pc[th] = "forked" /\ pc'[th] \in {"fork", "join"}
  BY ForkSignalMoves DEF ControlInv
<1>2. Waiting' = Waiting /\ pool_lock' = Nobody /\ pool_lock # Nobody
  BY <1>1 DEF ForkSignal, poolVars, Forked, Waiting, ControlInv, PoolLockOK, Holding
<1>3. CASE Asleep = {}
  <2>1. \A v \in Thread : v # th => pc'[v] = pc[v]
    BY <1>3, ForkSignalMoves DEF ControlInv
  <2>2. Asleep' = {}
    BY <1>1, <1>3, <2>1 DEF Asleep
  <2> QED
    BY <2>2 DEF WakeupInv
<1>4. CASE Asleep # {}
  <2>1. PICK w \in Asleep : /\ pc'[w] = "lock"
                            /\ \A v \in Thread : v \notin {th, w} => pc'[v] = pc[v]
    BY <1>4, ForkSignalMoves DEF ControlInv
  <2>2. Coming' = Coming \cup {w} /\ w \notin Coming
    BY <1>1, <2>1 DEF Coming, Asleep
  <2>3. Cardinality(Coming') = Cardinality(Coming) + 1
    BY <2>2, Sizes, FS_AddElement
  <2> QED
    BY <1>2, <1>4, <2>3, Sizes DEF WakeupInv
<1> QED
  BY <1>3, <1>4

LEMMA IdleStepsWakeup ==
  ASSUME ControlInv, WakeupInv, NEW w \in Workers, FindNoTask(w) \/ ScanFaults(w)
  PROVE  WakeupInv'
<1>1. Waiting' = {}
  BY DEF FindNoTask, ScanFaults, Waiting, Forked, tableVars, poolVars
<1>2. Cardinality(Waiting') = 0
  BY <1>1, FS_EmptySet
<1> QED
  BY <1>2, SizesNext DEF WakeupInv

LEMMA FindTaskWakeup ==
  ASSUME ControlInv, WakeupInv, NEW w \in Workers, FindTask(w)
  PROVE  WakeupInv'
<1> USE Basics
<1>1. /\ pc[w] = "lock" /\ pc'[w] = "found" /\ \A v \in Thread : v # w => pc'[v] = pc[v]
  BY DEF FindTask, ControlInv, TypeOK
<1>2. Waiting' = Waiting /\ pool_lock = Nobody /\ pool_lock' = w /\ w # Nobody
  BY DEF FindTask, tableVars, poolVars, Forked, Waiting
<1>3. Coming' = Coming \ {w} /\ w \in Coming /\ Asleep' = Asleep
  BY <1>1 DEF Coming, Asleep
<1>4. Cardinality(Coming') = Cardinality(Coming) - 1
  BY <1>3, Sizes, FS_RemoveElement
<1> QED
  BY <1>2, <1>3, <1>4, Sizes DEF WakeupInv

LEMMA MarkRunningWakeup ==
  ASSUME ControlInv, WakeupInv, NEW w \in Workers, MarkRunning(w)
  PROVE  WakeupInv'
<1> USE Basics
<1>1. /\ pc[w] = "found" /\ pc'[w] = "run" /\ \A v \in Thread : v # w => pc'[v] = pc[v]
  BY DEF MarkRunning, ControlInv, TypeOK
<1>2. pool_lock' = Nobody /\ pool_lock # Nobody
  BY <1>1 DEF MarkRunning, ControlInv, PoolLockOK, Holding
<1>3. task[w] \in Waiting /\ Forked' = Forked /\ status' = [status EXCEPT ![task[w]] = "RUNNING"]
  BY <1>1 DEF MarkRunning, poolVars, Forked, ControlInv, StatusOK, WorkerOK
<1>4. Waiting' = Waiting \ {task[w]}
  BY <1>3 DEF Waiting, Forked, ControlInv, TypeOK
<1>5. Cardinality(Waiting') = Cardinality(Waiting) - 1
  BY <1>3, <1>4, Sizes, FS_RemoveElement
<1>6. Asleep' = Asleep /\ Coming' = Coming
  BY <1>1 DEF Asleep, Coming
<1> QED
  BY <1>2, <1>5, <1>6, Sizes DEF WakeupInv

LEMMA WakeupNext == ControlInv /\ WakeupInv /\ [Next]_vars => WakeupInv'
<1> SUFFICES ASSUME ControlInv, WakeupInv, [Next]_vars PROVE WakeupInv'
  OBVIOUS
<1> USE Basics
<1>1. CASE UNCHANGED vars
  BY <1>1 DEF vars, tableVars, poolVars, WakeupInv, Asleep, Coming, Waiting, Forked
<1>2. ASSUME NEW th \in Thread, ForkFails(th) PROVE WakeupInv'
  <2>1. Waiting' = Waiting /\ pool_lock' = pool_lock
    BY <1>2, ForkFailsNeutral DEF Neutral, SameTable, Waiting
  <2>2. Calm
    BY <1>2, ForkFailsMoves DEF ControlInv, Others, Woken, Calm
  <2> QED
    BY <2>1, <2>2, WakeupFrame
<1>3. ASSUME NEW th \in Thread, Fork(th) PROVE WakeupInv'
  BY <1>3, ForkWakeup
<1>4. ASSUME NEW th \in Thread, ForkSignal(th) PROVE WakeupInv'
  BY <1>4, ForkSignalWakeup
<1>5. ASSUME NEW th \in Thread, JoinReturns(th) PROVE WakeupInv'
  <2>1. Waiting' = Waiting /\ pool_lock' = pool_lock
    BY <1>5, JoinReturnsNeutral DEF Neutral, SameTable, Waiting
  <2>2. Calm
    BY <1>5, JoinReturnsMoves DEF ControlInv, Others, Woken, Calm
  <2> QED
    BY <2>1, <2>2, WakeupFrame
<1>6. ASSUME NEW th \in Thread, JoinFaults(th) \/ JoinWaits(th) \/ SpuriousWakeup(th)
      PROVE  WakeupInv'
  <2>1. Waiting' = Waiting /\ pool_lock' = pool_lock
    BY <1>6, OtherThreadStepsNeutral DEF Neutral, SameTable, Waiting
  <2>2. Calm
    BY <1>6 DEF JoinFaults, JoinWaits, SpuriousWakeup, ControlInv, TypeOK, Calm
  <2> QED
    BY <2>1, <2>2, WakeupFrame
<1>7. ASSUME NEW w \in Workers, FindNoTask(w) \/ ScanFaults(w) PROVE WakeupInv'
  BY <1>7, IdleStepsWakeup
<1>8. ASSUME NEW w \in Workers, FindTask(w) PROVE WakeupInv'
  BY <1>8, FindTaskWakeup
<1>9. ASSUME NEW w \in Workers, MarkRunning(w) PROVE WakeupInv'
  BY <1>9, MarkRunningWakeup
<1>10. ASSUME NEW w \in Workers, Run(w) \/ RunFails(w) \/ Sum(w) PROVE WakeupInv'
  <2>1. Waiting' = Waiting /\ pool_lock' = pool_lock
    BY <1>10 DEF Run, RunFails, Sum, tableVars, poolVars, Waiting, Forked
  <2>2. Calm
    <3>1. /\ pc[w] \in {"run", "joined"}
          /\ \/ pc' = pc
             \/ \E l \in {"fork", "store"} : pc' = [pc EXCEPT ![w] = l]
      BY <1>10, RunMoves DEF Sum
    <3> QED
      BY <3>1 DEF ControlInv, TypeOK, Calm
  <2> QED
    BY <2>1, <2>2, WakeupFrame
<1>11. ASSUME NEW w \in Workers, Store(w) PROVE WakeupInv'
  <2>1. Waiting' = Waiting /\ pool_lock' = pool_lock /\ Calm
    BY <1>11, StoreMoves DEF Calm
  <2> QED
    BY <2>1, WakeupFrame
<1>12. ASSUME NEW w \in Workers, Report(w) PROVE WakeupInv'
  <2>1. Waiting' = Waiting /\ pool_lock' = pool_lock
    BY <1>12 DEF Report, poolVars, Waiting, Forked
  <2>2. Calm
    BY <1>12, ReportMoves DEF ControlInv, Others, Woken, Calm
  <2> QED
    BY <2>1, <2>2, WakeupFrame
<1>13. ASSUME ShowResult \/ Shutdown \/ Destroy PROVE WakeupInv'
  <2>1. Waiting' = Waiting /\ pool_lock' = pool_lock
    BY <1>13, MainStepsNeutral DEF Neutral, SameTable, Waiting
  <2>2. Calm
    BY <1>13 DEF ShowResult, Shutdown, Destroy, ControlInv, TypeOK, Calm, Asleep
  <2> QED
    BY <2>1, <2>2, WakeupFrame
<1> HIDE DEF ControlInv, WakeupInv
<1> QED
  BY <1>1, <1>2, <1>3, <1>4, <1>5, <1>6, <1>7, <1>8, <1>9, <1>10, <1>11, <1>12, <1>13
  DEF Next, ThreadStep, WorkerStep, Thread, Ended

LEMMA WakeupInit == Init => WakeupInv
BY Basics DEF Init, WakeupInv, Asleep, Thread

-----------------------------------------------------------------------------
(* Children *)

(* The task a thread has filled in but not yet announced. *)
InFork(c) == \E th \in Thread : pc[th] = "forked" /\ Joined(th) = c

IsReported(c) == /\ status[c] = "COMPLETED"
                 /\ \A w \in Workers : ~(task[w] = c /\ pc[w] = "stored")

Counted(t) == {c \in Forked : parent_id[c] = t /\ ~InFork(c)}
Reported(t) == {c \in Forked : parent_id[c] = t /\ IsReported(c)}

ParentOK == \A t \in Forked : parent_id[t] = NULL \/ parent_id[t] \in Forked

AnnounceOK == \A th \in Thread : pc[th] = "forked" =>
                Joined(th) \in Waiting /\ parent_id[Joined(th)] = ParentOf(th)

CountedOK == \A t \in Task : child_count[t] = Cardinality(Counted(t))
ReportedOK == \A t \in Task : completed_children[t] = Cardinality(Reported(t))

CountInv == ParentOK /\ AnnounceOK /\ CountedOK /\ ReportedOK

(* Announced tasks stay what they were to their forkers. *)
SameForkers ==
  \A th \in Thread : /\ pc'[th] = "forked" <=> pc[th] = "forked"
                     /\ pc[th] = "forked" => Joined(th)' = Joined(th) /\ ParentOf(th)' = ParentOf(th)

LEMMA CountFrame ==
  ASSUME CountInv, UNCHANGED <<parent_id, child_count, completed_children>>, Forked' = Forked,
         SameForkers, \A th \in Thread : pc[th] = "forked" => Joined(th) \in Waiting',
         \A c \in Forked : parent_id[c] \in Task => (IsReported(c)' <=> IsReported(c))
  PROVE  CountInv'
<1>1. ParentOK'
  BY DEF CountInv, ParentOK
<1>2. AnnounceOK'
  BY DEF CountInv, AnnounceOK, SameForkers
<1>3. ASSUME NEW t \in Task PROVE Counted(t)' = Counted(t)
  BY DEF Counted, InFork, SameForkers
<1>4. ASSUME NEW t \in Task PROVE Reported(t)' = Reported(t)
  BY DEF Reported
<1>5. CountedOK' /\ ReportedOK'
  BY <1>3, <1>4 DEF CountInv, CountedOK, ReportedOK
<1> QED
  BY <1>1, <1>2, <1>5 DEF CountInv

LEMMA NeutralCount ==
  ASSUME ControlInv, ControlInv', CountInv, Neutral, tracked' = tracked,
         \A th \in Thread : pc[th] = "forked" => child'[th] = child[th] /\ step'[th] = step[th]
  PROVE  CountInv'
<1> USE Basics
<1>1. Waiting' = Waiting /\ UNCHANGED <<parent_id, child_count, completed_children, status, task>>
      /\ Forked' = Forked
  BY DEF Neutral, SameTable, Waiting
<1>2. \A th \in Thread : pc'[th] = "forked" <=> pc[th] = "forked"
  <2>1. pc[Main] # "found" /\ pc'[Main] # "found"
    BY DEF ControlInv, PcOK, MainPc
  <2> QED
    BY <2>1 DEF Neutral, SamePart, Thread, Holding
<1>3. SameForkers
  BY <1>1, <1>2 DEF SameForkers, Joined, ParentOf
<1>4. \A th \in Thread : pc[th] = "forked" => Joined(th) \in Waiting'
  BY <1>1 DEF CountInv, AnnounceOK
<1>5. \A c \in Forked : IsReported(c)' <=> IsReported(c)
  BY <1>1 DEF Neutral, SamePart, IsReported
<1> QED
  BY <1>1, <1>3, <1>4, <1>5, CountFrame

LEMMA CountSizes ==
  ASSUME NEW t
  PROVE  /\ IsFiniteSet(Counted(t)) /\ IsFiniteSet(Counted(t)')
         /\ IsFiniteSet(Reported(t)) /\ IsFiniteSet(Reported(t)')
<1>1. /\ Counted(t) \in SUBSET Task /\ Counted(t)' \in SUBSET Task
      /\ Reported(t) \in SUBSET Task /\ Reported(t)' \in SUBSET Task
  BY DEF Counted, Reported, Forked
<1> QED
  BY <1>1, Basics, FS_Subset

(* The thread that holds pool_lock is the only one in a fork. *)
LEMMA OneForker ==
  ASSUME ControlInv, NEW th \in Thread, NEW v \in Thread, pc[th] \in Holding, pc[v] \in Holding
  PROVE  v = th
BY DEF ControlInv, PoolLockOK

(* A new task has no children yet, and is nobody's counted child. *)
LEMMA ForkCount ==
  ASSUME ControlInv, CountInv, NEW th \in Thread, Fork(th)
  PROVE  CountInv'
<1> USE Basics
<1>0. PICK c : c = task_count
  OBVIOUS
<1>1. /\ c \in Task /\ Forked' = Forked \cup {c} /\ c \notin Forked
      /\ pool_lock = Nobody /\ pool_lock' = th
  BY <1>0, ForkJoinAssumption DEF Fork, Forked, Task, ControlInv, TypeOK
<1>2. /\ status' = [status EXCEPT ![c] = "WAITING"]
      /\ parent_id' = [parent_id EXCEPT ![c] = ParentOf(th)]
      /\ child_count' = [child_count EXCEPT ![c] = 0]
      /\ completed_children' = [completed_children EXCEPT ![c] = 0]
      /\ child' = [child EXCEPT ![th][step[th]] = c]
      /\ UNCHANGED <<tracked, task, step>>
  BY <1>0 DEF Fork, config
<1>3. /\ pc[th] = "fork" /\ pc'[th] = "forked" /\ \A v \in Thread : v # th => pc'[v] = pc[v]
  BY ForkMoves DEF ControlInv
<1>4. \A v \in Thread : pc[v] # "forked"
  BY <1>1 DEF ControlInv, PoolLockOK, Holding
<1>5. Joined(th)' = c
  BY <1>2 DEF Joined, ControlInv, TypeOK
<1>6. ParentOf(th) = NULL \/ ParentOf(th) \in Forked
  BY <1>3, WorkingArg DEF ParentOf, WorkPc, Thread
<1>7. ParentOf(th)' = ParentOf(th)
  BY <1>2 DEF ParentOf
<1>8. /\ parent_id'[c] = ParentOf(th) /\ status'[c] = "WAITING"
      /\ \A t \in Forked : parent_id'[t] = parent_id[t] /\ status'[t] = status[t]
  BY <1>1, <1>2 DEF ControlInv, TypeOK, Forked
<1>9. ParentOK'
  BY <1>1, <1>6, <1>8 DEF CountInv, ParentOK
<1>10. AnnounceOK'
  <2>1. c \in Waiting'
    BY <1>1, <1>8 DEF Waiting
  <2> QED
    BY <1>3, <1>4, <1>5, <1>7, <1>8, <2>1 DEF AnnounceOK
<1>11. \A d : InFork(d)' <=> d = c
  BY <1>3, <1>4, <1>5 DEF InFork
<1>12. \A d : ~InFork(d)
  BY <1>4 DEF InFork
<1>13. \A d \in Forked : IsReported(d)' <=> IsReported(d)
  BY <1>2, <1>3, <1>8 DEF IsReported
<1>14. ~IsReported(c)'
  BY <1>8 DEF IsReported
<1>15. ASSUME NEW t \in Task, t # c
       PROVE  Counted(t)' = Counted(t) /\ Reported(t)' = Reported(t)
  BY <1>1, <1>8, <1>11, <1>12, <1>13, <1>14 DEF Counted, Reported
<1>16. Counted(c)' = {} /\ Reported(c)' = {}
  <2>1. \A d \in Forked' : parent_id'[d] # c
    BY <1>1, <1>6, <1>8 DEF CountInv, ParentOK
  <2> QED
    BY <2>1 DEF Counted, Reported
<1>17. /\ child_count'[c] = 0 /\ completed_children'[c] = 0
       /\ \A t \in Task : t # c => /\ child_count'[t] = child_count[t]
                                   /\ completed_children'[t] = completed_children[t]
  BY <1>1, <1>2 DEF ControlInv, TypeOK
<1>18. CountedOK' /\ ReportedOK'
  BY <1>15, <1>16, <1>17, FS_EmptySet DEF CountInv, CountedOK, ReportedOK
<1> QED
  BY <1>9, <1>10, <1>18 DEF CountInv

(* The task just filled in becomes a counted child. *)
LEMMA ForkSignalCount ==
  ASSUME ControlInv, CountInv, NEW th \in Thread, ForkSignal(th)
  PROVE  CountInv'
<1> USE Basics
<1>0. PICK c, p : c = Joined(th) /\ p = ParentOf(th)
  OBVIOUS
<1>1. /\ pc[th] = "forked" /\ pc'[th] \in {"fork", "join"} /\ Others(th)
  BY ForkSignalMoves DEF ControlInv, Others, Woken, Asleep
<1>2. /\ UNCHANGED <<status, parent_id, completed_children, task, child, tracked>>
      /\ Forked' = Forked /\ Waiting' = Waiting
  BY DEF ForkSignal, poolVars, Forked, Waiting, config
<1>3. c \in Waiting /\ c \in Forked /\ parent_id[c] = p
  BY <1>0, <1>1 DEF CountInv, AnnounceOK, Waiting
<1>4. \A v \in Thread : pc[v] = "forked" <=> v = th
  BY <1>1, OneForker DEF Holding
<1>5. \A v \in Thread : pc'[v] # "forked"
  BY <1>1, <1>4 DEF Others, Woken
<1>6. (\A d : InFork(d) <=> d = c) /\ \A d : ~InFork(d)'
  BY <1>0, <1>4, <1>5 DEF InFork
<1>7. ParentOK' /\ AnnounceOK'
  BY <1>2, <1>5 DEF CountInv, ParentOK, AnnounceOK
<1>8. \A d : IsReported(d)' <=> IsReported(d)
  BY <1>1, <1>2 DEF IsReported, Others, Woken
<1>9. ReportedOK'
  <2>1. ASSUME NEW t \in Task PROVE Reported(t)' = Reported(t)
    BY <1>2, <1>8 DEF Reported
  <2> QED
    BY <1>2, <2>1 DEF CountInv, ReportedOK
<1>10. CountedOK'
  <2>1. ASSUME NEW t \in Task, t # p PROVE Counted(t)' = Counted(t)
    BY <1>2, <1>3, <1>6, <2>1 DEF Counted
  <2>2. CASE p = NULL
    <3>1. child_count' = child_count
      BY <1>0, <2>2 DEF ForkSignal
    <3> QED
      BY <2>1, <2>2, <3>1 DEF CountInv, CountedOK
  <2>3. CASE p # NULL
    <3>1. p \in Task
      BY <1>3, <2>3 DEF CountInv, ParentOK, Forked
    <3>2. child_count' = [child_count EXCEPT ![p] = child_count[p] + 1]
      BY <1>0, <2>3 DEF ForkSignal
    <3>3. /\ child_count'[p] = child_count[p] + 1
          /\ \A t \in Task : t # p => child_count'[t] = child_count[t]
      BY <3>1, <3>2 DEF ControlInv, TypeOK
    <3>4. Counted(p)' = Counted(p) \cup {c} /\ c \notin Counted(p)
      BY <1>2, <1>3, <1>6 DEF Counted
    <3>5. Cardinality(Counted(p)') = Cardinality(Counted(p)) + 1
      BY <3>4, CountSizes, FS_AddElement
    <3> QED
      BY <2>1, <3>1, <3>3, <3>5 DEF CountInv, CountedOK
  <2> QED
    BY <2>2, <2>3
<1> QED
  BY <1>7, <1>9, <1>10 DEF CountInv

LEMMA StoreCount ==
  ASSUME ControlInv, CountInv, NEW w \in Workers, Store(w)
  PROVE  CountInv'
<1> USE Basics
<1>1. /\ UNCHANGED <<parent_id, child_count, completed_children, task, child, step, tracked>>
      /\ Forked' = Forked /\ Waiting' = Waiting
  BY StoreMoves
<1>2. /\ pc[w] = "store" /\ pc'[w] \in {"lock", "stored"} /\ \A v \in Thread : v # w => pc'[v] = pc[v]
      /\ pc'[w] = "lock" => parent_id[task[w]] = NULL
  BY StoreMoves
<1>3. /\ task[w] \in Task /\ status[task[w]] = "RUNNING"
      /\ \A t \in Task : t # task[w] => status'[t] = status[t]
  BY StoreMoves
<1>4. SameForkers
  BY <1>1, <1>2 DEF SameForkers, Joined, ParentOf
<1>5. \A th \in Thread : pc[th] = "forked" => Joined(th) \in Waiting'
  BY <1>1 DEF CountInv, AnnounceOK
<1>6. ASSUME NEW c \in Forked, parent_id[c] \in Task PROVE IsReported(c)' <=> IsReported(c)
  <2>1. c \in Task
    BY DEF Forked
  <2>2. CASE c = task[w]
    BY <1>1, <1>2, <1>3, <1>6, <2>2 DEF IsReported
  <2>3. CASE c # task[w]
    BY <1>1, <1>2, <1>3, <2>1, <2>3 DEF IsReported
  <2> QED
    BY <2>2, <2>3
<1> QED
  BY <1>1, <1>4, <1>5, <1>6, CountFrame

LEMMA ReportCount ==
  ASSUME ControlInv, CountInv, NEW w \in Workers, Report(w)
  PROVE  CountInv'
<1> USE Basics
<1>0. PICK c, p : c = task[w] /\ p = parent_id[c]
  OBVIOUS
<1>1. pc[w] = "stored" /\ pc'[w] = "lock" /\ Others(w)
  BY ReportMoves DEF ControlInv
<1>2. /\ UNCHANGED <<status, parent_id, child_count, task, child, step, tracked>>
      /\ Forked' = Forked /\ Waiting' = Waiting
      /\ completed_children' = [completed_children EXCEPT ![p] = completed_children[p] + 1]
  BY <1>0 DEF Report, poolVars, localVars, config, Forked, Waiting
<1>3. /\ c \in Task /\ status[c] = "COMPLETED" /\ p # NULL /\ c \in Forked
  BY <1>0, <1>1 DEF ControlInv, StatusOK, WorkerOK, RangeOK
<1>4. p \in Task
  BY <1>0, <1>3 DEF CountInv, ParentOK, Forked
<1>5. \A v \in Workers : pc[v] = "stored" /\ task[v] = c => v = w
  <2>1. \A v \in Workers : lock[c] = v <=> (pc[v] = "stored" /\ task[v] = c)
    BY <1>3 DEF ControlInv, TaskLockOK
  <2> QED
    BY <1>0, <1>1, <2>1
<1>6. SameForkers
  BY <1>1, <1>2 DEF SameForkers, Joined, ParentOf, Others, Woken
<1>7. ParentOK' /\ AnnounceOK'
  BY <1>2, <1>6 DEF CountInv, ParentOK, AnnounceOK, SameForkers
<1>8. CountedOK'
  <2>1. ASSUME NEW t \in Task PROVE Counted(t)' = Counted(t)
    BY <1>2, <1>6 DEF Counted, InFork, SameForkers
  <2> QED
    BY <1>2, <2>1 DEF CountInv, CountedOK
<1>9. IsReported(c)' /\ ~IsReported(c)
  BY <1>0, <1>1, <1>2, <1>3, <1>5 DEF IsReported, Others, Woken
<1>10. \A d : d # c => (IsReported(d)' <=> IsReported(d))
  BY <1>0, <1>1, <1>2 DEF IsReported, Others, Woken
<1>11. ReportedOK'
  <2>1. ASSUME NEW t \in Task, t # p PROVE Reported(t)' = Reported(t)
    BY <1>0, <1>2, <1>10, <2>1 DEF Reported
  <2>2. Reported(p)' = Reported(p) \cup {c} /\ c \notin Reported(p)
    BY <1>0, <1>2, <1>3, <1>9, <1>10 DEF Reported
  <2>3. /\ completed_children'[p] = completed_children[p] + 1
        /\ \A t \in Task : t # p => completed_children'[t] = completed_children[t]
    BY <1>2, <1>4 DEF ControlInv, TypeOK
  <2>4. Cardinality(Reported(p)') = Cardinality(Reported(p)) + 1
    BY <2>2, CountSizes, FS_AddElement
  <2> QED
    BY <1>4, <2>1, <2>3, <2>4 DEF CountInv, ReportedOK
<1> QED
  BY <1>7, <1>8, <1>11 DEF CountInv

LEMMA FindTaskCount ==
  ASSUME ControlInv, CountInv, NEW w \in Workers, FindTask(w)
  PROVE  CountInv'
<1> USE Basics
<1>1. /\ pc[w] = "lock" /\ pc'[w] = "found" /\ \A v \in Thread : v # w => pc'[v] = pc[v]
  BY DEF FindTask, ControlInv, TypeOK
<1>2. /\ UNCHANGED <<status, parent_id, child_count, completed_children, child, step, tracked>>
      /\ Forked' = Forked /\ Waiting' = Waiting
  BY DEF FindTask, tableVars, poolVars, config, Forked, Waiting
<1>3. \A v \in Workers : v # w => task'[v] = task[v]
  BY DEF FindTask, ControlInv, TypeOK
<1>4. SameForkers
  BY <1>1, <1>2, <1>3 DEF SameForkers, Joined, ParentOf, Thread
<1>5. \A th \in Thread : pc[th] = "forked" => Joined(th) \in Waiting'
  BY <1>2 DEF CountInv, AnnounceOK
<1>6. \A c \in Forked : IsReported(c)' <=> IsReported(c)
  BY <1>1, <1>2, <1>3 DEF IsReported
<1> QED
  BY <1>2, <1>4, <1>5, <1>6, CountFrame

LEMMA MarkRunningCount ==
  ASSUME ControlInv, CountInv, NEW w \in Workers, MarkRunning(w)
  PROVE  CountInv'
<1> USE Basics
<1>1. /\ pc[w] = "found" /\ pc'[w] = "run" /\ \A v \in Thread : v # w => pc'[v] = pc[v]
  BY DEF MarkRunning, ControlInv, TypeOK
<1>2. /\ UNCHANGED <<parent_id, child_count, completed_children, task, child, step, tracked>>
      /\ Forked' = Forked
  BY DEF MarkRunning, poolVars, localVars, config, Forked
<1>3. /\ status[task[w]] = "WAITING" /\ status'[task[w]] = "RUNNING"
      /\ \A t \in Task : t # task[w] => status'[t] = status[t]
  BY <1>1 DEF MarkRunning, ControlInv, TypeOK, StatusOK, WorkerOK, Waiting, Forked
<1>4. SameForkers
  BY <1>1, <1>2 DEF SameForkers, Joined, ParentOf
<1>5. \A th \in Thread : pc[th] # "forked"
  BY <1>1, OneForker DEF Holding
<1>6. ASSUME NEW c \in Forked PROVE IsReported(c)' <=> IsReported(c)
  <2>1. status'[c] = "COMPLETED" <=> status[c] = "COMPLETED"
    BY <1>3 DEF Forked
  <2> QED
    BY <1>1, <1>2, <2>1 DEF IsReported
<1> QED
  BY <1>2, <1>4, <1>5, <1>6, CountFrame

LEMMA RunCount ==
  ASSUME ControlInv, CountInv, NEW w \in Workers, Run(w) \/ RunFails(w) \/ Sum(w)
  PROVE  CountInv'
<1> USE Basics
<1>1. /\ UNCHANGED <<status, parent_id, child_count, completed_children, task, child, step, tracked>>
      /\ Forked' = Forked /\ Waiting' = Waiting
  BY DEF Run, RunFails, Sum, tableVars, poolVars, localVars, config, Forked, Waiting
<1>2. /\ pc[w] \in {"run", "joined"}
      /\ pc' = pc \/ \E l \in {"fork", "store"} : pc' = [pc EXCEPT ![w] = l]
  BY RunMoves DEF Sum
<1>3. /\ \A v \in Thread : v # w => pc'[v] = pc[v]
      /\ pc'[w] \notin {"forked", "stored"} /\ pc[w] \notin {"forked", "stored"}
  BY <1>2 DEF ControlInv, TypeOK
<1>4. SameForkers
  BY <1>1, <1>3 DEF SameForkers, Joined, ParentOf
<1>5. \A th \in Thread : pc[th] = "forked" => Joined(th) \in Waiting'
  BY <1>1 DEF CountInv, AnnounceOK
<1>6. \A c \in Forked : IsReported(c)' <=> IsReported(c)
  BY <1>1, <1>3 DEF IsReported
<1> QED
  BY <1>1, <1>4, <1>5, <1>6, CountFrame

(* The steps of a thread that joins, or whose fork finds the table full.    *)
LEMMA NeutralStepsCount ==
  ASSUME ControlInv, ControlInv', CountInv, NEW th \in Thread,
         ForkFails(th) \/ JoinFaults(th) \/ JoinWaits(th) \/ JoinReturns(th) \/ SpuriousWakeup(th)
  PROVE  CountInv'
<1>1. Neutral
  BY ForkFailsNeutral, JoinReturnsNeutral, OtherThreadStepsNeutral
<1>2. tracked' = tracked
  BY DEF ForkFails, JoinFaults, JoinWaits, JoinReturns, SpuriousWakeup, config
<1>3. pc[th] # "forked"
  BY DEF ForkFails, JoinFaults, JoinWaits, JoinReturns, SpuriousWakeup
<1>4. \A v \in Thread : v # th => child'[v] = child[v] /\ step'[v] = step[v]
  BY DEF ForkFails, JoinFaults, JoinWaits, JoinReturns, SpuriousWakeup, localVars, ControlInv, TypeOK
<1> QED
  BY <1>1, <1>2, <1>3, <1>4, NeutralCount

LEMMA CountInit == Init => CountInv
<1> USE Basics
<1> SUFFICES ASSUME Init PROVE CountInv
  OBVIOUS
<1>1. Forked = {}
  BY DEF Init, Forked, Task
<1>2. ParentOK /\ AnnounceOK
  BY <1>1 DEF Init, ParentOK, AnnounceOK
<1>3. \A t : Counted(t) = {} /\ Reported(t) = {}
  BY <1>1 DEF Counted, Reported
<1>4. CountedOK /\ ReportedOK
  BY <1>3, FS_EmptySet DEF Init, CountedOK, ReportedOK
<1> QED
  BY <1>2, <1>4 DEF CountInv

LEMMA CountNext == ControlInv /\ CountInv /\ [Next]_vars => CountInv'
<1> SUFFICES ASSUME ControlInv, CountInv, [Next]_vars PROVE CountInv'
  OBVIOUS
<1> USE Basics
<1>0. ControlInv'
  BY ControlNext
<1>1. CASE UNCHANGED vars
  <2>1. /\ UNCHANGED <<config, tableVars, poolVars, localVars, pc>>
        /\ Forked' = Forked /\ Waiting' = Waiting
    BY <1>1 DEF vars, tableVars, poolVars, Forked, Waiting
  <2>2. SameForkers /\ \A c \in Forked : IsReported(c)' <=> IsReported(c)
    BY <2>1 DEF SameForkers, Joined, ParentOf, IsReported, localVars, config, tableVars
  <2>3. \A th \in Thread : pc[th] = "forked" => Joined(th) \in Waiting'
    BY <2>1 DEF CountInv, AnnounceOK
  <2> QED
    BY <2>1, <2>2, <2>3, CountFrame DEF tableVars
<1>2. ASSUME NEW th \in Thread,
             ForkFails(th) \/ JoinFaults(th) \/ JoinWaits(th) \/ JoinReturns(th) \/ SpuriousWakeup(th)
      PROVE  CountInv'
  BY <1>0, <1>2, NeutralStepsCount
<1>3. ASSUME NEW th \in Thread, Fork(th) PROVE CountInv'
  BY <1>3, ForkCount
<1>4. ASSUME NEW th \in Thread, ForkSignal(th) PROVE CountInv'
  BY <1>4, ForkSignalCount
<1>5. ASSUME NEW w \in Workers, FindNoTask(w) \/ ScanFaults(w) PROVE CountInv'
  <2>1. UNCHANGED <<tracked, child, step>>
    BY <1>5 DEF FindNoTask, ScanFaults, config, localVars
  <2> QED
    BY <1>0, <1>5, <2>1, IdleStepsNeutral, NeutralCount
<1>6. ASSUME NEW w \in Workers, FindTask(w) PROVE CountInv'
  BY <1>6, FindTaskCount
<1>7. ASSUME NEW w \in Workers, MarkRunning(w) PROVE CountInv'
  BY <1>7, MarkRunningCount
<1>8. ASSUME NEW w \in Workers, Run(w) \/ RunFails(w) \/ Sum(w) PROVE CountInv'
  BY <1>8, RunCount
<1>9. ASSUME NEW w \in Workers, Store(w) PROVE CountInv'
  BY <1>9, StoreCount
<1>10. ASSUME NEW w \in Workers, Report(w) PROVE CountInv'
  BY <1>10, ReportCount
<1>11. ASSUME ShowResult \/ Shutdown \/ Destroy PROVE CountInv'
  <2>1. UNCHANGED <<tracked, child, step>>
    BY <1>11 DEF ShowResult, Shutdown, Destroy, config, localVars
  <2> QED
    BY <1>0, <1>11, <2>1, MainStepsNeutral, NeutralCount
<1> HIDE DEF ControlInv, CountInv
<1> QED
  BY <1>1, <1>2, <1>3, <1>4, <1>5, <1>6, <1>7, <1>8, <1>9, <1>10, <1>11
  DEF Next, ThreadStep, WorkerStep, Thread, Ended

-----------------------------------------------------------------------------
(* The end *)

AfterShutdown == {"join workers", "destroyed"}

ActiveOK == /\ active = TRUE <=> pc[Main] \notin AfterShutdown
            /\ \A w \in Workers : pc[w] = "exited" => active = FALSE

(* The last worker to exit has seen that no task waits. *)
EmptyOK == Workers # {} /\ (\A w \in Workers : pc[w] = "exited") => Waiting = {}
DestroyedOK == pc[Main] = "destroyed" => \A w \in Workers : pc[w] = "exited"

(* Without a worker main never gets past its join. *)
LonelyOK == Workers = {} => /\ \A t \in Task : status[t] = "WAITING"
                            /\ pc[Main] \in {"fork", "forked", "join", "asleep"}

QuietInv == ActiveOK /\ EmptyOK /\ DestroyedOK /\ LonelyOK

(* Nobody exits, main does not shut the pool down, no task is added. *)
LEMMA QuietFrame ==
  ASSUME QuietInv, active' = active, Waiting' \subseteq Waiting,
         pc'[Main] \in AfterShutdown <=> pc[Main] \in AfterShutdown,
         pc'[Main] = "destroyed" => pc[Main] = "destroyed",
         \A w \in Workers : pc'[w] = "exited" <=> pc[w] = "exited"
  PROVE  ActiveOK' /\ EmptyOK' /\ DestroyedOK'
<1>1. ActiveOK'
  BY DEF QuietInv, ActiveOK
<1>2. EmptyOK'
  BY DEF QuietInv, EmptyOK
<1>3. DestroyedOK'
  BY DEF QuietInv, DestroyedOK
<1> QED
  BY <1>1, <1>2, <1>3

(* A thread other than main after its join. *)
LEMMA QuietMove ==
  ASSUME ControlInv, QuietInv, active' = active, Waiting' \subseteq Waiting,
         NEW th \in Thread, Others(th),
         pc[th] \notin AfterShutdown \cup {"exited"}, pc'[th] \notin AfterShutdown \cup {"exited"}
  PROVE  ActiveOK' /\ EmptyOK' /\ DestroyedOK'
<1> USE Basics
<1>1. \A v \in Thread : /\ pc'[v] \in AfterShutdown <=> pc[v] \in AfterShutdown
                        /\ pc'[v] = "destroyed" <=> pc[v] = "destroyed"
                        /\ pc'[v] = "exited" <=> pc[v] = "exited"
  BY DEF Others, Woken, AfterShutdown
<1> QED
  BY <1>1, QuietFrame

(* A task is added by a thread that has not exited. *)
LEMMA ForkQuiet ==
  ASSUME ControlInv, QuietInv, NEW th \in Thread, Fork(th)
  PROVE  ActiveOK' /\ EmptyOK' /\ DestroyedOK'
<1> USE Basics
<1>1. /\ pc[th] = "fork" /\ pc'[th] = "forked" /\ \A v \in Thread : v # th => pc'[v] = pc[v]
  BY ForkMoves DEF ControlInv
<1>2. active' = active
  BY DEF Fork
<1>3. ActiveOK' /\ DestroyedOK'
  BY <1>1, <1>2 DEF QuietInv, ActiveOK, DestroyedOK, AfterShutdown
<1>4. EmptyOK'
  <2>1. CASE th \in Workers
    BY <1>1, <2>1 DEF EmptyOK
  <2>2. CASE th = Main
    <3>1. \A w \in Workers : pc'[w] # "exited"
      BY <1>1, <2>2 DEF QuietInv, ActiveOK, AfterShutdown
    <3> QED
      BY <3>1 DEF EmptyOK
  <2> QED
    BY <2>1, <2>2 DEF Thread
<1> QED
  BY <1>3, <1>4

LEMMA FindNoTaskQuiet ==
  ASSUME ControlInv, QuietInv, NEW w \in Workers, FindNoTask(w)
  PROVE  ActiveOK' /\ EmptyOK' /\ DestroyedOK'
<1> USE Basics
<1>1. /\ pc[w] = "lock" /\ pc'[w] = SleepOrExit(w) /\ \A v \in Thread : v # w => pc'[v] = pc[v]
  BY DEF FindNoTask, ControlInv, TypeOK
<1>2. active' = active /\ Waiting' = {}
  BY DEF FindNoTask, tableVars, poolVars, Waiting, Forked
<1>3. SleepOrExit(w) \in {"wait", "exited"}
  BY DEF SleepOrExit
<1>4. SleepOrExit(w) = "exited" => active = FALSE
  <2>1. active \in BOOLEAN
    BY DEF ControlInv, TypeOK
  <2> QED
    BY <2>1, Zenon DEF SleepOrExit
<1>5. ActiveOK'
  BY <1>1, <1>2, <1>3, <1>4 DEF QuietInv, ActiveOK
<1>6. EmptyOK' /\ DestroyedOK'
  BY <1>1, <1>2, <1>3 DEF QuietInv, EmptyOK, DestroyedOK
<1> QED
  BY <1>5, <1>6

LEMMA ShutdownQuiet ==
  ASSUME ControlInv, QuietInv, Shutdown
  PROVE  ActiveOK' /\ EmptyOK' /\ DestroyedOK'
<1> USE Basics
<1>1. /\ pc[Main] = "shutdown" /\ active' = FALSE /\ Waiting' = Waiting
  BY DEF Shutdown, tableVars, Waiting, Forked
<1>2. /\ pc'[Main] = "join workers"
      /\ \A w \in Workers : pc'[w] = "exited" <=> pc[w] = "exited"
  BY DEF Shutdown, Asleep
<1> QED
  BY <1>1, <1>2 DEF QuietInv, ActiveOK, EmptyOK, DestroyedOK, AfterShutdown

LEMMA DestroyQuiet ==
  ASSUME ControlInv, QuietInv, Destroy
  PROVE  ActiveOK' /\ EmptyOK' /\ DestroyedOK'
<1> USE Basics
<1>1. /\ pc[Main] = "join workers" /\ active' = active /\ Waiting' = Waiting
      /\ \A w \in Workers : pc[w] = "exited"
  BY DEF Destroy, tableVars, poolVars, Waiting, Forked
<1>2. pc'[Main] = "destroyed" /\ \A w \in Workers : pc'[w] = pc[w]
  BY DEF Destroy, ControlInv, TypeOK
<1> QED
  BY <1>1, <1>2 DEF QuietInv, ActiveOK, EmptyOK, DestroyedOK, AfterShutdown

LEMMA QuietInit == Init => QuietInv
<1> USE Basics
<1> SUFFICES ASSUME Init PROVE QuietInv
  OBVIOUS
<1>1. pc[Main] = "fork" /\ \A w \in Workers : pc[w] = "lock"
  BY DEF Init
<1>2. Waiting = {}
  BY DEF Init, Waiting, Forked, Task
<1>3. ActiveOK
  BY <1>1 DEF Init, ActiveOK, AfterShutdown
<1> QED
  BY <1>1, <1>2, <1>3 DEF Init, QuietInv, EmptyOK, DestroyedOK, LonelyOK

LEMMA LonelyNext == ControlInv /\ LonelyOK /\ [Next]_vars => LonelyOK'
<1> SUFFICES ASSUME ControlInv, LonelyOK, [Next]_vars, Workers = {} PROVE LonelyOK'
  BY DEF LonelyOK
<1> USE Basics
<1>1. Thread = {Main}
  BY DEF Thread
<1>2. /\ \A t \in Task : status[t] = "WAITING"
      /\ pc[Main] \in {"fork", "forked", "join", "asleep"}
  BY DEF LonelyOK
<1>3. CASE UNCHANGED vars
  BY <1>2, <1>3 DEF vars, tableVars, LonelyOK
<1>4. ASSUME ForkFails(Main) PROVE LonelyOK'
  <2>1. status' = status /\ pc'[Main] \in {"fork", "join"}
    BY <1>1, <1>4, ForkFailsMoves DEF ForkFails, tableVars, ControlInv
  <2> QED
    BY <1>2, <2>1 DEF LonelyOK
<1>5. ASSUME Fork(Main) PROVE LonelyOK'
  <2>1. pc'[Main] = "forked" /\ status' = [status EXCEPT ![task_count] = "WAITING"]
    BY <1>1, <1>5, ForkMoves DEF Fork, ControlInv
  <2> QED
    BY <1>2, <2>1 DEF LonelyOK, ControlInv, TypeOK
<1>6. ASSUME ForkSignal(Main) PROVE LonelyOK'
  <2>1. status' = status /\ pc'[Main] \in {"fork", "join"}
    BY <1>1, <1>6, ForkSignalMoves DEF ForkSignal, ControlInv
  <2> QED
    BY <1>2, <2>1 DEF LonelyOK
<1>7. ASSUME JoinReturns(Main) PROVE FALSE
  <2>1. Joined(Main) \in Task
    BY <1>7 DEF JoinReturns, Joined, ControlInv, TypeOK, Maybe
  <2> QED
    BY <1>2, <1>7, <2>1 DEF JoinReturns
<1>8. ASSUME JoinFaults(Main) \/ JoinWaits(Main) \/ SpuriousWakeup(Main) PROVE LonelyOK'
  <2>1. status' = status /\ pc'[Main] \in {"join", "asleep"}
    BY <1>2, <1>8 DEF JoinFaults, JoinWaits, SpuriousWakeup, tableVars, ControlInv, TypeOK
  <2> QED
    BY <1>2, <2>1 DEF LonelyOK
<1>9. ASSUME ShowResult \/ Shutdown \/ Destroy PROVE FALSE
  BY <1>2, <1>9 DEF ShowResult, Shutdown, Destroy
<1> HIDE DEF ControlInv, LonelyOK
<1> QED
  BY <1>1, <1>3, <1>4, <1>5, <1>6, <1>7, <1>8, <1>9 DEF Next, ThreadStep, Ended

LEMMA QuietNext == ControlInv /\ QuietInv /\ [Next]_vars => QuietInv'
<1> SUFFICES ASSUME ControlInv, QuietInv, [Next]_vars PROVE ActiveOK' /\ EmptyOK' /\ DestroyedOK'
  BY LonelyNext DEF QuietInv
<1> USE Basics
<1> DEFINE Quiet == ActiveOK' /\ EmptyOK' /\ DestroyedOK'
<1>1. ASSUME UNCHANGED vars PROVE Quiet
  BY <1>1, QuietFrame DEF vars, tableVars, poolVars, Waiting, Forked
<1>2. ASSUME NEW th \in Thread, ForkFails(th) \/ JoinReturns(th) \/ JoinFaults(th) \/ JoinWaits(th)
                                \/ SpuriousWakeup(th)
      PROVE  Quiet
  <2>1. Waiting' = Waiting
    BY <1>2, ForkFailsNeutral, JoinReturnsNeutral, OtherThreadStepsNeutral
    DEF Neutral, SameTable, Waiting
  <2>2. active' = active
    BY <1>2 DEF ForkFails, JoinReturns, JoinFaults, JoinWaits, SpuriousWakeup, poolVars
  <2>3. /\ Others(th) /\ pc[th] \in {"fork", "join", "asleep", "wait"}
        /\ pc'[th] \in {"fork", "join", "asleep", "joined", "lock"}
    BY <1>2, ForkFailsMoves, JoinReturnsMoves
    DEF JoinFaults, JoinWaits, SpuriousWakeup, ControlInv, TypeOK, Others, Woken
  <2> QED
    BY <2>1, <2>2, <2>3, QuietMove DEF AfterShutdown
<1>3. ASSUME NEW th \in Thread, Fork(th) PROVE Quiet
  BY <1>3, ForkQuiet
<1>4. ASSUME NEW th \in Thread, ForkSignal(th) PROVE Quiet
  <2>1. /\ pc[th] = "forked" /\ pc'[th] \in {"fork", "join"} /\ Others(th)
    BY <1>4, ForkSignalMoves DEF ControlInv, Others, Woken, Asleep
  <2>2. Waiting' = Waiting /\ active' = active
    BY <1>4 DEF ForkSignal, poolVars, Forked, Waiting
  <2> QED
    BY <2>1, <2>2, QuietMove DEF AfterShutdown
<1>5. ASSUME NEW w \in Workers, FindNoTask(w) PROVE Quiet
  BY <1>5, FindNoTaskQuiet
<1>6. ASSUME NEW w \in Workers, ScanFaults(w) PROVE Quiet
  BY <1>6, QuietFrame DEF ScanFaults, tableVars, poolVars, Waiting, Forked
<1>7. ASSUME NEW w \in Workers, FindTask(w) PROVE Quiet
  <2>1. /\ pc[w] = "lock" /\ pc'[w] = "found" /\ Others(w)
    BY <1>7 DEF FindTask, ControlInv, TypeOK, Others, Woken
  <2>2. Waiting' = Waiting /\ active' = active
    BY <1>7 DEF FindTask, tableVars, poolVars, Forked, Waiting
  <2> QED
    BY <2>1, <2>2, QuietMove DEF AfterShutdown
<1>8. ASSUME NEW w \in Workers, MarkRunning(w) PROVE Quiet
  <2>1. /\ pc[w] = "found" /\ pc'[w] = "run" /\ Others(w)
    BY <1>8 DEF MarkRunning, ControlInv, TypeOK, Others, Woken
  <2>2. Waiting' \subseteq Waiting /\ active' = active
    BY <1>8 DEF MarkRunning, poolVars, Forked, Waiting, ControlInv, TypeOK
  <2> QED
    BY <2>1, <2>2, QuietMove DEF AfterShutdown
<1>9. ASSUME NEW w \in Workers, Run(w) \/ RunFails(w) \/ Sum(w) PROVE Quiet
  <2>1. /\ pc[w] \in {"run", "joined"} /\ pc'[w] \in {"fork", "store", "joined"} /\ Others(w)
    <3>1. /\ pc[w] \in {"run", "joined"}
          /\ \/ pc' = pc /\ pc[w] = "joined"
             \/ \E l \in {"fork", "store"} : pc' = [pc EXCEPT ![w] = l]
      BY <1>9, RunMoves DEF Sum
    <3> QED
      BY <3>1 DEF ControlInv, TypeOK, Others, Woken
  <2>2. Waiting' = Waiting /\ active' = active
    BY <1>9 DEF Run, RunFails, Sum, tableVars, poolVars, Forked, Waiting
  <2> QED
    BY <2>1, <2>2, QuietMove DEF AfterShutdown
<1>10. ASSUME NEW w \in Workers, Store(w) PROVE Quiet
  <2>1. /\ pc[w] = "store" /\ pc'[w] \in {"lock", "stored"} /\ Others(w)
    BY <1>10, StoreMoves DEF Others, Woken
  <2>2. Waiting' = Waiting /\ active' = active
    BY <1>10, StoreMoves
  <2> QED
    BY <2>1, <2>2, QuietMove DEF AfterShutdown
<1>11. ASSUME NEW w \in Workers, Report(w) PROVE Quiet
  <2>1. /\ pc[w] = "stored" /\ pc'[w] = "lock" /\ Others(w)
    BY <1>11, ReportMoves DEF ControlInv
  <2>2. Waiting' = Waiting /\ active' = active
    BY <1>11 DEF Report, poolVars, Forked, Waiting
  <2> QED
    BY <2>1, <2>2, QuietMove DEF AfterShutdown
<1>12. ASSUME ShowResult PROVE Quiet
  BY <1>12, QuietFrame DEF ShowResult, tableVars, poolVars, Forked, Waiting, AfterShutdown,
                           ControlInv, TypeOK
<1>13. ASSUME Shutdown PROVE Quiet
  BY <1>13, ShutdownQuiet
<1>14. ASSUME Destroy PROVE Quiet
  BY <1>14, DestroyQuiet
<1> HIDE DEF ControlInv, QuietInv, Quiet
<1>15. ASSUME NEW th \in Thread, ThreadStep(th) \/ SpuriousWakeup(th) PROVE Quiet
  BY <1>2, <1>3, <1>4, <1>5, <1>6, <1>7, <1>8, <1>9, <1>10, <1>11, <1>12, <1>13, <1>14, <1>15
  DEF ThreadStep, WorkerStep, Thread
<1>16. Quiet
  BY <1>1, <1>15 DEF Next, Ended
<1> QED
  BY <1>16 DEF Quiet

-----------------------------------------------------------------------------
(* The theorems *)

IndInv == ControlInv /\ WakeupInv /\ CountInv /\ QuietInv

(* Together the four layers are an invariant.                               *)
THEOREM IndInvHolds == Spec => []IndInv
<1>1. Init => IndInv
  BY ControlInit, WakeupInit, CountInit, QuietInit DEF IndInv
<1>2. IndInv /\ [Next]_vars => IndInv'
  BY ControlNext, WakeupNext, CountNext, QuietNext DEF IndInv
<1> QED
  BY <1>1, <1>2, PTL DEF Spec

(* Every variable keeps its type: every index used is one of the table as   *)
(* long as the code's own checks and undefined steps are heeded.            *)
THEOREM TypeCorrect == Spec => []TypeOK
<1>1. IndInv => TypeOK
  BY DEF IndInv, ControlInv
<1> QED
  BY <1>1, IndInvHolds, PTL

(* A task that runs is run by exactly one worker, any other by none:        *)
(* get_next_task (mytpool.c:13-28) never hands a task out twice.            *)
THEOREM TasksRunOnce == Spec => []OneWorkerPerTask
<1>1. IndInv => OneWorkerPerTask
  <2> SUFFICES ASSUME ControlInv, NEW t \in Task
               PROVE  Cardinality(WorksOn(t)) = IF status[t] = "RUNNING" THEN 1 ELSE 0
    BY DEF IndInv, OneWorkerPerTask
  <2>1. \A w \in Workers : pc[w] \notin {"lock", "wait", "found", "stored", "exited"} <=> pc[w] \in WorkPc
    BY DEF ControlInv, PcOK, WorkerPc, WorkPc
  <2>2. WorksOn(t) = {w \in Workers : task[w] = t /\ pc[w] \in WorkPc}
    BY <2>1 DEF WorksOn
  <2>3. CASE status[t] = "RUNNING"
    <3>1. PICK w \in Workers : pc[w] \in WorkPc /\ task[w] = t
      BY <2>3 DEF ControlInv, StatusOK, RunnerOK
    <3>2. WorksOn(t) = {w}
      BY <2>2, <3>1 DEF ControlInv, StatusOK, SoleOK
    <3> QED
      BY <2>3, <3>2, FS_Singleton
  <2>4. CASE status[t] # "RUNNING"
    <3>1. WorksOn(t) = {}
      BY <2>2, <2>4 DEF ControlInv, StatusOK, WorkerOK
    <3> QED
      BY <2>4, <3>1, FS_EmptySet
  <2> QED
    BY <2>3, <2>4
<1> QED
  BY <1>1, IndInvHolds, PTL

(* While a worker sleeps, there is a worker on its way to the table for     *)
(* every task that waits: signals given under pool_lock (mytask.c:33) are   *)
(* never lost on the waiting loop (mytpool.c:13-15).                        *)
THEOREM WakeupsReachWorkers == Spec => []NoLostWakeup
<1>1. IndInv => NoLostWakeup
  <2>1. Coming = {w \in Workers : pc[w] = "lock"}
    BY DEF Coming
  <2> QED
    BY <2>1, Sizes DEF IndInv, WakeupInv, NoLostWakeup
<1> QED
  BY <1>1, IndInvHolds, PTL

(* completed_children counts the children that have reported and never      *)
(* exceeds child_count: a child is counted before a worker can take it.     *)
THEOREM ChildrenAreCounted == Spec => []ChildrenCounted
<1>1. IndInv => ChildrenCounted
  <2> SUFFICES ASSUME ControlInv, CountInv, NEW t \in Task
               PROVE  /\ completed_children[t] <= child_count[t]
                      /\ completed_children[t] = Cardinality({c \in Forked :
                           /\ parent_id[c] = t /\ status[c] = "COMPLETED"
                           /\ \A w \in Workers : ~(task[w] = c /\ pc[w] = "stored")})
    BY DEF IndInv, ChildrenCounted
  <2>1. Reported(t) = {c \in Forked : /\ parent_id[c] = t /\ status[c] = "COMPLETED"
                                      /\ \A w \in Workers : ~(task[w] = c /\ pc[w] = "stored")}
    BY DEF Reported, IsReported
  <2>2. \A c \in Forked : InFork(c) => status[c] = "WAITING"
    BY DEF InFork, CountInv, AnnounceOK, Waiting
  <2>3. Reported(t) \subseteq Counted(t)
    BY <2>2 DEF Reported, IsReported, Counted
  <2>4. Cardinality(Reported(t)) <= Cardinality(Counted(t))
    BY <2>3, CountSizes, FS_Subset
  <2>5. completed_children[t] = Cardinality(Reported(t)) /\ child_count[t] = Cardinality(Counted(t))
    BY DEF CountInv, CountedOK, ReportedOK
  <2> QED
    BY <2>1, <2>4, <2>5
<1> QED
  BY <1>1, IndInvHolds, PTL

(* When main destroys the locks every worker has exited, nobody holds a     *)
(* lock and every task that was forked is completed (mytpool.c:112-123).    *)
THEOREM DestroyFindsQuiet == Spec => []QuietWhenDestroyed
<1>1. IndInv => QuietWhenDestroyed
  <2> SUFFICES ASSUME ControlInv, QuietInv, pc[Main] = "destroyed"
               PROVE  /\ pool_lock = Nobody /\ \A t \in Task : lock[t] = Nobody
                      /\ \A w \in Workers : pc[w] = "exited"
                      /\ \A t \in Forked : status[t] = "COMPLETED"
    BY DEF IndInv, QuietWhenDestroyed
  <2> USE Basics
  <2>1. (\A w \in Workers : pc[w] = "exited") /\ Workers # {}
    BY DEF QuietInv, DestroyedOK, LonelyOK
  <2>2. Waiting = {}
    BY <2>1 DEF QuietInv, EmptyOK
  <2>3. pool_lock = Nobody
    BY <2>1 DEF ControlInv, PoolLockOK, TypeOK, Thread, Holding
  <2>4. \A t \in Task : lock[t] = Nobody
    BY <2>1 DEF ControlInv, TaskLockOK, TypeOK
  <2>5. \A t \in Forked : status[t] = "COMPLETED"
    <3>1. \A t \in Task : status[t] \notin {"RUNNING", "FAILED"}
      BY <2>1 DEF ControlInv, StatusOK, RunnerOK, RangeOK, WorkPc
    <3> QED
      BY <2>2, <3>1 DEF Waiting, Forked, ControlInv, TypeOK
  <2> QED
    BY <2>1, <2>3, <2>4, <2>5
<1> QED
  BY <1>1, IndInvHolds, PTL

-----------------------------------------------------------------------------
(* fib *)

(* The set of the intervals 0 .. m is well-founded under strict inclusion.  *)
LEMMA Least ==
  ASSUME NEW S \in SUBSET Nat, S # {}
  PROVE  \E m \in S : \A k \in S : m <= k
<1> DEFINE Below == {0 .. m : m \in S}
<1>1. Below \subseteq FiniteSubsetsOf(Nat) /\ Below # {}
  <2>1. ASSUME NEW m \in S PROVE 0 .. m \in FiniteSubsetsOf(Nat)
    BY FS_Interval DEF FiniteSubsetsOf
  <2> QED
    BY <2>1
<1>2. PICK B \in Below : \A C \in Below : <<C, B>> \notin StrictSubsetOrdering(Nat)
  <2> HIDE DEF Below
  <2> QED
    BY <1>1, FS_StrictSubsetOrderingWellFounded, WFMin
<1>3. PICK m \in S : B = 0 .. m
  BY <1>2
<1>4. ASSUME NEW k \in S PROVE m <= k
  <2>1. 0 .. k \in Below
    OBVIOUS
  <2>2. <<0 .. k, 0 .. m>> \notin StrictSubsetOrdering(Nat)
    BY <1>2, <1>3, <2>1
  <2>3. ~(0 .. k \subseteq 0 .. m /\ 0 .. k # 0 .. m)
    BY <2>2 DEF StrictSubsetOrdering
  <2> QED
    BY <2>3
<1> QED
  BY <1>4

(* g is fib up to k. *)
Approximates(g, k) ==
  \A i \in 0 .. k : g[i] = IF i <= 1 THEN i ELSE g[i - 1] + g[i - 2]

LEMMA ApproximationsAgree ==
  ASSUME NEW j \in Nat, NEW k \in Nat, NEW g, NEW h, Approximates(g, j), Approximates(h, k),
         NEW i \in Nat, i <= j, i <= k
  PROVE  g[i] = h[i]
<1> DEFINE S == {x \in Nat : x <= j /\ x <= k /\ g[x] # h[x]}
<1> SUFFICES ASSUME S # {} PROVE FALSE
  OBVIOUS
<1>1. PICK m \in S : \A x \in S : m <= x
  <2> HIDE DEF S
  <2>1. S \in SUBSET Nat
    BY DEF S
  <2> QED
    BY <2>1, Least
<1>2. /\ g[m] = IF m <= 1 THEN m ELSE g[m - 1] + g[m - 2]
      /\ h[m] = IF m <= 1 THEN m ELSE h[m - 1] + h[m - 2]
  BY <1>1 DEF Approximates
<1>3. CASE m <= 1
  BY <1>1, <1>2, <1>3
<1>4. CASE ~(m <= 1)
  <2>1. g[m - 1] = h[m - 1] /\ g[m - 2] = h[m - 2]
    BY <1>1, <1>4
  <2> QED
    BY <1>1, <1>2, <1>4, <2>1
<1> QED
  BY <1>3, <1>4

LEMMA ApproximationExists ==
  ASSUME NEW k \in Nat
  PROVE  \E g : Approximates(g, k)
<1> DEFINE S == {x \in Nat : ~\E g : Approximates(g, x)}
<1> SUFFICES ASSUME S # {} PROVE FALSE
  OBVIOUS
<1>1. PICK m \in S : \A x \in S : m <= x
  <2> HIDE DEF S
  <2>1. S \in SUBSET Nat
    BY DEF S
  <2> QED
    BY <2>1, Least
<1>2. m \in Nat /\ ~\E g : Approximates(g, m)
  BY <1>1
<1>3. CASE m = 0
  <2>1. Approximates([i \in 0 .. 0 |-> i], m)
    BY <1>3 DEF Approximates
  <2> QED
    BY <1>2, <2>1
<1>4. CASE m > 0
  <2>1. PICK h : Approximates(h, m - 1)
    BY <1>1, <1>4
  <2> DEFINE g == [i \in 0 .. m |-> IF i < m THEN h[i] ELSE IF m <= 1 THEN m ELSE h[m - 1] + h[m - 2]]
  <2>2. ASSUME NEW i \in 0 .. m PROVE g[i] = IF i <= 1 THEN i ELSE g[i - 1] + g[i - 2]
    <3>1. CASE i < m
      <4>1. h[i] = IF i <= 1 THEN i ELSE h[i - 1] + h[i - 2]
        BY <1>2, <2>1, <3>1 DEF Approximates
      <4> QED
        BY <1>2, <3>1, <4>1
    <3>2. CASE i = m
      BY <1>2, <1>4, <3>2
    <3> QED
      BY <1>2, <3>1, <3>2
  <2>3. Approximates(g, m)
    BY <2>2 DEF Approximates
  <2> QED
    BY <1>2, <2>3
<1> QED
  BY <1>2, <1>3, <1>4

(* The recursive definition of fib has a solution, so fib is one.           *)
LEMMA FibEquation ==
  \A k \in Nat : fib[k] = IF k <= 1 THEN k ELSE fib[k - 1] + fib[k - 2]
<1> DEFINE G(k) == CHOOSE g : Approximates(g, k)
           F == [k \in Nat |-> G(k)[k]]
<1>1. ASSUME NEW k \in Nat PROVE Approximates(G(k), k)
  BY ApproximationExists
<1>2. ASSUME NEW k \in Nat, NEW i \in 0 .. k PROVE G(k)[i] = F[i]
  <2>1. Approximates(G(k), k) /\ Approximates(G(i), i) /\ i \in Nat /\ i <= k
    BY <1>1
  <2> HIDE DEF G
  <2> QED
    BY <2>1, ApproximationsAgree
<1>3. ASSUME NEW k \in Nat PROVE F[k] = IF k <= 1 THEN k ELSE F[k - 1] + F[k - 2]
  <2>1. G(k)[k] = IF k <= 1 THEN k ELSE G(k)[k - 1] + G(k)[k - 2]
    BY <1>1 DEF Approximates
  <2> HIDE DEF G
  <2>2. F[k] = G(k)[k]
    OBVIOUS
  <2>3. ~(k <= 1) => G(k)[k - 1] = F[k - 1] /\ G(k)[k - 2] = F[k - 2]
    BY <1>2
  <2> HIDE DEF F
  <2> QED
    BY <2>1, <2>2, <2>3
<1>4. F = [k \in Nat |-> IF k <= 1 THEN k ELSE F[k - 1] + F[k - 2]]
  <2> HIDE DEF G
  <2>1. F = [k \in Nat |-> F[k]]
    OBVIOUS
  <2> HIDE DEF F
  <2> QED
    BY <1>3, <2>1
<1>5. fib = CHOOSE g : g = [k \in Nat |-> IF k <= 1 THEN k ELSE g[k - 1] + g[k - 2]]
  BY Zenon DEF fib
<1>6. fib = [k \in Nat |-> IF k <= 1 THEN k ELSE fib[k - 1] + fib[k - 2]]
  <2> HIDE DEF F
  <2> QED
    BY <1>4, <1>5, Zenon
<1> QED
  BY <1>6

-----------------------------------------------------------------------------
(* The invariant *)

(* The children a thread has forked for its task, and those it has joined.  *)
HasChild(th, k) ==
  \/ pc[th] = "fork" /\ k < step[th]
  \/ pc[th] = "forked" /\ k <= step[th]
  \/ pc[th] \in {"join", "asleep"} /\ (th = Main => k = 1)

HasRes(th, k) == \/ pc[th] \in {"join", "asleep"} /\ k < step[th]
                 \/ pc[th] = "joined" /\ (th = Main => k = 1)

(* Some task completed with a null pointer for a result. *)
NullSeen == \E t \in Forked : status[t] = "COMPLETED" /\ result[t] = NULL

StepOK == \A w \in Workers : pc[w] \notin {"fork", "forked", "join", "asleep"} => step[w] = 1

ChildOK(th) ==
  \A k \in 1 .. 2 : HasChild(th, k) =>
    \/ child[th][k] = NULL /\ task_count > MAX_TASKS
    \/ child[th][k] \in Forked /\ (th # Main => arg[child[th][k]] = arg[task[th]] - k)

ResOK(th) ==
  \A k \in 1 .. 2 : HasRes(th, k) =>
    \/ res[th][k] = NULL /\ NullSeen
    \/ res[th][k] # NULL /\ (th # Main => res[th][k] = fib[arg[task[th]] - k])

StoredOK(w) == pc[w] = "store" => Value(w) \in {fib[arg[task[w]]], NULL}

ValueInv == /\ StepOK
            /\ \A th \in Thread : ChildOK(th) /\ ResOK(th)
            /\ \A w \in Workers : StoredOK(w)
            /\ ResultsCorrect /\ FaultsExplained

-----------------------------------------------------------------------------
(* Threads that stand by *)

(* What is in the table stays there. *)
Grows == /\ task_count' \in Nat /\ task_count <= task_count'
         /\ \A t \in Forked : /\ t \in Forked' /\ arg'[t] = arg[t]
                              /\ status[t] = "COMPLETED" =>
                                   status'[t] = "COMPLETED" /\ result'[t] = result[t]

(* v is where it was, goes on waiting for the same task, or is not at       *)
(* work on a task, or no longer; it keeps what it has.                      *)
Bystander(v) ==
  /\ \/ pc'[v] = pc[v]
     \/ pc[v] \in {"join", "asleep"} /\ pc'[v] \in {"join", "asleep"}
     \/ pc[v] \notin {"fork", "forked", "join", "asleep"} /\ pc'[v] \notin SplitPc \cup {"store"}
  /\ step'[v] = step[v] /\ child'[v] = child[v] /\ res'[v] = res[v]
  /\ v \in Workers /\ pc[v] \in WorkPc => task'[v] = task[v]

LEMMA SeenStays == ASSUME Grows, NullSeen PROVE NullSeen'
BY DEF Grows, NullSeen

LEMMA BystanderKeeps ==
  ASSUME ControlInv, ValueInv, Grows, NEW v \in Thread, Bystander(v)
  PROVE  ChildOK(v)' /\ ResOK(v)' /\ (v \in Workers => StoredOK(v)')
<1> USE Basics
<1>1. \A k \in 1 .. 2 : /\ HasChild(v, k)' => HasChild(v, k)
                        /\ HasRes(v, k)' => HasRes(v, k)
  BY DEF Bystander, SplitPc, HasChild, HasRes
<1>2. task_count \in Nat /\ task_count' >= task_count
  BY DEF ControlInv, TypeOK, Grows
<1>3. ASSUME v # Main, pc[v] \in WorkPc PROVE task'[v] = task[v] /\ arg'[task[v]] = arg[task[v]]
  BY <1>3, WorkingArg DEF Bystander, Grows, Thread
<1>4. ASSUME NEW k \in 1 .. 2, HasChild(v, k)
      PROVE  \/ child'[v][k] = NULL /\ task_count' > MAX_TASKS
             \/ child'[v][k] \in Forked' /\ (v # Main => arg'[child'[v][k]] = arg'[task'[v]] - k)
  <2>1. pc[v] \in WorkPc
    BY <1>4 DEF HasChild, WorkPc
  <2>2. child'[v] = child[v]
    BY DEF Bystander
  <2>3. CASE child[v][k] = NULL /\ task_count > MAX_TASKS
    BY <1>2, <2>2, <2>3, ForkJoinAssumption DEF ControlInv, TypeOK, Grows
  <2>4. CASE child[v][k] \in Forked /\ (v # Main => arg[child[v][k]] = arg[task[v]] - k)
    BY <1>3, <2>1, <2>2, <2>4 DEF Grows
  <2> QED
    BY <1>4, <2>3, <2>4 DEF ValueInv, ChildOK
<1>5. ASSUME NEW k \in 1 .. 2, HasRes(v, k)
      PROVE  \/ res'[v][k] = NULL /\ NullSeen'
             \/ res'[v][k] # NULL /\ (v # Main => res'[v][k] = fib[arg'[task'[v]] - k])
  <2>1. pc[v] \in WorkPc
    BY <1>5 DEF HasRes, WorkPc
  <2>2. res'[v] = res[v]
    BY DEF Bystander
  <2>3. CASE res[v][k] = NULL /\ NullSeen
    BY <2>2, <2>3, SeenStays
  <2>4. CASE res[v][k] # NULL /\ (v # Main => res[v][k] = fib[arg[task[v]] - k])
    BY <1>3, <2>1, <2>2, <2>4
  <2> QED
    BY <1>5, <2>3, <2>4 DEF ValueInv, ResOK
<1>6. ASSUME v \in Workers, pc'[v] = "store" PROVE Value(v)' \in {fib[arg'[task'[v]]], NULL}
  <2>1. pc[v] = "store" /\ Value(v)' = Value(v)
    BY <1>6 DEF Bystander, Value
  <2> QED
    BY <1>3, <1>6, <2>1 DEF ValueInv, StoredOK, WorkPc
<1>7. ChildOK(v)'
  BY <1>1, <1>4 DEF ChildOK
<1>8. ResOK(v)'
  BY <1>1, <1>5 DEF ResOK
<1>9. v \in Workers => StoredOK(v)'
  BY <1>6 DEF StoredOK
<1> QED
  BY <1>7, <1>8, <1>9

(* A step of one thread, after which a new result is the right one. *)
LEMMA ValueStep ==
  ASSUME ControlInv, ValueInv, Grows, NEW th \in Thread,
         \A v \in Thread : v # th => Bystander(v),
         \A t \in Task : status'[t] = "COMPLETED" =>
           \/ t \in Forked /\ status[t] = "COMPLETED"
           \/ result'[t] \in {fib[arg'[t]], NULL},
         undefined' = undefined \/ task_count > MAX_TASKS \/ NullSeen,
         ChildOK(th)', ResOK(th)', th \in Workers => StoredOK(th)',
         th \in Workers /\ pc'[th] \notin {"fork", "forked", "join", "asleep"} => step'[th] = 1
  PROVE  ValueInv'
<1> USE Basics
<1>1. \A v \in Thread : ChildOK(v)' /\ ResOK(v)'
  <2>1. ASSUME NEW v \in Thread PROVE ChildOK(v)' /\ ResOK(v)'
    <3>1. CASE v = th
      BY <3>1
    <3>2. CASE v # th
      BY <3>2, BystanderKeeps
    <3> QED
      BY <3>1, <3>2
  <2> QED
    BY <2>1
<1>2. \A w \in Workers : StoredOK(w)'
  <2>1. ASSUME NEW w \in Workers PROVE StoredOK(w)'
    <3>1. CASE w = th
      BY <3>1
    <3>2. CASE w # th
      BY <3>2, BystanderKeeps
    <3> QED
      BY <3>1, <3>2
  <2> QED
    BY <2>1
<1>3. StepOK'
  <2>1. ASSUME NEW w \in Workers, pc'[w] \notin {"fork", "forked", "join", "asleep"}
        PROVE  step'[w] = 1
    <3>1. CASE w # th
      BY <2>1, <3>1 DEF ValueInv, StepOK, Bystander
    <3> QED
      BY <2>1, <3>1
  <2> QED
    BY <2>1 DEF StepOK
<1>4. ResultsCorrect'
  BY DEF ValueInv, ResultsCorrect, Grows
<1>5. FaultsExplained'
  <2> SUFFICES ASSUME undefined' PROVE task_count' > MAX_TASKS \/ NullSeen'
    BY DEF FaultsExplained, NullSeen
  <2>1. task_count > MAX_TASKS \/ NullSeen
    <3>1. undefined => task_count > MAX_TASKS \/ NullSeen
      BY DEF ValueInv, FaultsExplained, NullSeen
    <3> QED
      BY <3>1, Zenon
  <2>2. CASE task_count > MAX_TASKS
    BY <2>2, ForkJoinAssumption DEF Grows, ControlInv, TypeOK
  <2> QED
    BY <2>1, <2>2, SeenStays
<1> QED
  BY <1>1, <1>2, <1>3, <1>4, <1>5 DEF ValueInv

LEMMA AllStandBy ==
  ASSUME ControlInv, ValueInv, Grows, \A v \in Thread : Bystander(v),
         \A t \in Task : status'[t] = "COMPLETED" =>
           \/ t \in Forked /\ status[t] = "COMPLETED"
           \/ result'[t] \in {fib[arg'[t]], NULL},
         undefined' = undefined \/ task_count > MAX_TASKS \/ NullSeen
  PROVE  ValueInv'
<1> USE Basics
<1>1. ChildOK(Main)' /\ ResOK(Main)'
  BY BystanderKeeps
<1> QED
  BY <1>1, ValueStep

LEMMA TableStays ==
  ASSUME ControlInv, UNCHANGED <<status, arg, result, task_count>>
  PROVE  /\ Grows
         /\ \A t \in Task : status'[t] = "COMPLETED" => t \in Forked /\ status[t] = "COMPLETED"
         /\ Forked' = Forked /\ (NullSeen' <=> NullSeen)
<1>1. Forked' = Forked /\ task_count \in Nat
  BY DEF Forked, ControlInv, TypeOK
<1>2. \A t \in Task : status[t] = "COMPLETED" => t \in Forked
  BY DEF ControlInv, StatusOK, WorkerOK, RangeOK
<1> QED
  BY <1>1, <1>2 DEF Grows, NullSeen

(* Steps of one thread that leave every thread where the table stands. *)
LEMMA StandByStep ==
  ASSUME ControlInv, ValueInv, UNCHANGED <<status, arg, result, task_count, step, child, res, task>>,
         undefined' = undefined \/ task_count > MAX_TASKS \/ NullSeen,
         NEW th \in Thread, Others(th),
         \/ pc'[th] = pc[th]
         \/ pc[th] \in {"join", "asleep"} /\ pc'[th] \in {"join", "asleep"}
         \/ pc[th] \notin {"fork", "forked", "join", "asleep"} /\ pc'[th] \notin SplitPc \cup {"store"}
  PROVE  ValueInv'
<1>1. \A v \in Thread : Bystander(v)
  BY DEF Bystander, Others, Woken, SplitPc
<1> QED
  BY <1>1, TableStays, AllStandBy

-----------------------------------------------------------------------------
(* fj_fork *)

(* What the table gets and what it keeps. *)
LEMMA ForkTable ==
  ASSUME ControlInv, NEW th \in Thread, Fork(th)
  PROVE  /\ Grows /\ task_count \in Forked'
         /\ \A t \in Task : status'[t] = "COMPLETED" => t \in Forked /\ status[t] = "COMPLETED"
         /\ th # Main => arg'[task_count] = arg[task[th]] - step[th]
<1> USE Basics
<1>1. /\ task_count \in Task /\ Forked' = Forked \cup {task_count} /\ task_count \notin Forked
      /\ task_count' = task_count + 1 /\ task_count \in Nat
  BY ForkJoinAssumption DEF Fork, Forked, Task, ControlInv, TypeOK
<1>2. /\ arg' = [arg EXCEPT ![task_count] = IF th = Main THEN n ELSE arg[task[th]] - step[th]]
      /\ result' = [result EXCEPT ![task_count] = NULL]
      /\ status' = [status EXCEPT ![task_count] = "WAITING"]
  BY DEF Fork
<1>3. \A t \in Forked : /\ arg'[t] = arg[t] /\ result'[t] = result[t] /\ status'[t] = status[t]
  BY <1>1, <1>2 DEF ControlInv, TypeOK, Forked
<1>4. \A t \in Task : status'[t] = "COMPLETED" => status[t] = "COMPLETED"
  BY <1>1, <1>2 DEF ControlInv, TypeOK
<1>5. \A t \in Task : status[t] = "COMPLETED" => t \in Forked
  BY DEF ControlInv, StatusOK, RangeOK
<1>6. th # Main => arg'[task_count] = arg[task[th]] - step[th]
  BY <1>1, <1>2 DEF ControlInv, TypeOK
<1> QED
  BY <1>1, <1>3, <1>4, <1>5, <1>6 DEF Grows

LEMMA ForkValue ==
  ASSUME ControlInv, ValueInv, NEW th \in Thread, Fork(th)
  PROVE  ValueInv'
<1> USE Basics
<1>1. /\ pc[th] = "fork" /\ pc'[th] = "forked" /\ \A v \in Thread : v # th => pc'[v] = pc[v]
  BY ForkMoves DEF ControlInv
<1>2. /\ child' = [child EXCEPT ![th][step[th]] = task_count]
      /\ UNCHANGED <<step, res, task, undefined>>
  BY DEF Fork
<1>3. PICK s \in 1 .. 2 : s = step[th]
  BY DEF ControlInv, TypeOK
<1>4. /\ \A v \in Thread : v # th => child'[v] = child[v]
      /\ \A k \in 1 .. 2 : child'[th][k] = IF k = s THEN task_count ELSE child[th][k]
  BY <1>2, <1>3 DEF ControlInv, TypeOK
<1>5. \A v \in Thread : v # th => Bystander(v)
  BY <1>1, <1>2, <1>4 DEF Bystander
<1>6. Grows /\ task_count \in Forked' /\ (th # Main => arg'[task_count] = arg[task[th]] - s)
  BY <1>3, ForkTable
<1>7. ASSUME NEW k \in 1 .. 2, HasChild(th, k)'
      PROVE  \/ child'[th][k] = NULL /\ task_count' > MAX_TASKS
             \/ child'[th][k] \in Forked' /\ (th # Main => arg'[child'[th][k]] = arg'[task'[th]] - k)
  <2>1. th # Main => task[th] \in Forked /\ arg'[task[th]] = arg[task[th]]
    BY <1>1, <1>6, WorkingArg DEF Thread, WorkPc, Grows
  <2>2. CASE k = s
    BY <1>2, <1>4, <1>6, <2>1, <2>2
  <2>3. CASE k # s
    <3>1. HasChild(th, k) /\ child'[th][k] = child[th][k]
      BY <1>1, <1>2, <1>3, <1>4, <1>7, <2>3 DEF HasChild
    <3>2. \/ child[th][k] = NULL /\ task_count > MAX_TASKS
          \/ child[th][k] \in Forked /\ (th # Main => arg[child[th][k]] = arg[task[th]] - k)
      BY <3>1 DEF ValueInv, ChildOK
    <3> QED
      BY <1>2, <1>6, <2>1, <3>1, <3>2, ForkJoinAssumption DEF Grows, ControlInv, TypeOK
  <2> QED
    BY <2>2, <2>3
<1>8. ChildOK(th)' /\ ResOK(th)'
  BY <1>1, <1>7 DEF ChildOK, ResOK, HasRes
<1>9. th \in Workers => StoredOK(th)'
  BY <1>1 DEF StoredOK
<1> QED
  BY <1>1, <1>2, <1>5, <1>6, <1>8, <1>9, ForkTable, ValueStep

(* After its fork a thread forks again or turns to its first join. *)
LEMMA ForkedMoves ==
  ASSUME ControlInv, NEW th \in Thread, ForkFails(th) \/ ForkSignal(th)
  PROVE  /\ \/ th # Main /\ step[th] = 1 /\ pc'[th] = "fork" /\ step'[th] = 2
            \/ (th = Main \/ step[th] = 2) /\ pc'[th] = "join" /\ step'[th] = 1
         /\ \A v \in Thread : v # th => step'[v] = step[v]
<1> USE Basics
<1>1. step' = [step EXCEPT ![th] = ForkedOne(th)[2]] /\ step[th] \in 1 .. 2
  BY DEF ForkFails, ForkSignal, ControlInv, TypeOK
<1>2. pc'[th] = ForkedOne(th)[1]
  <2>1. CASE ForkFails(th)
    BY <2>1 DEF ForkFails, ControlInv, TypeOK
  <2>2. CASE ForkSignal(th)
    <3>1. th \notin Asleep
      BY <2>2 DEF ForkSignal, Asleep
    <3>2. pc' = [pc EXCEPT ![th] = ForkedOne(th)[1]] \/
          \E w \in Asleep : pc' = [[pc EXCEPT ![th] = ForkedOne(th)[1]] EXCEPT ![w] = "lock"]
      BY <2>2 DEF ForkSignal
    <3> QED
      BY <3>1, <3>2 DEF ControlInv, TypeOK
  <2> QED
    BY <2>1, <2>2
<1>3. \/ th # Main /\ step[th] = 1 /\ ForkedOne(th)[1] = "fork" /\ ForkedOne(th)[2] = 2
      \/ (th = Main \/ step[th] = 2) /\ ForkedOne(th)[1] = "join" /\ ForkedOne(th)[2] = 1
  BY <1>1 DEF ForkedOne
<1> QED
  BY <1>1, <1>2, <1>3 DEF ControlInv, TypeOK

LEMMA ForkSignalValue ==
  ASSUME ControlInv, ValueInv, NEW th \in Thread, ForkSignal(th)
  PROVE  ValueInv'
<1> USE Basics
<1>1. pc[th] = "forked" /\ Others(th)
  BY ForkSignalMoves DEF ControlInv, Others, Woken, Asleep
<1>2. UNCHANGED <<status, arg, result, task_count, child, res, task, undefined>>
  BY DEF ForkSignal, poolVars
<1>3. \A v \in Thread : v # th => Bystander(v)
  BY <1>1, <1>2, ForkedMoves DEF Bystander, Others, Woken, SplitPc
<1>4. Grows /\ Forked' = Forked
      /\ \A t \in Task : status'[t] = "COMPLETED" => t \in Forked /\ status[t] = "COMPLETED"
  BY <1>2, TableStays
<1>5. \A k \in 1 .. 2 : HasChild(th, k)' => HasChild(th, k)
  <2>1. step[Main] = 1 /\ step[th] \in 1 .. 2
    BY DEF ControlInv, PcOK, TypeOK
  <2> QED
    BY <1>1, <2>1, ForkedMoves DEF HasChild
<1>6. \A k \in 1 .. 2 : ~HasRes(th, k)'
  BY ForkedMoves DEF HasRes
<1>7. ChildOK(th)' /\ ResOK(th)'
  <2>1. ChildOK(th)
    BY DEF ValueInv
  <2> QED
    BY <1>2, <1>4, <1>5, <1>6, <2>1 DEF ChildOK, ResOK
<1>8. th \in Workers => StoredOK(th)'
  BY ForkedMoves DEF StoredOK
<1> QED
  BY <1>2, <1>3, <1>4, <1>7, <1>8, ForkedMoves, ValueStep

LEMMA ForkFailsValue ==
  ASSUME ControlInv, ValueInv, NEW th \in Thread, ForkFails(th)
  PROVE  ValueInv'
<1> USE Basics
<1>1. pc[th] = "fork" /\ Others(th)
  BY ForkFailsMoves DEF ControlInv
<1>2. /\ UNCHANGED <<status, arg, result, res, task, undefined>>
      /\ task_count' = task_count + 1 /\ task_count >= MAX_TASKS
      /\ child' = [child EXCEPT ![th][step[th]] = NULL]
  BY DEF ForkFails, tableVars
<1>3. Forked' = Forked /\ Grows
      /\ \A t \in Task : status'[t] = "COMPLETED" => t \in Forked /\ status[t] = "COMPLETED"
  <2>1. Forked' = Forked
    BY ForkFailsNeutral DEF Neutral, SameTable
  <2>2. task_count' \in Nat /\ task_count' > task_count
    BY <1>2 DEF ControlInv, TypeOK
  <2> QED
    BY <1>2, <2>1, <2>2 DEF Grows, ControlInv, TypeOK, StatusOK, RangeOK
<1>4. PICK s \in 1 .. 2 : s = step[th]
  BY DEF ControlInv, TypeOK
<1>5. /\ \A v \in Thread : v # th => child'[v] = child[v]
      /\ \A k \in 1 .. 2 : child'[th][k] = IF k = s THEN NULL ELSE child[th][k]
  BY <1>2, <1>4 DEF ControlInv, TypeOK
<1>6. \A v \in Thread : v # th => Bystander(v)
  BY <1>1, <1>2, <1>5, ForkedMoves DEF Bystander, Others, Woken, SplitPc
<1>7. \A k \in 1 .. 2 : HasChild(th, k)' => k = s \/ HasChild(th, k)
  <2>1. step[Main] = 1
    BY DEF ControlInv, PcOK
  <2> QED
    BY <1>1, <1>4, <2>1, ForkedMoves DEF HasChild
<1>8. \A k \in 1 .. 2 : ~HasRes(th, k)'
  BY ForkedMoves DEF HasRes
<1>9. task_count' > MAX_TASKS
  BY <1>2, ForkJoinAssumption DEF ControlInv, TypeOK
<1>10. ChildOK(th)' /\ ResOK(th)'
  <2>1. ChildOK(th)
    BY DEF ValueInv
  <2>2. ASSUME NEW k \in 1 .. 2, HasChild(th, k)'
        PROVE  \/ child'[th][k] = NULL /\ task_count' > MAX_TASKS
               \/ child'[th][k] \in Forked' /\ (th # Main => arg'[child'[th][k]] = arg'[task'[th]] - k)
    <3>1. CASE k = s
      BY <1>5, <1>9, <3>1
    <3>2. CASE k # s
      BY <1>2, <1>3, <1>5, <1>7, <1>9, <2>1, <2>2, <3>2 DEF ChildOK
    <3> QED
      BY <3>1, <3>2
  <2> QED
    BY <1>8, <2>2 DEF ChildOK, ResOK
<1>11. th \in Workers => StoredOK(th)'
  BY ForkedMoves DEF StoredOK
<1> QED
  BY <1>2, <1>3, <1>6, <1>10, <1>11, ForkedMoves, ValueStep

-----------------------------------------------------------------------------
(* fj_join *)

LEMMA JoinReturnsValue ==
  ASSUME ControlInv, ValueInv, NEW th \in Thread, JoinReturns(th)
  PROVE  ValueInv'
<1> USE Basics
<1>0. PICK s, c : s \in 1 .. 2 /\ s = step[th] /\ c = Joined(th)
  BY DEF ControlInv, TypeOK
<1>1. pc[th] = "join" /\ Others(th)
  BY JoinReturnsMoves DEF ControlInv
<1>2. /\ UNCHANGED <<status, arg, result, task_count, child, task, undefined>>
      /\ res' = [res EXCEPT ![th][s] = result[c]] /\ c # NULL
      /\ status[c] \in {"COMPLETED", "FAILED"}
  BY <1>0 DEF JoinReturns, tableVars, poolVars
<1>3. Grows /\ Forked' = Forked /\ (NullSeen' <=> NullSeen)
      /\ \A t \in Task : status'[t] = "COMPLETED" => t \in Forked /\ status[t] = "COMPLETED"
  BY <1>2, TableStays
<1>4. /\ \A v \in Thread : v # th => res'[v] = res[v]
      /\ \A k \in 1 .. 2 : res'[th][k] = IF k = s THEN result[c] ELSE res[th][k]
  BY <1>0, <1>2 DEF ControlInv, TypeOK
<1>5. /\ \/ th # Main /\ s = 1 /\ pc'[th] = "join" /\ step'[th] = 2
         \/ (th = Main \/ s = 2) /\ pc'[th] = "joined" /\ step'[th] = 1
      /\ \A v \in Thread : v # th => step'[v] = step[v]
      /\ th = Main => s = 1
  BY <1>0 DEF JoinReturns, ControlInv, TypeOK, PcOK
<1>6. \A v \in Thread : v # th => Bystander(v)
  BY <1>1, <1>2, <1>4, <1>5 DEF Bystander, Others, Woken, SplitPc
<1>7. ChildOK(th)'
  <2>1. \A k \in 1 .. 2 : HasChild(th, k)' => HasChild(th, k)
    BY <1>1, <1>5 DEF HasChild
  <2>2. ChildOK(th)
    BY DEF ValueInv
  <2> QED
    BY <1>2, <1>3, <2>1, <2>2 DEF ChildOK
<1>8. c \in Forked /\ (th # Main => arg[c] = arg[task[th]] - s) /\ status[c] = "COMPLETED"
  <2>1. HasChild(th, s) /\ c = child[th][s]
    BY <1>0, <1>1, <1>5 DEF HasChild, Joined
  <2>2. c \in Forked /\ (th # Main => arg[c] = arg[task[th]] - s)
    BY <1>0, <1>2, <2>1 DEF ValueInv, ChildOK
  <2> QED
    BY <1>2, <2>2 DEF ControlInv, StatusOK, RangeOK, Forked
<1>9. result[c] \in {fib[arg[c]], NULL}
  BY <1>8 DEF ValueInv, ResultsCorrect, Forked
<1>10. ASSUME NEW k \in 1 .. 2, HasRes(th, k)'
       PROVE  \/ res'[th][k] = NULL /\ NullSeen'
              \/ res'[th][k] # NULL /\ (th # Main => res'[th][k] = fib[arg'[task'[th]] - k])
  <2>1. CASE k = s
    <3>1. res'[th][k] = result[c]
      BY <1>4, <2>1
    <3>2. CASE result[c] = NULL
      BY <1>3, <1>8, <3>1, <3>2 DEF NullSeen
    <3>3. CASE result[c] # NULL
      BY <1>2, <1>8, <1>9, <2>1, <3>1, <3>3
    <3> QED
      BY <3>2, <3>3
  <2>2. CASE k # s
    <3>1. HasRes(th, k) /\ res'[th][k] = res[th][k]
      BY <1>0, <1>1, <1>4, <1>5, <1>10, <2>2 DEF HasRes
    <3> QED
      BY <1>2, <1>3, <3>1 DEF ValueInv, ResOK
  <2> QED
    BY <2>1, <2>2
<1>11. ResOK(th)'
  BY <1>10 DEF ResOK
<1>12. th \in Workers => StoredOK(th)'
  BY <1>5 DEF StoredOK
<1> QED
  BY <1>2, <1>3, <1>5, <1>6, <1>7, <1>11, <1>12, ValueStep

-----------------------------------------------------------------------------
(* The steps that leave every thread where the table stands *)

LEMMA OtherThreadStepsValue ==
  ASSUME ControlInv, ValueInv, NEW th \in Thread, JoinFaults(th) \/ JoinWaits(th) \/ SpuriousWakeup(th)
  PROVE  ValueInv'
<1> USE Basics
<1>1. UNCHANGED <<status, arg, result, task_count, step, child, res, task>>
  BY DEF JoinFaults, JoinWaits, SpuriousWakeup, tableVars, poolVars, localVars
<1>2. /\ Others(th)
      /\ \/ pc'[th] = pc[th]
         \/ pc[th] \in {"join", "asleep"} /\ pc'[th] \in {"join", "asleep"}
         \/ pc[th] = "wait" /\ pc'[th] = "lock"
  BY DEF JoinFaults, JoinWaits, SpuriousWakeup, ControlInv, TypeOK, Others, Woken
<1>3. undefined' = undefined \/ task_count > MAX_TASKS \/ NullSeen
  <2>1. CASE JoinFaults(th)
    <3>1. pc[th] = "join" /\ child[th][step[th]] = NULL
      BY <2>1 DEF JoinFaults, Joined
    <3>2. PICK k \in 1 .. 2 : k = step[th]
      BY DEF ControlInv, TypeOK
    <3>3. HasChild(th, k) /\ child[th][k] = NULL
      BY <3>1, <3>2 DEF HasChild, ControlInv, PcOK
    <3> QED
      BY <3>3 DEF ValueInv, ChildOK, Forked
  <2>2. CASE JoinWaits(th) \/ SpuriousWakeup(th)
    BY <2>2 DEF JoinWaits, SpuriousWakeup
  <2> QED
    BY <2>1, <2>2
<1> QED
  BY <1>1, <1>2, <1>3, StandByStep DEF SplitPc

LEMMA IdleStepsValue ==
  ASSUME ControlInv, ValueInv, NEW w \in Workers, FindNoTask(w) \/ ScanFaults(w)
  PROVE  ValueInv'
<1> USE Basics
<1>1. UNCHANGED <<status, arg, result, task_count, step, child, res, task>>
  BY DEF FindNoTask, ScanFaults, tableVars, poolVars, localVars
<1>2. Others(w) /\ pc[w] = "lock" /\ pc'[w] \in {"lock", "wait", "exited"}
  BY DEF FindNoTask, ScanFaults, SleepOrExit, ControlInv, TypeOK, Others, Woken
<1>3. undefined' = undefined \/ task_count > MAX_TASKS
  BY DEF FindNoTask, ScanFaults
<1> QED
  BY <1>1, <1>2, <1>3, StandByStep DEF SplitPc

LEMMA FindTaskValue ==
  ASSUME ControlInv, ValueInv, NEW w \in Workers, FindTask(w)
  PROVE  ValueInv'
<1> USE Basics
<1>1. UNCHANGED <<status, arg, result, task_count, step, child, res, undefined>>
  BY DEF FindTask, tableVars, poolVars
<1>2. /\ pc[w] = "lock" /\ pc'[w] = "found" /\ \A v \in Thread : v # w => pc'[v] = pc[v]
      /\ \A v \in Workers : v # w => task'[v] = task[v]
  BY DEF FindTask, ControlInv, TypeOK
<1>3. \A v \in Thread : Bystander(v)
  BY <1>1, <1>2 DEF Bystander, SplitPc, WorkPc
<1> QED
  BY <1>1, <1>3, TableStays, AllStandBy

LEMMA MarkRunningValue ==
  ASSUME ControlInv, ValueInv, NEW w \in Workers, MarkRunning(w)
  PROVE  ValueInv'
<1> USE Basics
<1>1. /\ UNCHANGED <<arg, result, task_count, step, child, res, task, undefined>>
      /\ status' = [status EXCEPT ![task[w]] = "RUNNING"] /\ pc[w] = "found"
  BY DEF MarkRunning, poolVars, localVars
<1>2. pc'[w] = "run" /\ \A v \in Thread : v # w => pc'[v] = pc[v]
  BY DEF MarkRunning, ControlInv, TypeOK
<1>3. \A v \in Thread : Bystander(v)
  BY <1>1, <1>2 DEF Bystander, SplitPc
<1>4. task[w] \in Task /\ status[task[w]] = "WAITING"
  BY <1>1 DEF ControlInv, StatusOK, WorkerOK, Waiting, Forked
<1>5. \A t \in Task : status'[t] = "COMPLETED" <=> status[t] = "COMPLETED"
  BY <1>1, <1>4 DEF ControlInv, TypeOK
<1>6. \A t \in Task : status[t] = "COMPLETED" => t \in Forked
  BY DEF ControlInv, StatusOK, RangeOK
<1>7. Forked' = Forked /\ task_count' \in Nat /\ task_count <= task_count'
  BY <1>1 DEF Forked, ControlInv, TypeOK
<1>8. Grows
  BY <1>1, <1>5, <1>7 DEF Grows, Forked
<1> QED
  BY <1>1, <1>3, <1>5, <1>6, <1>8, AllStandBy

LEMMA ReportValue ==
  ASSUME ControlInv, ValueInv, NEW w \in Workers, Report(w)
  PROVE  ValueInv'
<1> USE Basics
<1>1. UNCHANGED <<status, arg, result, task_count, step, child, res, task, undefined>>
  BY DEF Report, poolVars, localVars
<1>2. pc[w] = "stored" /\ pc'[w] = "lock" /\ Others(w)
  BY ReportMoves DEF ControlInv
<1> QED
  BY <1>1, <1>2, StandByStep DEF SplitPc

LEMMA MainStepsValue ==
  ASSUME ControlInv, ValueInv, ShowResult \/ Shutdown \/ Destroy
  PROVE  ValueInv'
<1> USE Basics
<1>1. UNCHANGED <<status, arg, result, task_count, step, child, res, task>>
  BY DEF ShowResult, Shutdown, Destroy, tableVars, poolVars, localVars
<1>2. /\ \A v \in Workers : Woken(v)
      /\ pc[Main] \in {"joined", "shutdown", "join workers"}
      /\ pc'[Main] = pc[Main] \/ pc'[Main] \in {"shutdown", "join workers", "destroyed"}
  BY DEF ShowResult, Shutdown, Destroy, ControlInv, TypeOK, Woken, Asleep
<1>3. undefined' = undefined \/ NullSeen
  <2>1. CASE ShowResult /\ res[Main][1] = NULL
    <3>1. HasRes(Main, 1)
      BY <2>1 DEF ShowResult, HasRes
    <3> QED
      BY <2>1, <3>1 DEF ValueInv, ResOK
  <2>2. CASE ShowResult /\ res[Main][1] # NULL
    BY <2>2 DEF ShowResult
  <2>3. CASE Shutdown \/ Destroy
    BY <2>3 DEF Shutdown, Destroy
  <2> QED
    BY <2>1, <2>2, <2>3
<1>4. \A v \in Thread : v # Main => Woken(v)
  BY <1>2 DEF Thread
<1> QED
  BY <1>1, <1>2, <1>3, <1>4, StandByStep DEF Others, SplitPc

-----------------------------------------------------------------------------
(* The steps that make a result *)

LEMMA RunValue ==
  ASSUME ControlInv, ValueInv, NEW w \in Workers, Run(w) \/ RunFails(w)
  PROVE  ValueInv'
<1> USE Basics
<1>1. UNCHANGED <<status, arg, result, task_count, step, child, task, undefined>>
  BY DEF Run, RunFails, tableVars, poolVars
<1>2. pc[w] = "run" /\ step[w] = 1 /\ arg[task[w]] \in Nat
  BY RunMoves, WorkingArg DEF ValueInv, StepOK, WorkPc
<1>3. /\ pc'[w] \in {"fork", "store"} /\ \A v \in Thread : v # w => pc'[v] = pc[v]
      /\ \A v \in Thread : v # w => res'[v] = res[v]
  <2>1. PICK l \in {"fork", "store"} : pc' = [pc EXCEPT ![w] = l]
    BY RunMoves
  <2>2. \A v \in Thread : v # w => res'[v] = res[v]
    BY RunMoves DEF ControlInv, TypeOK
  <2> QED
    BY <2>1, <2>2 DEF ControlInv, TypeOK
<1>4. \A v \in Thread : v # w => Bystander(v)
  BY <1>1, <1>3 DEF Bystander
<1>5. ChildOK(w)' /\ ResOK(w)'
  BY <1>1, <1>2, <1>3 DEF ChildOK, ResOK, HasChild, HasRes
<1>6. StoredOK(w)'
  <2>1. CASE pc'[w] = "fork"
    BY <2>1 DEF StoredOK
  <2>2. CASE res' = [res EXCEPT ![w] = [k \in 1 .. 2 |-> NULL]]
    <3>1. res'[w][1] = NULL
      BY <2>2 DEF ControlInv, TypeOK
    <3> QED
      BY <3>1 DEF StoredOK, Value
  <2>3. CASE /\ arg[task[w]] <= 1
             /\ res' = [res EXCEPT ![w] = [k \in 1 .. 2 |-> IF k = 1 THEN arg[task[w]] ELSE 0]]
    <3>1. res'[w][1] = arg[task[w]] /\ res'[w][2] = 0
      BY <2>3 DEF ControlInv, TypeOK
    <3>2. fib[arg[task[w]]] = arg[task[w]]
      BY <1>2, <2>3, FibEquation
    <3>3. arg[task[w]] # NULL /\ arg[task[w]] + 0 = arg[task[w]]
      BY <1>2
    <3> QED
      BY <1>1, <3>1, <3>2, <3>3 DEF StoredOK, Value
  <2> QED
    <3>1. pc' = [pc EXCEPT ![w] = "fork"] => pc'[w] = "fork"
      BY DEF ControlInv, TypeOK
    <3> QED
      BY <2>1, <2>2, <2>3, <3>1, RunMoves
<1> QED
  BY <1>1, <1>2, <1>3, <1>4, <1>5, <1>6, TableStays, ValueStep

LEMMA SumValue ==
  ASSUME ControlInv, ValueInv, NEW w \in Workers, Sum(w)
  PROVE  ValueInv'
<1> USE Basics
<1>1. /\ UNCHANGED <<status, arg, result, task_count, step, child, res, task>> /\ pc[w] = "joined"
  BY DEF Sum, tableVars, poolVars, localVars
<1>2. HasRes(w, 1) /\ HasRes(w, 2)
  BY <1>1 DEF HasRes
<1>3. \A k \in 1 .. 2 : \/ res[w][k] = NULL /\ NullSeen
                        \/ res[w][k] # NULL /\ res[w][k] = fib[arg[task[w]] - k]
  BY <1>2 DEF ValueInv, ResOK
<1>4. CASE NULL \in {res[w][1], res[w][2]}
  <2>1. pc' = pc
    BY <1>4 DEF Sum
  <2>2. NullSeen
    BY <1>3, <1>4
  <2>3. Others(w)
    BY <2>1 DEF Others, Woken
  <2> QED
    BY <1>1, <2>1, <2>2, <2>3, StandByStep
<1>5. CASE NULL \notin {res[w][1], res[w][2]}
  <2>1. undefined' = undefined /\ pc' = [pc EXCEPT ![w] = "store"]
    BY <1>5 DEF Sum
  <2>2. pc'[w] = "store" /\ \A v \in Thread : v # w => pc'[v] = pc[v]
    BY <2>1 DEF ControlInv, TypeOK
  <2>3. \A v \in Thread : v # w => Bystander(v)
    BY <1>1, <2>2 DEF Bystander
  <2>4. ChildOK(w)' /\ ResOK(w)'
    BY <2>2 DEF ChildOK, ResOK, HasChild, HasRes
  <2>5. StoredOK(w)'
    <3>1. arg[task[w]] \in Nat /\ arg[task[w]] >= 2
      BY <1>1, WorkingArg DEF WorkPc, SplitPc, ControlInv, NumberOK, SplitOK
    <3>2. fib[arg[task[w]]] = fib[arg[task[w]] - 1] + fib[arg[task[w]] - 2]
      BY <3>1, FibEquation
    <3>3. res[w][1] # NULL /\ res[w][1] + res[w][2] = fib[arg[task[w]]]
      BY <1>3, <1>5, <3>2
    <3> QED
      BY <1>1, <3>3 DEF StoredOK, Value
  <2>6. step'[w] = 1
    BY <1>1 DEF ValueInv, StepOK
  <2> QED
    BY <1>1, <2>1, <2>2, <2>3, <2>4, <2>5, <2>6, TableStays, ValueStep
<1> QED
  BY <1>4, <1>5

LEMMA StoreValue ==
  ASSUME ControlInv, ValueInv, NEW w \in Workers, Store(w)
  PROVE  ValueInv'
<1> USE Basics
<1>1. /\ UNCHANGED <<arg, task_count, step, child, res, task, undefined>>
      /\ pc[w] = "store" /\ pc'[w] \in {"lock", "stored"} /\ \A v \in Thread : v # w => pc'[v] = pc[v]
  BY StoreMoves
<1>2. /\ task[w] \in Task /\ status[task[w]] = "RUNNING"
      /\ \A t \in Task : t # task[w] => status'[t] = status[t] /\ result'[t] = result[t]
      /\ result'[task[w]] = Value(w) /\ Forked' = Forked
  BY StoreMoves
<1>3. \A v \in Thread : Bystander(v)
  BY <1>1 DEF Bystander, SplitPc
<1>4. Grows
  BY <1>1, <1>2 DEF Grows, Forked, ControlInv, TypeOK
<1>5. Value(w) \in {fib[arg[task[w]]], NULL}
  BY <1>1 DEF ValueInv, StoredOK
<1>6. ASSUME NEW t \in Task, status'[t] = "COMPLETED"
      PROVE  \/ t \in Forked /\ status[t] = "COMPLETED"
             \/ result'[t] \in {fib[arg'[t]], NULL}
  <2>1. CASE t = task[w]
    BY <1>1, <1>2, <1>5, <2>1
  <2>2. CASE t # task[w]
    BY <1>2, <1>6, <2>2 DEF ControlInv, StatusOK, RangeOK
  <2> QED
    BY <2>1, <2>2
<1> QED
  BY <1>1, <1>3, <1>4, <1>6, AllStandBy

-----------------------------------------------------------------------------
(* The theorems *)

LEMMA ValueInit == Init => ValueInv
<1> USE Basics
<1> SUFFICES ASSUME Init PROVE ValueInv
  OBVIOUS
<1>1. /\ pc[Main] = "fork" /\ \A w \in Workers : pc[w] = "lock"
      /\ \A th \in Thread : step[th] = 1
      /\ \A t \in Task : status[t] = "WAITING"
  BY DEF Init
<1>2. \A th \in Thread : ChildOK(th) /\ ResOK(th)
  BY <1>1 DEF ChildOK, ResOK, HasChild, HasRes, Thread
<1>3. StepOK /\ (\A w \in Workers : StoredOK(w)) /\ ResultsCorrect
  BY <1>1 DEF StepOK, StoredOK, ResultsCorrect
<1>4. FaultsExplained
  <2>1. ~undefined
    BY Zenon DEF Init
  <2> QED
    BY <2>1 DEF FaultsExplained
<1> QED
  BY <1>2, <1>3, <1>4 DEF ValueInv

LEMMA ValueNext == ControlInv /\ ValueInv /\ [Next]_vars => ValueInv'
<1> SUFFICES ASSUME ControlInv, ValueInv, [Next]_vars PROVE ValueInv'
  OBVIOUS
<1> USE Basics
<1>1. CASE UNCHANGED vars
  <2>1. UNCHANGED <<status, arg, result, task_count, step, child, res, task, pc, undefined>>
    BY <1>1 DEF vars, tableVars, poolVars, localVars
  <2> QED
    BY <2>1, StandByStep DEF Others, Woken
<1>2. ASSUME NEW th \in Thread, ThreadStep(th) \/ SpuriousWakeup(th) PROVE ValueInv'
  BY <1>2, ForkFailsValue, ForkValue, ForkSignalValue, JoinReturnsValue, OtherThreadStepsValue,
     IdleStepsValue, FindTaskValue, MarkRunningValue, RunValue, SumValue, StoreValue, ReportValue,
     MainStepsValue
  DEF ThreadStep, WorkerStep, Thread
<1> HIDE DEF ControlInv, ValueInv
<1> QED
  BY <1>1, <1>2 DEF Next, Ended

LEMMA ValueHolds == Spec => []ValueInv
<1>1. Init => ValueInv
  BY ValueInit
<1>2. ControlInv /\ ValueInv /\ [Next]_vars => ValueInv'
  BY ValueNext
<1> QED
  BY <1>1, <1>2, ControlHolds, PTL DEF Spec

(* A completed task holds the Fibonacci number of its argument, or the null *)
(* pointer of a failed malloc, for every n and every schedule (main.c:16-50, *)
(* mytpool.c:56-64).                                                        *)
THEOREM ResultsAreFibonacci == Spec => []ResultsCorrect
<1>1. ValueInv => ResultsCorrect
  BY DEF ValueInv
<1> QED
  BY <1>1, ValueHolds, PTL

(* The process leaves its tables only after a fork has found the table full *)
(* or a malloc has failed (mytask.c:8-12, mytpool.c:60, main.c:46).         *)
THEOREM FaultsHaveCauses == Spec => []FaultsExplained
<1>1. ValueInv => FaultsExplained
  BY DEF ValueInv
<1> QED
  BY <1>1, ValueHolds, PTL

-----------------------------------------------------------------------------
(* Signals *)

(* A child that has been forked and not yet joined. *)
Unjoined(w, k) == HasChild(w, k) /\ ~HasRes(w, k)

(* A child that has not reported is still to be joined by its parent. *)
OpenInv ==
  \A c \in Forked : parent_id[c] # NULL /\ ~IsReported(c) =>
    \E w \in Workers, k \in 1 .. 2 : Unjoined(w, k) /\ task[w] = parent_id[c] /\ child[w][k] = c

(* A thread keeps the children it has still to join. *)
Keeps(w) == \A k \in 1 .. 2 : Unjoined(w, k) =>
              Unjoined(w, k)' /\ task'[w] = task[w] /\ child'[w][k] = child[w][k]

LEMMA OpenFrame ==
  ASSUME OpenInv, \A w \in Workers : Keeps(w), parent_id' = parent_id, Forked' = Forked,
         \A c \in Forked : parent_id[c] # NULL /\ IsReported(c) => IsReported(c)'
  PROVE  OpenInv'
<1>1. SUFFICES ASSUME NEW c \in Forked, parent_id[c] # NULL, ~IsReported(c)'
      PROVE  \E w \in Workers, k \in 1 .. 2 : Unjoined(w, k)' /\ task'[w] = parent_id[c] /\ child'[w][k] = c
  BY DEF OpenInv
<1>2. PICK w \in Workers, k \in 1 .. 2 : Unjoined(w, k) /\ task[w] = parent_id[c] /\ child[w][k] = c
  BY <1>1 DEF OpenInv
<1> QED
  BY <1>2 DEF Keeps

LEMMA BystanderOpen ==
  ASSUME ControlInv, NEW v \in Workers, Bystander(v)
  PROVE  Keeps(v)
<1>1. ASSUME NEW k \in 1 .. 2, Unjoined(v, k)
      PROVE  Unjoined(v, k)' /\ task'[v] = task[v] /\ child'[v][k] = child[v][k]
  <2>1. pc[v] \in {"fork", "forked", "join", "asleep"} /\ pc[v] \in WorkPc
    BY <1>1 DEF Unjoined, HasChild, WorkPc
  <2>2. step'[v] = step[v] /\ child'[v] = child[v] /\ task'[v] = task[v]
    BY <2>1 DEF Bystander
  <2>3. pc'[v] = pc[v] \/ (pc[v] \in {"join", "asleep"} /\ pc'[v] \in {"join", "asleep"})
    BY <2>1 DEF Bystander
  <2> QED
    BY <1>1, <2>2, <2>3 DEF Unjoined, HasChild, HasRes
<1> QED
  BY <1>1 DEF Keeps

(* Reports are not taken back. *)
LEMMA ReportedStays ==
  ASSUME ControlInv, NEW c \in Task, IsReported(c), status'[c] = status[c], NEW th,
         \A v \in Workers : v # th => (task'[v] = task[v] /\ (pc'[v] = "stored" => pc[v] = "stored")),
         th \in Workers => pc'[th] # "stored"
  PROVE  IsReported(c)'
BY DEF IsReported

LEMMA ForkOpen ==
  ASSUME ControlInv, CountInv, OpenInv, NEW th \in Thread, Fork(th)
  PROVE  OpenInv'
<1> USE Basics
<1>0. PICK c, s : c = task_count /\ s = step[th]
  OBVIOUS
<1>1. /\ c \in Task /\ Forked' = Forked \cup {c} /\ c \notin Forked /\ s \in 1 .. 2
  BY <1>0, ForkJoinAssumption DEF Fork, Forked, Task, ControlInv, TypeOK
<1>2. /\ status' = [status EXCEPT ![c] = "WAITING"]
      /\ parent_id' = [parent_id EXCEPT ![c] = ParentOf(th)]
      /\ child' = [child EXCEPT ![th][s] = c]
      /\ UNCHANGED <<task, step>>
  BY <1>0 DEF Fork
<1>3. /\ pc[th] = "fork" /\ pc'[th] = "forked" /\ \A v \in Thread : v # th => pc'[v] = pc[v]
  BY ForkMoves DEF ControlInv
<1>4. /\ parent_id'[c] = ParentOf(th)
      /\ \A t \in Forked : parent_id'[t] = parent_id[t] /\ status'[t] = status[t]
  BY <1>1, <1>2 DEF ControlInv, TypeOK, Forked
<1>5. /\ \A v \in Thread : v # th => child'[v] = child[v]
      /\ \A k \in 1 .. 2 : child'[th][k] = IF k = s THEN c ELSE child[th][k]
  BY <1>1, <1>2 DEF ControlInv, TypeOK
<1>6. \A w \in Workers : Keeps(w)
  <2>1. ASSUME NEW w \in Workers, NEW k \in 1 .. 2, Unjoined(w, k)
        PROVE  Unjoined(w, k)' /\ task'[w] = task[w] /\ child'[w][k] = child[w][k]
    <3>1. CASE w = th
      BY <1>0, <1>1, <1>2, <1>3, <1>5, <2>1, <3>1 DEF Unjoined, HasChild, HasRes
    <3>2. CASE w # th
      BY <1>2, <1>3, <1>5, <2>1, <3>2 DEF Unjoined, HasChild, HasRes
    <3> QED
      BY <3>1, <3>2
  <2> QED
    BY <2>1 DEF Keeps
<1>7. ASSUME NEW d \in Forked, parent_id[d] # NULL, ~IsReported(d)'
      PROVE  \E w \in Workers, k \in 1 .. 2 : Unjoined(w, k)' /\ task'[w] = parent_id'[d] /\ child'[w][k] = d
  <2>1. ~IsReported(d)
    BY <1>2, <1>3, <1>4, <1>7 DEF IsReported
  <2>2. PICK w \in Workers, k \in 1 .. 2 : Unjoined(w, k) /\ task[w] = parent_id[d] /\ child[w][k] = d
    BY <1>7, <2>1 DEF OpenInv
  <2> QED
    BY <1>4, <1>6, <2>2 DEF Keeps
<1>8. ASSUME parent_id'[c] # NULL
      PROVE  \E w \in Workers, k \in 1 .. 2 : Unjoined(w, k)' /\ task'[w] = parent_id'[c] /\ child'[w][k] = c
  <2>1. th \in Workers /\ parent_id'[c] = task[th]
    BY <1>4, <1>8 DEF ParentOf, Thread
  <2>2. Unjoined(th, s)' /\ child'[th][s] = c
    BY <1>0, <1>1, <1>2, <1>3, <1>5 DEF Unjoined, HasChild, HasRes
  <2> QED
    BY <1>1, <1>2, <2>1, <2>2
<1> QED
  BY <1>1, <1>4, <1>7, <1>8 DEF OpenInv

LEMMA ForkedOpen ==
  ASSUME ControlInv, OpenInv, NEW th \in Thread, ForkFails(th) \/ ForkSignal(th)
  PROVE  OpenInv'
<1> USE Basics
<1>1. /\ pc[th] \in {"fork", "forked"} /\ pc'[th] \in {"fork", "join"} /\ Others(th)
      /\ pc[th] = "fork" => child' = [child EXCEPT ![th][step[th]] = NULL]
      /\ pc[th] = "forked" => child' = child
  <2>1. CASE ForkFails(th)
    BY <2>1, ForkFailsMoves DEF ForkFails, ControlInv
  <2>2. CASE ForkSignal(th)
    BY ZenonT(60), <2>2, ForkSignalMoves DEF ForkSignal, ControlInv, Others, Woken, Asleep
  <2> QED
    BY <2>1, <2>2
<1>2. UNCHANGED <<status, parent_id, task>> /\ Forked' = Forked
  <2>1. CASE ForkFails(th)
    BY <2>1, ForkFailsNeutral DEF Neutral, SameTable
  <2>2. CASE ForkSignal(th)
    BY <2>2 DEF ForkSignal, poolVars, Forked
  <2> QED
    BY <2>1, <2>2
<1>3. PICK s \in 1 .. 2 : s = step[th]
  BY DEF ControlInv, TypeOK
<1>4. /\ \A v \in Thread : v # th => child'[v] = child[v] /\ step'[v] = step[v]
      /\ \A k \in 1 .. 2 : pc[th] = "forked" \/ k # s => child'[th][k] = child[th][k]
  BY <1>1, <1>3, ForkedMoves DEF ControlInv, TypeOK
<1>5. ASSUME NEW w \in Workers PROVE Keeps(w)
  <2>1. CASE w = th
    <3>1. \A k \in 1 .. 2 : Unjoined(w, k) => (pc[w] = "fork" /\ k < s) \/ (pc[w] = "forked" /\ k <= s)
      BY <1>1, <1>3, <2>1 DEF Unjoined, HasChild
    <3>2. \A k \in 1 .. 2 : k <= s => Unjoined(w, k)' \/ (k = s /\ pc[w] = "fork")
      BY <1>1, <1>3, <2>1, ForkedMoves DEF Unjoined, HasChild, HasRes
    <3> QED
      BY <1>2, <1>3, <1>4, <2>1, <3>1, <3>2 DEF Keeps
  <2>2. CASE w # th
    <3>1. Woken(w) /\ child'[w] = child[w] /\ step'[w] = step[w] /\ task'[w] = task[w]
      BY <1>1, <1>2, <1>4, <2>2 DEF Others
    <3> QED
      BY <3>1 DEF Keeps, Woken, Unjoined, HasChild, HasRes
  <2> QED
    BY <2>1, <2>2
<1>6. \A c \in Forked : IsReported(c) => IsReported(c)'
  BY <1>1, <1>2 DEF IsReported, Others, Woken
<1> QED
  BY <1>2, <1>5, <1>6, OpenFrame

(* A join returns only after the child has reported: until then the child   *)
(* keeps its own lock.                                                      *)
LEMMA JoinReturnsOpen ==
  ASSUME ControlInv, OpenInv, NEW th \in Thread, JoinReturns(th)
  PROVE  OpenInv'
<1> USE Basics
<1>0. PICK s, c : s \in 1 .. 2 /\ s = step[th] /\ c = Joined(th)
  BY DEF ControlInv, TypeOK
<1>1. /\ pc[th] = "join" /\ Others(th)
      /\ UNCHANGED <<status, parent_id, child, task>> /\ Forked' = Forked
  BY JoinReturnsMoves DEF ControlInv, JoinReturns, tableVars, poolVars, Forked
<1>2. /\ c \in Task /\ lock[c] = Nobody /\ status[c] \in {"COMPLETED", "FAILED"} /\ c = child[th][s]
  BY <1>0 DEF JoinReturns, Joined, ControlInv, TypeOK, Maybe
<1>3. IsReported(c)'
  <2>1. status[c] = "COMPLETED"
    BY <1>2 DEF ControlInv, StatusOK, RangeOK
  <2>2. \A v \in Workers : ~(pc[v] = "stored" /\ task[v] = c)
    BY <1>2 DEF ControlInv, TaskLockOK
  <2>3. \A v \in Workers : pc'[v] = "stored" => pc[v] = "stored"
    BY <1>1, JoinReturnsMoves DEF ControlInv, Others, Woken
  <2> QED
    BY <1>1, <2>1, <2>2, <2>3 DEF IsReported
<1>4. \A d \in Forked : IsReported(d) => IsReported(d)'
  BY <1>1, JoinReturnsMoves DEF ControlInv, IsReported, Others, Woken
<1>5. /\ \/ th # Main /\ s = 1 /\ pc'[th] = "join" /\ step'[th] = 2
         \/ (th = Main \/ s = 2) /\ pc'[th] = "joined" /\ step'[th] = 1
      /\ \A v \in Thread : v # th => step'[v] = step[v]
  BY <1>0 DEF JoinReturns, ControlInv, TypeOK
<1>6. ASSUME NEW w \in Workers, NEW k \in 1 .. 2, Unjoined(w, k), child[w][k] # c
      PROVE  Unjoined(w, k)'
  <2>1. CASE w = th
    BY <1>0, <1>1, <1>2, <1>5, <1>6, <2>1 DEF Unjoined, HasChild, HasRes
  <2>2. CASE w # th
    <3>1. Woken(w) /\ step'[w] = step[w]
      BY <1>1, <1>5, <2>2 DEF Others
    <3> QED
      BY <1>6, <3>1 DEF Woken, Unjoined, HasChild, HasRes
  <2> QED
    BY <2>1, <2>2
<1>7. SUFFICES ASSUME NEW d \in Forked, parent_id[d] # NULL, ~IsReported(d)'
      PROVE  \E w \in Workers, k \in 1 .. 2 : Unjoined(w, k)' /\ task'[w] = parent_id[d] /\ child'[w][k] = d
  BY <1>1 DEF OpenInv
<1>8. PICK w \in Workers, k \in 1 .. 2 : Unjoined(w, k) /\ task[w] = parent_id[d] /\ child[w][k] = d
  BY <1>4, <1>7 DEF OpenInv
<1> QED
  BY <1>1, <1>3, <1>6, <1>7, <1>8

(* Steps of a thread that forks and joins nothing. *)
LEMMA QuietStepOpen ==
  ASSUME ControlInv, OpenInv, parent_id' = parent_id, Forked' = Forked,
         UNCHANGED <<step, child>>, NEW th \in Thread, Others(th),
         \A v \in Workers : v # th => task'[v] = task[v],
         \A t \in Task : status[t] = "COMPLETED" => status'[t] = "COMPLETED",
         \/ /\ pc[th] \notin {"fork", "forked", "join", "asleep"}
            /\ pc'[th] = "stored" => pc[th] = "store" /\ status[task[th]] = "RUNNING" /\ task'[th] = task[th]
         \/ /\ pc[th] \in {"join", "asleep"} /\ pc'[th] \in {"join", "asleep"}
            /\ th \in Workers => task'[th] = task[th]
  PROVE  OpenInv'
<1> USE Basics
<1>1. ASSUME NEW w \in Workers PROVE Keeps(w)
  <2>1. CASE w = th
    BY <2>1 DEF Keeps, Unjoined, HasChild, HasRes
  <2>2. CASE w # th
    <3>1. Woken(w) /\ task'[w] = task[w]
      BY <2>2 DEF Others
    <3> QED
      BY <3>1 DEF Keeps, Woken, Unjoined, HasChild, HasRes
  <2> QED
    BY <2>1, <2>2
<1>2. ASSUME NEW c \in Forked, IsReported(c) PROVE IsReported(c)'
  <2>1. c \in Task /\ status'[c] = "COMPLETED"
    BY <1>2 DEF Forked, IsReported
  <2>2. ASSUME NEW v \in Workers PROVE ~(task'[v] = c /\ pc'[v] = "stored")
    <3>1. CASE v = th
      BY <1>2, <3>1 DEF IsReported
    <3>2. CASE v # th
      BY <1>2, <3>2 DEF IsReported, Others, Woken
    <3> QED
      BY <3>1, <3>2
  <2> QED
    BY <2>1, <2>2 DEF IsReported
<1> QED
  BY <1>1, <1>2, OpenFrame

LEMMA OtherThreadStepsOpen ==
  ASSUME ControlInv, OpenInv, NEW th \in Thread, JoinFaults(th) \/ JoinWaits(th) \/ SpuriousWakeup(th)
  PROVE  OpenInv'
<1>1. UNCHANGED <<status, parent_id, step, child, task>> /\ Forked' = Forked
  BY DEF JoinFaults, JoinWaits, SpuriousWakeup, tableVars, poolVars, localVars, Forked
<1>2. /\ Others(th)
      /\ \/ pc[th] \in {"join", "asleep"} /\ pc'[th] \in {"join", "asleep"}
         \/ pc[th] = "wait" /\ pc'[th] = "lock"
  BY DEF JoinFaults, JoinWaits, SpuriousWakeup, ControlInv, TypeOK, Others, Woken
<1> QED
  BY <1>1, <1>2, QuietStepOpen

LEMMA WorkerStepsOpen ==
  ASSUME ControlInv, OpenInv, NEW w \in Workers, WorkerStep(w)
  PROVE  OpenInv'
<1> USE Basics
<1>1. CASE FindNoTask(w) \/ ScanFaults(w)
  <2>1. UNCHANGED <<status, parent_id, step, child, task>> /\ Forked' = Forked
    BY <1>1 DEF FindNoTask, ScanFaults, tableVars, poolVars, localVars, Forked
  <2>2. Others(w) /\ pc[w] = "lock" /\ pc'[w] \in {"lock", "wait", "exited"}
    BY <1>1 DEF FindNoTask, ScanFaults, SleepOrExit, ControlInv, TypeOK, Others, Woken
  <2> QED
    BY <2>1, <2>2, QuietStepOpen
<1>2. CASE FindTask(w)
  <2>1. UNCHANGED <<status, parent_id, step, child>> /\ Forked' = Forked
    BY <1>2 DEF FindTask, tableVars, poolVars, Forked
  <2>2. /\ pc[w] = "lock" /\ pc'[w] = "found" /\ Others(w)
        /\ \A v \in Workers : v # w => task'[v] = task[v]
    BY <1>2 DEF FindTask, ControlInv, TypeOK, Others, Woken
  <2> QED
    BY <2>1, <2>2, QuietStepOpen
<1>3. CASE MarkRunning(w)
  <2>1. /\ UNCHANGED <<parent_id, step, child, task>> /\ Forked' = Forked
        /\ status' = [status EXCEPT ![task[w]] = "RUNNING"] /\ pc[w] = "found"
    BY <1>3 DEF MarkRunning, poolVars, localVars, Forked
  <2>2. pc'[w] = "run" /\ Others(w)
    BY <1>3 DEF MarkRunning, ControlInv, TypeOK, Others, Woken
  <2>3. status[task[w]] = "WAITING"
    BY <2>1 DEF ControlInv, StatusOK, WorkerOK, Waiting
  <2>4. \A t \in Task : status[t] = "COMPLETED" => status'[t] = "COMPLETED"
    BY <2>1, <2>3 DEF ControlInv, TypeOK
  <2> QED
    BY <2>1, <2>2, <2>4, QuietStepOpen
<1>4. CASE Run(w) \/ RunFails(w) \/ Sum(w)
  <2>1. UNCHANGED <<status, parent_id, step, child, task>> /\ Forked' = Forked
    BY <1>4 DEF Run, RunFails, Sum, tableVars, poolVars, localVars, Forked
  <2>2. /\ pc[w] \in {"run", "joined"}
        /\ pc' = pc \/ \E l \in {"fork", "store"} : pc' = [pc EXCEPT ![w] = l]
    BY <1>4, RunMoves DEF Sum
  <2>3. Others(w) /\ pc'[w] # "stored"
    BY <2>2 DEF ControlInv, TypeOK, Others, Woken
  <2> QED
    BY <2>1, <2>2, <2>3, QuietStepOpen
<1>5. CASE Store(w)
  <2>1. /\ UNCHANGED <<parent_id, step, child, task>> /\ Forked' = Forked
        /\ pc[w] = "store" /\ status[task[w]] = "RUNNING"
        /\ \A t \in Task : t # task[w] => status'[t] = status[t]
    BY <1>5, StoreMoves
  <2>2. Others(w)
    BY <1>5, StoreMoves DEF Others, Woken
  <2>3. \A t \in Task : status[t] = "COMPLETED" => status'[t] = "COMPLETED"
    BY <2>1
  <2> QED
    BY <2>1, <2>2, <2>3, QuietStepOpen
<1>6. CASE Report(w)
  <2>1. UNCHANGED <<status, parent_id, step, child, task>> /\ Forked' = Forked
    BY <1>6 DEF Report, poolVars, localVars, Forked
  <2>2. pc[w] = "stored" /\ pc'[w] = "lock" /\ Others(w)
    BY <1>6, ReportMoves DEF ControlInv
  <2> QED
    BY <2>1, <2>2, QuietStepOpen
<1> QED
  BY <1>1, <1>2, <1>3, <1>4, <1>5, <1>6 DEF WorkerStep

LEMMA MainStepsOpen ==
  ASSUME ControlInv, OpenInv, ShowResult \/ Shutdown \/ Destroy
  PROVE  OpenInv'
<1> USE Basics
<1>1. UNCHANGED <<status, parent_id, step, child, task>> /\ Forked' = Forked
  BY DEF ShowResult, Shutdown, Destroy, tableVars, poolVars, localVars, Forked
<1>2. /\ \A v \in Workers : Woken(v)
      /\ pc[Main] \in {"joined", "shutdown", "join workers"}
      /\ pc'[Main] = pc[Main] \/ pc'[Main] \in {"shutdown", "join workers", "destroyed"}
  BY DEF ShowResult, Shutdown, Destroy, ControlInv, TypeOK, Woken, Asleep
<1>3. Others(Main)
  BY <1>2 DEF Others, Thread
<1> QED
  BY <1>1, <1>2, <1>3, QuietStepOpen

LEMMA OpenInit == Init => OpenInv
<1>1. Init => Forked = {}
  BY DEF Init, Forked, Task
<1> QED
  BY <1>1 DEF OpenInv

LEMMA OpenNext == ControlInv /\ CountInv /\ OpenInv /\ [Next]_vars => OpenInv'
<1> SUFFICES ASSUME ControlInv, CountInv, OpenInv, [Next]_vars PROVE OpenInv'
  OBVIOUS
<1> USE Basics
<1>1. CASE UNCHANGED vars
  <2>1. /\ UNCHANGED <<status, parent_id, step, child, task, pc>> /\ Forked' = Forked
    BY <1>1 DEF vars, tableVars, poolVars, localVars, Forked
  <2>2. /\ \A w \in Workers : Keeps(w)
        /\ \A c \in Forked : IsReported(c) => IsReported(c)'
    BY <2>1 DEF Keeps, Unjoined, HasChild, HasRes, IsReported
  <2> QED
    BY <2>1, <2>2, OpenFrame
<1>2. ASSUME NEW th \in Thread, ThreadStep(th) \/ SpuriousWakeup(th) PROVE OpenInv'
  BY <1>2, ForkOpen, ForkedOpen, JoinReturnsOpen, OtherThreadStepsOpen, WorkerStepsOpen, MainStepsOpen
  DEF ThreadStep, Thread
<1> HIDE DEF ControlInv, CountInv, OpenInv
<1> QED
  BY <1>1, <1>2 DEF Next, Ended

(* completion_cond is signalled only while its task still runs: a child     *)
(* reports before its parent can join it, so the parent's own joiner, woken *)
(* by the signal (mytpool.c:46-47), finds the parent unfinished.            *)
THEOREM SignalsComeEarly == Spec => SignalledTooEarly
<1>1. IndInv /\ OpenInv =>
        \A w \in Workers : Report(w) =>
          \A th \in Joiners(parent_id[task[w]]) : status[Joined(th)] = "RUNNING"
  <2> SUFFICES ASSUME ControlInv, OpenInv, NEW w \in Workers, Report(w),
                      NEW th \in Joiners(parent_id[task[w]])
               PROVE  status[Joined(th)] = "RUNNING"
    BY DEF IndInv
  <2>1. pc[w] = "stored" /\ Joined(th) = parent_id[task[w]]
    BY DEF Report, Joiners
  <2>2. task[w] \in Forked /\ parent_id[task[w]] # NULL /\ ~IsReported(task[w])
    BY <2>1 DEF ControlInv, StatusOK, WorkerOK, RangeOK, IsReported
  <2>3. PICK v \in Workers, k \in 1 .. 2 : Unjoined(v, k) /\ task[v] = parent_id[task[w]]
    BY <2>2 DEF OpenInv
  <2>4. pc[v] \in WorkPc
    BY <2>3 DEF Unjoined, HasChild, WorkPc
  <2> QED
    BY <2>1, <2>3, <2>4, WorkingArg
<1>2. Init => OpenInv
  BY OpenInit
<1>3. IndInv /\ OpenInv /\ [Next]_vars => OpenInv'
  BY OpenNext DEF IndInv
<1>4. IndInv /\ OpenInv =>
        [\A w \in Workers : Report(w) =>
           \A th \in Joiners(parent_id[task[w]]) : status[Joined(th)] = "RUNNING"]_vars
  BY <1>1
<1>5. Spec => []OpenInv
  BY <1>2, <1>3, IndInvHolds, PTL DEF Spec
<1> QED
  BY <1>4, <1>5, IndInvHolds, PTL DEF SignalledTooEarly
=============================================================================
