---------------------------- MODULE ForkJoinPool ----------------------------
(***************************************************************************)
(* The fork-join pool of lab_4/prob3_ForkJoin/test (mytpool.c, mytask.c)   *)
(* and its client, main.c's fibonacci: worker threads take tasks out of a  *)
(* table of MAX_TASKS entries; a task forks two smaller ones and joins     *)
(* them, blocking its worker; a task that completes reports to its parent. *)
(*                                                                         *)
(* Threads interleave at lock operations: one step is a critical section,  *)
(* or the part of it up to the next lock it has to wait for.  A step that  *)
(* leaves the tables (tasks[-1], tasks[MAX_TASKS], a null result) sets     *)
(* undefined, after which nothing is claimed about the process.            *)
(***************************************************************************)
EXTENDS Integers, FiniteSets

CONSTANTS Workers,      \* the worker threads
          Main,         \* the main thread
          Nobody,       \* the holder of a free lock
          MAX_TASKS,    \* mytpool.h:19
          MaxN          \* bound: main computes some fibonacci(n), n <= MaxN

ASSUME ForkJoinAssumption ==
  /\ Main \notin Workers /\ Nobody \notin Workers \cup {Main}
  /\ IsFiniteSet(Workers) /\ MAX_TASKS \in Nat \ {0} /\ MaxN \in Nat

Thread == Workers \cup {Main}
Task == 0 .. (MAX_TASKS - 1)
NULL == -1                      \* parent_id of a root, a failed fork, no result

VARIABLES
  n,                            \* main.c's n
  tracked,                      \* does fibonacci pass its own id as parent_id?
  (* the task table *)
  status, arg, result, parent_id, child_count, completed_children, lock,
  (* the pool *)
  task_count, active, pool_lock,
  (* the threads *)
  pc,
  task,                         \* per worker: the task it works on
  step,                         \* per thread: which of its two children is next
  child,                        \* per thread: the ids fj_fork returned
  res,                          \* per thread: what fj_join returned for them
  undefined

tableVars == <<status, arg, result, parent_id, child_count, completed_children>>
poolVars == <<task_count, active>>
localVars == <<task, step, child, res>>
config == <<n, tracked>>
vars == <<config, tableVars, lock, poolVars, pool_lock, pc, localVars, undefined>>

(* After fj_pool_init.  main.c runs with n = 10 and parent_id always -1; a  *)
(* caller could pass the id of the current task, as main.c:32 suggests.     *)
Init == /\ n \in 0 .. MaxN /\ tracked \in BOOLEAN
        /\ status = [t \in Task |-> "WAITING"]
        /\ arg = [t \in Task |-> NULL] /\ result = [t \in Task |-> NULL]
        /\ parent_id = [t \in Task |-> NULL]
        /\ child_count = [t \in Task |-> 0]
        /\ completed_children = [t \in Task |-> 0]
        /\ lock = [t \in Task |-> Nobody]
        /\ task_count = 0 /\ active = TRUE /\ pool_lock = Nobody
        /\ pc = [th \in Thread |-> IF th = Main THEN "fork" ELSE "lock"]
        /\ task = [w \in Workers |-> NULL]
        /\ step = [th \in Thread |-> 1]
        /\ child = [th \in Thread |-> [k \in 1 .. 2 |-> NULL]]
        /\ res = [th \in Thread |-> [k \in 1 .. 2 |-> NULL]]
        /\ undefined = FALSE

Forked == {t \in Task : t < task_count}
Waiting == {t \in Forked : status[t] = "WAITING"}
Asleep == {w \in Workers : pc[w] = "wait"}      \* waiting for task_available

-----------------------------------------------------------------------------
(* fj_fork *)

ParentOf(th) == IF th # Main /\ tracked THEN task[th] ELSE NULL

(* Where a thread goes on after it has forked: main joins its one task, a  *)
(* worker forks its second child or turns to joining the first.            *)
ForkedOne(th) == IF th # Main /\ step[th] = 1 THEN <<"fork", 2>> ELSE <<"join", 1>>

(* A full table: task_count has grown all the same. *)
ForkFails(th) ==
  /\ pc[th] = "fork" /\ pool_lock = Nobody
  /\ task_count >= MAX_TASKS
  /\ task_count' = task_count + 1
  /\ child' = [child EXCEPT ![th][step[th]] = NULL]
  /\ pc' = [pc EXCEPT ![th] = ForkedOne(th)[1]]
  /\ step' = [step EXCEPT ![th] = ForkedOne(th)[2]]
  /\ UNCHANGED <<config, tableVars, lock, active, pool_lock, task, res, undefined>>

(* Mutant: the table is full one task later. *)
ForkUnchecked(th) ==
  /\ pc[th] = "fork" /\ pool_lock = Nobody
  /\ task_count <= MAX_TASKS
  /\ pool_lock' = th
  /\ task_count' = task_count + 1
  /\ child' = [child EXCEPT ![th][step[th]] = task_count]
  /\ arg' = [arg EXCEPT ![task_count] = IF th = Main THEN n
                                        ELSE arg[task[th]] - step[th]]
  /\ result' = [result EXCEPT ![task_count] = NULL]
  /\ status' = [status EXCEPT ![task_count] = "WAITING"]
  /\ parent_id' = [parent_id EXCEPT ![task_count] = ParentOf(th)]
  /\ child_count' = [child_count EXCEPT ![task_count] = 0]
  /\ completed_children' = [completed_children EXCEPT ![task_count] = 0]
  /\ pc' = [pc EXCEPT ![th] = "forked"]
  /\ UNCHANGED <<config, lock, active, task, step, res, undefined>>

(* Mutant: both children get the same argument. *)
ForkSameArg(th) ==
  /\ pc[th] = "fork" /\ pool_lock = Nobody
  /\ task_count < MAX_TASKS
  /\ pool_lock' = th
  /\ task_count' = task_count + 1
  /\ child' = [child EXCEPT ![th][step[th]] = task_count]
  /\ arg' = [arg EXCEPT ![task_count] = IF th = Main THEN n
                                        ELSE arg[task[th]] - 1]
  /\ result' = [result EXCEPT ![task_count] = NULL]
  /\ status' = [status EXCEPT ![task_count] = "WAITING"]
  /\ parent_id' = [parent_id EXCEPT ![task_count] = ParentOf(th)]
  /\ child_count' = [child_count EXCEPT ![task_count] = 0]
  /\ completed_children' = [completed_children EXCEPT ![task_count] = 0]
  /\ pc' = [pc EXCEPT ![th] = "forked"]
  /\ UNCHANGED <<config, lock, active, task, step, res, undefined>>

(* The new task is filled in; pool_lock is kept until ForkSignal. *)
Fork(th) ==
  /\ pc[th] = "fork" /\ pool_lock = Nobody
  /\ task_count < MAX_TASKS
  /\ pool_lock' = th
  /\ task_count' = task_count + 1
  /\ child' = [child EXCEPT ![th][step[th]] = task_count]
  /\ arg' = [arg EXCEPT ![task_count] = IF th = Main THEN n
                                        ELSE arg[task[th]] - step[th]]
  /\ result' = [result EXCEPT ![task_count] = NULL]
  /\ status' = [status EXCEPT ![task_count] = "WAITING"]
  /\ parent_id' = [parent_id EXCEPT ![task_count] = ParentOf(th)]
  /\ child_count' = [child_count EXCEPT ![task_count] = 0]
  /\ completed_children' = [completed_children EXCEPT ![task_count] = 0]
  /\ pc' = [pc EXCEPT ![th] = "forked"]
  /\ UNCHANGED <<config, lock, active, task, step, res, undefined>>

(* Mutant: a signal only for the first task on the table. *)
ForkSignalFirst(th) ==
  /\ pc[th] = "forked"
  /\ IF ParentOf(th) = NULL
     THEN UNCHANGED child_count
     ELSE /\ lock[ParentOf(th)] = Nobody
          /\ child_count' = [child_count EXCEPT ![ParentOf(th)] = @ + 1]
  /\ LET on == [pc EXCEPT ![th] = ForkedOne(th)[1]]
     IN IF Asleep = {} \/ Cardinality(Waiting) > 1 THEN pc' = on
        ELSE \E w \in Asleep : pc' = [on EXCEPT ![w] = "lock"]
  /\ step' = [step EXCEPT ![th] = ForkedOne(th)[2]]
  /\ pool_lock' = Nobody
  /\ UNCHANGED <<config, status, arg, result, parent_id, completed_children, lock,
                 poolVars, task, child, res, undefined>>

(* Mutant: no worker is signalled. *)
ForkUnsignalled(th) ==
  /\ pc[th] = "forked"
  /\ IF ParentOf(th) = NULL
     THEN UNCHANGED child_count
     ELSE /\ lock[ParentOf(th)] = Nobody
          /\ child_count' = [child_count EXCEPT ![ParentOf(th)] = @ + 1]
  /\ pc' = [pc EXCEPT ![th] = ForkedOne(th)[1]]
  /\ step' = [step EXCEPT ![th] = ForkedOne(th)[2]]
  /\ pool_lock' = Nobody
  /\ UNCHANGED <<config, status, arg, result, parent_id, completed_children, lock,
                 poolVars, task, child, res, undefined>>

(* Mutant: the parent does not count its child. *)
ForkSignalUncounted(th) ==
  /\ pc[th] = "forked"
  /\ LET on == [pc EXCEPT ![th] = ForkedOne(th)[1]]
     IN IF Asleep = {} THEN pc' = on
        ELSE \E w \in Asleep : pc' = [on EXCEPT ![w] = "lock"]
  /\ step' = [step EXCEPT ![th] = ForkedOne(th)[2]]
  /\ pool_lock' = Nobody
  /\ UNCHANGED <<config, tableVars, lock, poolVars, task, child, res, undefined>>

(* The parent counts its child, then one sleeping worker is signalled. *)
ForkSignal(th) ==
  /\ pc[th] = "forked"
  /\ IF ParentOf(th) = NULL
     THEN UNCHANGED child_count
     ELSE /\ lock[ParentOf(th)] = Nobody
          /\ child_count' = [child_count EXCEPT ![ParentOf(th)] = @ + 1]
  /\ LET on == [pc EXCEPT ![th] = ForkedOne(th)[1]]
     IN IF Asleep = {} THEN pc' = on
        ELSE \E w \in Asleep : pc' = [on EXCEPT ![w] = "lock"]
  /\ step' = [step EXCEPT ![th] = ForkedOne(th)[2]]
  /\ pool_lock' = Nobody
  /\ UNCHANGED <<config, status, arg, result, parent_id, completed_children, lock,
                 poolVars, task, child, res, undefined>>

-----------------------------------------------------------------------------
(* fj_join, and what its caller does with the result *)

Joined(th) == child[th][step[th]]

(* A failed fork is joined like any other task. *)
JoinFaults(th) == /\ pc[th] = "join" /\ Joined(th) = NULL
                  /\ undefined' = TRUE
                  /\ UNCHANGED <<config, tableVars, lock, poolVars, pool_lock, pc,
                                 localVars>>

JoinWaits(th) ==
  /\ pc[th] = "join" /\ Joined(th) # NULL
  /\ lock[Joined(th)] = Nobody
  /\ status[Joined(th)] \notin {"COMPLETED", "FAILED"}
  /\ pc' = [pc EXCEPT ![th] = "asleep"]
  /\ UNCHANGED <<config, tableVars, lock, poolVars, pool_lock, localVars, undefined>>

(* Mutant: the task's status is not looked at. *)
JoinReturnsAnyway(th) ==
  /\ pc[th] = "join" /\ Joined(th) # NULL
  /\ lock[Joined(th)] = Nobody
  /\ res' = [res EXCEPT ![th][step[th]] = result[Joined(th)]]
  /\ step' = [step EXCEPT ![th] = IF th # Main /\ @ = 1 THEN 2 ELSE 1]
  /\ pc' = [pc EXCEPT ![th] = IF th # Main /\ step[th] = 1 THEN "join" ELSE "joined"]
  /\ UNCHANGED <<config, tableVars, lock, poolVars, pool_lock, task, child, undefined>>

JoinReturns(th) ==
  /\ pc[th] = "join" /\ Joined(th) # NULL
  /\ lock[Joined(th)] = Nobody
  /\ status[Joined(th)] \in {"COMPLETED", "FAILED"}
  /\ res' = [res EXCEPT ![th][step[th]] = result[Joined(th)]]
  /\ step' = [step EXCEPT ![th] = IF th # Main /\ @ = 1 THEN 2 ELSE 1]
  /\ pc' = [pc EXCEPT ![th] = IF th # Main /\ step[th] = 1 THEN "join" ELSE "joined"]
  /\ UNCHANGED <<config, tableVars, lock, poolVars, pool_lock, task, child, undefined>>

-----------------------------------------------------------------------------
(* worker_function *)

IsFirst(t, S) == t \in S /\ \A u \in S : t <= u

(* Nothing to take: wait while the pool is active, exit otherwise. *)
SleepOrExit(w) == IF active THEN "wait" ELSE "exited"

(* get_next_task, under pool_lock. *)
FindNoTask(w) == /\ pc[w] = "lock" /\ pool_lock = Nobody
                 /\ Waiting = {}
                 /\ pc' = [pc EXCEPT ![w] = SleepOrExit(w)]
                 /\ UNCHANGED <<config, tableVars, lock, poolVars, pool_lock,
                                localVars, undefined>>

(* After a fork has failed the scan runs on behind the table. *)
ScanFaults(w) == /\ pc[w] = "lock" /\ pool_lock = Nobody
                 /\ Waiting = {} /\ task_count > MAX_TASKS
                 /\ undefined' = TRUE
                 /\ UNCHANGED <<config, tableVars, lock, poolVars, pool_lock, pc,
                                localVars>>

(* Mutant: pool_lock is given back before the task is marked. *)
FindTaskUnlocks(w) == /\ pc[w] = "lock" /\ pool_lock = Nobody
                      /\ \E t \in Task : /\ IsFirst(t, Waiting)
                                        /\ task' = [task EXCEPT ![w] = t]
                      /\ pc' = [pc EXCEPT ![w] = "found"]
                      /\ UNCHANGED <<config, tableVars, lock, poolVars, pool_lock,
                                     step, child, res, undefined>>

FindTask(w) == /\ pc[w] = "lock" /\ pool_lock = Nobody
               /\ pool_lock' = w
               /\ \E t \in Task : IsFirst(t, Waiting) /\ task' = [task EXCEPT ![w] = t]
               /\ pc' = [pc EXCEPT ![w] = "found"]
               /\ UNCHANGED <<config, tableVars, lock, poolVars, step, child, res,
                              undefined>>

MarkRunning(w) == /\ pc[w] = "found" /\ lock[task[w]] = Nobody
                  /\ status' = [status EXCEPT ![task[w]] = "RUNNING"]
                  /\ pool_lock' = Nobody
                  /\ pc' = [pc EXCEPT ![w] = "run"]
                  /\ UNCHANGED <<config, arg, result, parent_id, child_count,
                                 completed_children, lock, poolVars, localVars,
                                 undefined>>

(* fibonacci: a small n is its own result, a larger one forks. *)
Run(w) == /\ pc[w] = "run"
          /\ IF arg[task[w]] <= 1
             THEN /\ res' = [res EXCEPT ![w] = [k \in 1 .. 2 |->
                                               IF k = 1 THEN arg[task[w]] ELSE 0]]
                  /\ pc' = [pc EXCEPT ![w] = "store"]
             ELSE /\ pc' = [pc EXCEPT ![w] = "fork"]
                  /\ UNCHANGED res
          /\ UNCHANGED <<config, tableVars, lock, poolVars, pool_lock, task, step,
                         child, undefined>>

(* malloc fails: the task's result is a null pointer. *)
RunFails(w) == /\ pc[w] = "run"
               /\ res' = [res EXCEPT ![w] = [k \in 1 .. 2 |-> NULL]]
               /\ pc' = [pc EXCEPT ![w] = "store"]
               /\ UNCHANGED <<config, tableVars, lock, poolVars, pool_lock, task,
                              step, child, undefined>>

(* res1 and res2 are dereferenced unseen. *)
Sum(w) == /\ pc[w] = "joined"
          /\ IF NULL \in {res[w][1], res[w][2]}
             THEN undefined' = TRUE /\ UNCHANGED pc
             ELSE pc' = [pc EXCEPT ![w] = "store"] /\ UNCHANGED undefined
          /\ UNCHANGED <<config, tableVars, lock, poolVars, pool_lock, localVars>>

Value(w) == IF res[w][1] = NULL THEN NULL ELSE res[w][1] + res[w][2]

(* Mutant: the task's lock is given back before the parent is told. *)
StoreUnlocks(w) ==
  /\ pc[w] = "store" /\ lock[task[w]] = Nobody
  /\ result' = [result EXCEPT ![task[w]] = Value(w)]
  /\ status' = [status EXCEPT ![task[w]] = "COMPLETED"]
  /\ pc' = [pc EXCEPT ![w] = IF parent_id[task[w]] = NULL THEN "lock" ELSE "stored"]
  /\ UNCHANGED <<config, arg, parent_id, child_count, completed_children, lock,
                 poolVars, pool_lock, localVars, undefined>>

(* Result and status; the lock is kept while the parent is told. *)
Store(w) ==
  /\ pc[w] = "store" /\ lock[task[w]] = Nobody
  /\ result' = [result EXCEPT ![task[w]] = Value(w)]
  /\ status' = [status EXCEPT ![task[w]] = "COMPLETED"]
  /\ IF parent_id[task[w]] = NULL
     THEN /\ pc' = [pc EXCEPT ![w] = "lock"]
          /\ UNCHANGED lock
     ELSE /\ pc' = [pc EXCEPT ![w] = "stored"]
          /\ lock' = [lock EXCEPT ![task[w]] = w]
  /\ UNCHANGED <<config, arg, parent_id, child_count, completed_children, poolVars,
                 pool_lock, localVars, undefined>>

Joiners(t) == {th \in Thread : pc[th] = "asleep" /\ Joined(th) = t}

(* The parent's own completion_cond is signalled when its children are     *)
(* done: it wakes whoever joins the parent.                                *)
Report(w) ==
  LET p == parent_id[task[w]]
      on == [pc EXCEPT ![w] = "lock"]
  IN /\ pc[w] = "stored" /\ lock[p] = Nobody
     /\ completed_children' = [completed_children EXCEPT ![p] = @ + 1]
     /\ IF completed_children[p] + 1 = child_count[p] /\ Joiners(p) # {}
        THEN \E th \in Joiners(p) : pc' = [on EXCEPT ![th] = "join"]
        ELSE pc' = on
     /\ lock' = [lock EXCEPT ![task[w]] = Nobody]
     /\ UNCHANGED <<config, status, arg, result, parent_id, child_count, poolVars,
                    pool_lock, localVars, undefined>>

WorkerStep(w) == FindNoTask(w) \/ ScanFaults(w) \/ FindTask(w) \/ MarkRunning(w)
                 \/ Run(w) \/ RunFails(w) \/ Sum(w) \/ Store(w) \/ Report(w)

-----------------------------------------------------------------------------
(* main, after its join *)

ShowResult == /\ pc[Main] = "joined"
              /\ IF res[Main][1] = NULL
                 THEN undefined' = TRUE /\ UNCHANGED pc
                 ELSE pc' = [pc EXCEPT ![Main] = "shutdown"] /\ UNCHANGED undefined
              /\ UNCHANGED <<config, tableVars, lock, poolVars, pool_lock, localVars>>

(* Mutant: one worker is woken instead of all. *)
ShutdownSignals ==
  /\ pc[Main] = "shutdown" /\ pool_lock = Nobody
  /\ active' = FALSE
  /\ LET on == [pc EXCEPT ![Main] = "join workers"]
     IN IF Asleep = {} THEN pc' = on
        ELSE \E w \in Asleep : pc' = [on EXCEPT ![w] = "lock"]
  /\ UNCHANGED <<config, tableVars, lock, task_count, pool_lock, localVars, undefined>>

Shutdown ==
  /\ pc[Main] = "shutdown" /\ pool_lock = Nobody
  /\ active' = FALSE
  /\ pc' = [th \in Thread |-> IF th = Main THEN "join workers"
                              ELSE IF th \in Asleep THEN "lock" ELSE pc[th]]
  /\ UNCHANGED <<config, tableVars, lock, task_count, pool_lock, localVars, undefined>>

(* Mutant: one worker is left out of the joining loop. *)
DestroyEarly ==
  /\ pc[Main] = "join workers"
  /\ \E w \in Workers : \A v \in Workers \ {w} : pc[v] = "exited"
  /\ pc' = [pc EXCEPT ![Main] = "destroyed"]
  /\ UNCHANGED <<config, tableVars, lock, poolVars, pool_lock, localVars, undefined>>

(* pthread_join on every worker, then the locks are destroyed. *)
Destroy == /\ pc[Main] = "join workers"
           /\ \A w \in Workers : pc[w] = "exited"
           /\ pc' = [pc EXCEPT ![Main] = "destroyed"]
           /\ UNCHANGED <<config, tableVars, lock, poolVars, pool_lock, localVars,
                          undefined>>

-----------------------------------------------------------------------------
(* The system *)

ThreadStep(th) == /\ ~undefined
                  /\ \/ ForkFails(th) \/ Fork(th) \/ ForkSignal(th)
                     \/ JoinFaults(th) \/ JoinWaits(th) \/ JoinReturns(th)
                     \/ th # Main /\ WorkerStep(th)
                     \/ th = Main /\ (ShowResult \/ Shutdown \/ Destroy)

(* pthread_cond_wait may return unasked; both loops check again. *)
SpuriousWakeup(th) ==
  /\ ~undefined
  /\ pc[th] \in {"wait", "asleep"}
  /\ pc' = [pc EXCEPT ![th] = IF @ = "wait" THEN "lock" ELSE "join"]
  /\ UNCHANGED <<config, tableVars, lock, poolVars, pool_lock, localVars, undefined>>

Ended == /\ undefined \/ pc[Main] = "destroyed"
         /\ UNCHANGED vars

Next == \/ \E th \in Thread : ThreadStep(th) \/ SpuriousWakeup(th)
        \/ Ended

(* Every thread runs on as long as it can; nobody counts on spurious        *)
(* wakeups.                                                                 *)
Fairness == \A th \in Thread : WF_vars(ThreadStep(th))

Spec == Init /\ [][Next]_vars /\ Fairness

-----------------------------------------------------------------------------
(* Properties *)

Maybe(S) == S \cup {NULL}
Pc == {"fork", "forked", "join", "asleep", "joined", "lock", "wait", "found", "run",
       "store", "stored", "exited", "shutdown", "join workers", "destroyed"}

(* The type invariant. *)
TypeOK == /\ status \in [Task -> {"WAITING", "RUNNING", "COMPLETED", "FAILED"}]
          /\ arg \in [Task -> Maybe(Nat)] /\ result \in [Task -> Maybe(Nat)]
          /\ parent_id \in [Task -> Maybe(Task)]
          /\ child_count \in [Task -> Nat] /\ completed_children \in [Task -> Nat]
          /\ lock \in [Task -> Workers \cup {Nobody}]
          /\ task_count \in Nat /\ active \in BOOLEAN
          /\ pool_lock \in Thread \cup {Nobody}
          /\ pc \in [Thread -> Pc] /\ task \in [Workers -> Maybe(Task)]
          /\ step \in [Thread -> 1 .. 2]
          /\ child \in [Thread -> [1 .. 2 -> Maybe(Task)]]
          /\ res \in [Thread -> [1 .. 2 -> Maybe(Nat)]]
          /\ n \in Nat /\ tracked \in BOOLEAN /\ undefined \in BOOLEAN

WorksOn(t) == {w \in Workers : task[w] = t /\ pc[w] \notin {"lock", "wait", "found",
                                                            "stored", "exited"}}

(* A task is run by one worker, and by it alone, exactly as long as its     *)
(* status says so: taking a task off the table and marking it               *)
(* (mytpool.c:13-28) cannot be torn apart.                                  *)
OneWorkerPerTask ==
  \A t \in Task : Cardinality(WorksOn(t)) = IF status[t] = "RUNNING" THEN 1 ELSE 0

(* No wakeup is lost: when pool_lock is free and a worker sleeps, there are *)
(* at least as many workers on their way to the table as tasks waiting      *)
(* there (mytask.c:33, mytpool.c:13-15).                                    *)
NoLostWakeup ==
  pool_lock = Nobody /\ Asleep # {} =>
    Cardinality(Waiting) <= Cardinality({w \in Workers : pc[w] = "lock"})

(* A parent has counted a child before that child can report to it, and     *)
(* completed_children is the number of children that have reported.         *)
ChildrenCounted ==
  \A t \in Task :
    /\ completed_children[t] <= child_count[t]
    /\ completed_children[t] = Cardinality({c \in Forked :
         /\ parent_id[c] = t /\ status[c] = "COMPLETED"
         /\ \A w \in Workers : ~(task[w] = c /\ pc[w] = "stored")})

fib[k \in Nat] == IF k <= 1 THEN k ELSE fib[k - 1] + fib[k - 2]

(* A completed task holds the Fibonacci number of its argument, or the null *)
(* pointer of a failed malloc, however its children were scheduled.         *)
ResultsCorrect ==
  \A t \in Task : status[t] = "COMPLETED" => result[t] \in {fib[arg[t]], NULL}

(* completion_cond of a task is signalled only while the task still runs,   *)
(* so a joiner that is woken finds it unfinished (mytpool.c:46-47): the     *)
(* signal is meant for the parent but goes to whoever joins the parent.     *)
SignalledTooEarly ==
  [][\A w \in Workers : Report(w) =>
       \A th \in Joiners(parent_id[task[w]]) : status[Joined(th)] = "RUNNING"]_vars

(* The process leaves its tables only after a fork too many or a failed     *)
(* malloc (mytask.c:8-12, mytpool.c:60, main.c:46).                         *)
FaultsExplained ==
  undefined => task_count > MAX_TASKS \/ \E t \in Forked : status[t] = "COMPLETED"
                                                           /\ result[t] = NULL

(* A forked task is taken by a worker, unless every worker blocks in a join *)
(* itself (a pool whose workers all wait has nobody left to work).          *)
TakenUnlessAllJoin ==
  \A t \in Task : t \in Waiting ~>
    t \notin Waiting \/ undefined \/ \A w \in Workers : pc[w] \in {"join", "asleep"}

(* fj_pool_shutdown returns: the broadcast reaches every sleeping worker    *)
(* and each of them exits.                                                  *)
ShutdownReturns ==
  pc[Main] = "shutdown" ~> pc[Main] = "destroyed" \/ undefined

(* When the locks are destroyed nobody holds or wants one, and no task is   *)
(* left behind (mytpool.c:112-123).                                         *)
QuietWhenDestroyed ==
  pc[Main] = "destroyed" =>
    /\ pool_lock = Nobody /\ \A t \in Task : lock[t] = Nobody
    /\ \A w \in Workers : pc[w] = "exited"
    /\ \A t \in Forked : status[t] = "COMPLETED"

(* "Join with a task (wait for it to complete)" (mytask.c:39): a thread     *)
(* that waits for a task which has completed goes on.                       *)
CompletedJoinReturns ==
  \A th \in Thread : pc[th] = "asleep" /\ status[Joined(th)] = "COMPLETED"
                     ~> pc[th] # "asleep"
=============================================================================
