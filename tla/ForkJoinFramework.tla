-------------------------- MODULE ForkJoinFramework --------------------------
(***************************************************************************)
(* lab_4/prob3_ForkJoin/fork_join_framework.c: a thread per task.  The sum *)
(* of an array is split into two halves, each a task whose task_t lies on  *)
(* the stack of the thread that forks and joins it.                        *)
(*                                                                         *)
(* A task is named by its range <<left, right>>, which no other task has.  *)
(* join_task's critical section is one step; run_task's is two, because    *)
(* what happens around its unlock is the delicate part.  Nobody looks at   *)
(* the result of pthread_create, so a thread may silently be missing.      *)
(***************************************************************************)
EXTENDS Integers, FiniteSets, Functions

CONSTANTS N,          \* the size of the array, main's N
          Arr,        \* its contents
          Main,       \* the main thread
          NoValue     \* what uninitialised memory holds

ASSUME FrameworkAssumption ==
  /\ N \in Nat \ {0} /\ Arr \in [0 .. (N - 1) -> Int]
  /\ Main \notin (0 .. (N - 1)) \X (0 .. (N - 1)) /\ NoValue \notin Int

Task == {t \in (0 .. (N - 1)) \X (0 .. (N - 1)) : t[1] <= t[2]}
Thread == Task \cup {Main}
Root == <<0, N - 1>>

VARIABLES pc,         \* where each thread is; "none" before its creation
          completed,  \* task_t.completed
          result,     \* task_t.result, the number it points to
          v1,         \* per thread: what its first join_task returned
          res         \* per thread: the number in its malloc'd res

vars == <<pc, completed, result, v1, res>>

(* A task_t on the stack holds anything before fork_task has been there. *)
Init == /\ pc = [th \in Thread |-> IF th = Main THEN "fork1" ELSE "none"]
        /\ \E garbage \in BOOLEAN : completed = [t \in Task |-> garbage]
        /\ result = [t \in Task |-> NoValue]
        /\ v1 = [th \in Thread |-> NoValue]
        /\ res = [th \in Thread |-> NoValue]

-----------------------------------------------------------------------------
(* The tree of tasks *)

Halves(t) == LET mid == (t[1] + t[2]) \div 2
             IN <<<<t[1], mid>>, <<mid + 1, t[2]>>>>

IsLeaf(t) == t[1] = t[2]
First(th) == IF th = Main THEN Root ELSE Halves(th)[1]
Second(th) == Halves(th)[2]

(* The task a thread is in join_task for, awake or asleep. *)
JoinsFirst == {"join1", "asleep1"}
JoinsSecond == {"join2", "asleep2"}
Joins(th, t) == \/ pc[th] \in JoinsFirst /\ t = First(th)
                \/ pc[th] \in JoinsSecond /\ t = Second(th)

Locked(t) == pc[t] = "unlock"       \* the mutex, between two steps
Running == pc[Main] \notin {"exited", "crashed"}

-----------------------------------------------------------------------------
(* fork_task: pthread_create starts a thread or fails unnoticed. *)

(* Mutant: completed is not reset. *)
ForkUnreset(th, t, next) ==
  /\ \E start \in {"start", "missing"} :
       pc' = [pc EXCEPT ![th] = next, ![t] = start]
  /\ UNCHANGED <<completed, result, v1, res>>

Fork(th, t, next) ==
  /\ completed' = [completed EXCEPT ![t] = FALSE]
  /\ \E start \in {"start", "missing"} :
       pc' = [pc EXCEPT ![th] = next, ![t] = start]
  /\ UNCHANGED <<result, v1, res>>

ForkFirst(th) ==
  /\ pc[th] = "fork1"
  /\ Fork(th, First(th), IF th = Main THEN "join1" ELSE "fork2")

ForkSecond(t) == pc[t] = "fork2" /\ Fork(t, Second(t), "join1")

-----------------------------------------------------------------------------
(* join_task *)

(* The signal, or a spurious wakeup, of everybody who waits for a task. *)
Wake(t) == [th \in Thread |-> IF Joins(th, t)
                              THEN IF pc[th] \in JoinsFirst THEN "join1" ELSE "join2"
                              ELSE pc[th]]

(* Mutant: the flag is not tested under the lock. *)
JoinWaitsUntested(th) ==
  \E t \in Task :
    /\ pc[th] \in {"join1", "join2"} /\ Joins(th, t)
    /\ ~Locked(t)
    /\ pc' = [pc EXCEPT ![th] = IF @ = "join1" THEN "asleep1" ELSE "asleep2"]
    /\ UNCHANGED <<completed, result, v1, res>>

JoinWaits(th) ==
  \E t \in Task :
    /\ pc[th] \in {"join1", "join2"} /\ Joins(th, t)
    /\ ~Locked(t) /\ ~completed[t]
    /\ pc' = [pc EXCEPT ![th] = IF @ = "join1" THEN "asleep1" ELSE "asleep2"]
    /\ UNCHANGED <<completed, result, v1, res>>

(* Mutant: the flag is not tested. *)
JoinFirstUntested(th) ==
  /\ pc[th] = "join1" /\ ~Locked(First(th))
  /\ v1' = [v1 EXCEPT ![th] = result[First(th)]]
  /\ pc' = [pc EXCEPT ![th] = IF th = Main THEN "joined" ELSE "join2"]
  /\ UNCHANGED <<completed, result, res>>

JoinFirst(th) ==
  /\ pc[th] = "join1"
  /\ ~Locked(First(th)) /\ completed[First(th)]
  /\ v1' = [v1 EXCEPT ![th] = result[First(th)]]
  /\ pc' = [pc EXCEPT ![th] = IF th = Main THEN "joined" ELSE "join2"]
  /\ UNCHANGED <<completed, result, res>>

(* The second join, and the sum of both numbers. *)
JoinSecond(t) ==
  /\ pc[t] = "join2"
  /\ ~Locked(Second(t)) /\ completed[Second(t)]
  /\ res' = [res EXCEPT ![t] = v1[t] + result[Second(t)]]
  /\ pc' = [pc EXCEPT ![t] = "store"]
  /\ UNCHANGED <<completed, result, v1>>

SpuriousWakeup(t) ==
  /\ \E th \in Thread : pc[th] \in {"asleep1", "asleep2"} /\ Joins(th, t)
  /\ pc' = Wake(t)
  /\ UNCHANGED <<completed, result, v1, res>>

-----------------------------------------------------------------------------
(* run_task with worker_sum inside *)

Leaf(t) == /\ pc[t] = "start" /\ IsLeaf(t)
           /\ res' = [res EXCEPT ![t] = Arr[t[1]]]
           /\ pc' = [pc EXCEPT ![t] = "store"]
           /\ UNCHANGED <<completed, result, v1>>

Split(t) == /\ pc[t] = "start" /\ ~IsLeaf(t)
            /\ pc' = [pc EXCEPT ![t] = "fork1"]
            /\ UNCHANGED <<completed, result, v1, res>>

(* A null pointer from malloc is written through: the process is gone. *)
MallocFailed(t) == /\ pc[t] = "store"
                   /\ pc' = [pc EXCEPT ![Main] = "crashed"]
                   /\ UNCHANGED <<completed, result, v1, res>>

(* worker_sum's frame is gone when its value is stored. *)
Store(t) == /\ pc[t] = "store"
            /\ result' = [result EXCEPT ![t] = res[t]]
            /\ pc' = [pc EXCEPT ![t] = "complete"]
            /\ UNCHANGED <<completed, v1, res>>

(* Mutant: the joiner is not signalled. *)
CompleteSilently(t) ==
  /\ pc[t] = "complete"
  /\ completed' = [completed EXCEPT ![t] = TRUE]
  /\ pc' = [pc EXCEPT ![t] = "unlock"]
  /\ UNCHANGED <<result, v1, res>>

(* Lock, set the flag and signal. *)
Complete(t) ==
  /\ pc[t] = "complete"
  /\ completed' = [completed EXCEPT ![t] = TRUE]
  /\ pc' = [Wake(t) EXCEPT ![t] = "unlock"]
  /\ UNCHANGED <<result, v1, res>>

Unlock(t) == /\ pc[t] = "unlock"
             /\ pc' = [pc EXCEPT ![t] = "return"]
             /\ UNCHANGED <<completed, result, v1, res>>

(* The thread reads task->result once more; it may be gone by now, but      *)
(* nobody asks for what the thread returns.                                 *)
Return(t) == /\ pc[t] = "return"
             /\ pc' = [pc EXCEPT ![t] = "ended"]
             /\ UNCHANGED <<completed, result, v1, res>>

(* validate_sum; the process ends with main, whoever still runs. *)
Exit == /\ pc[Main] = "joined"
        /\ pc' = [pc EXCEPT ![Main] = "exited"]
        /\ UNCHANGED <<completed, result, v1, res>>

-----------------------------------------------------------------------------
TaskStep(t) == \/ Leaf(t) \/ Split(t) \/ ForkFirst(t) \/ ForkSecond(t)
               \/ JoinFirst(t) \/ JoinSecond(t) \/ JoinWaits(t)
               \/ MallocFailed(t) \/ Store(t) \/ Complete(t) \/ Unlock(t) \/ Return(t)

MainStep == ForkFirst(Main) \/ JoinFirst(Main) \/ JoinWaits(Main) \/ Exit

Next == \/ Running /\ (MainStep \/ \E t \in Task : TaskStep(t) \/ SpuriousWakeup(t))
        \/ ~Running /\ UNCHANGED vars

(* Every thread runs on as long as it can. *)
Fairness == /\ WF_vars(Running /\ MainStep)
            /\ \A t \in Task : WF_vars(Running /\ TaskStep(t))

Spec == Init /\ [][Next]_vars /\ Fairness

-----------------------------------------------------------------------------
(* Properties *)

Pc == {"none", "missing", "start", "fork1", "fork2", "join1", "asleep1", "join2",
       "asleep2", "store", "complete", "unlock", "return", "ended"}

(* The type invariant: numbers are numbers wherever they are used. *)
TypeOK ==
  /\ \A t \in Task : pc[t] \in Pc
  /\ pc[Main] \in {"fork1", "join1", "asleep1", "joined", "exited", "crashed"}
  /\ completed \in [Task -> BOOLEAN]
  /\ result \in [Task -> Int \cup {NoValue}]
  /\ v1 \in [Thread -> Int \cup {NoValue}] /\ res \in [Thread -> Int \cup {NoValue}]
  /\ \A th \in Thread : pc[th] \in JoinsSecond \cup {"joined"} => v1[th] \in Int
  /\ \A t \in Task : pc[t] = "store" => res[t] \in Int

(* Whatever the order in which threads run, a finished task holds the sum   *)
(* of its range and main gets the sum of the array (lines 62-72, 113).      *)
SumsCorrect ==
  /\ \A t \in Task : pc[t] \in {"complete", "unlock", "return", "ended"} =>
       result[t] = SumFunctionOnSet(Arr, t[1] .. t[2])
  /\ pc[Main] \in {"joined", "exited"} => v1[Main] = SumFunction(Arr)

Working == Pc \ {"none", "missing", "return", "ended"}

(* A thread that still has to join a task it has forked. *)
WillJoin(th, t) == \/ Joins(th, t)
                   \/ pc[th] = "fork2" /\ t = First(th)
                   \/ th # Main /\ pc[th] \in JoinsFirst /\ t = Second(th)

(* A thread uses its task_t, and its argument, only as long as the stack    *)
(* frame they lie in exists: its parent has not yet left the join of it     *)
(* (lines 65-71).  Only the read in line 34 may come too late.              *)
FramesOutliveTasks ==
  Running => \A t \in Task : pc[t] \in Working => \E th \in Thread : WillJoin(th, t)

(* Nobody sleeps on a task that has completed: testing the flag and going   *)
(* to sleep cannot be overtaken by the signal (lines 30-33, 49-53).         *)
NoSleeperOnCompleted ==
  \A th \in Thread, t \in Task :
    pc[th] \in {"asleep1", "asleep2"} /\ Joins(th, t) => ~completed[t]

Within(t, th) == th = Main \/ (th[1] <= t[1] /\ t[2] <= th[2])

(* join_task returns: only a thread that could not be created, somewhere    *)
(* below, keeps a joiner waiting for ever (lines 44, 50-52).                *)
JoinReturns ==
  \A th \in Thread :
    pc[th] \in JoinsFirst \cup JoinsSecond ~>
      \/ pc[th] \notin JoinsFirst \cup JoinsSecond
      \/ ~Running
      \/ \E t \in Task : pc[t] = "missing" /\ Within(t, th)
=============================================================================
