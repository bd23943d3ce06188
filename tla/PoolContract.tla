---------------------------- MODULE PoolContract ----------------------------
(***************************************************************************)
(* What the bktpool API of lab_4/prob1_FIFO promises its caller, with no   *)
(* ring buffer, no mutex and no signals: workers wait in arrival order,    *)
(* the scheduler hands out the one that has waited longest, a worker is    *)
(* given one task, runs it once, and only then waits again.  WorkerPool    *)
(* implements this specification.                                          *)
(***************************************************************************)
EXTENDS Integers, Sequences

CONSTANTS Workers,      \* the worker ids, natural numbers
          Tasks         \* the task ids

VARIABLES avail,    \* the waiting workers, longest-waiting first
          duty,     \* per worker: where it is in its round
          job,      \* per task: the worker it was given to, or -1
          done      \* the tasks whose function has been called

vars == <<avail, duty, job, done>>

Duty == {"new", "free", "taken", "busy", "ran"}

Init == /\ avail = <<>>
        /\ duty = [w \in Workers |-> "new"]
        /\ job = [t \in Tasks |-> -1]
        /\ done = {}

(* A worker that joins, or has run its task, waits at the end of the queue. *)
Park(w) == /\ duty[w] \in {"new", "ran"}
           /\ avail' = Append(avail, w)
           /\ duty' = [duty EXCEPT ![w] = "free"]
           /\ UNCHANGED <<job, done>>

(* The scheduler hands out the longest-waiting worker. *)
Take == /\ avail # <<>>
        /\ avail' = Tail(avail)
        /\ duty' = [duty EXCEPT ![Head(avail)] = "taken"]
        /\ UNCHANGED <<job, done>>

(* A worker that was handed out is given a task nobody was given before. *)
Give(w, t) == /\ duty[w] = "taken"
              /\ job[t] = -1
              /\ duty' = [duty EXCEPT ![w] = "busy"]
              /\ job' = [job EXCEPT ![t] = w]
              /\ UNCHANGED <<avail, done>>

(* The worker calls the task's function. *)
Run(w, t) == /\ duty[w] = "busy"
             /\ job[t] = w
             /\ t \notin done
             /\ duty' = [duty EXCEPT ![w] = "ran"]
             /\ done' = done \cup {t}
             /\ UNCHANGED <<avail, job>>

Next == \/ Take
        \/ \E w \in Workers : Park(w)
        \/ \E w \in Workers, t \in Tasks : Give(w, t) \/ Run(w, t)

Spec == Init /\ [][Next]_vars
=============================================================================
