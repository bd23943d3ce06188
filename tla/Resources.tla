----------------------------- MODULE Resources -----------------------------
(***************************************************************************)
(* Three programs about resources held and waited for.                     *)
(*  - ex6resreq/async_res_request.c: processes request several units of a  *)
(*    counted resource, under a mutex and a condition that every release   *)
(*    broadcasts.                                                          *)
(*  - p3dinPhil/dinPhil.c: philosophers take the left fork, then the       *)
(*    right one; a fork is a semaphore.                                    *)
(*  - ex5recovery/periodic_check.c: a detector looks whether the system is *)
(*    safe, under a mutex, and recovers; main joins it.                    *)
(***************************************************************************)
EXTENDS Runtime, Functions

CONSTANTS NUM_RESOURCES,  \* async_res_request.c:6
          Requests,       \* async_res_request.c:55: the units each process requests
          N               \* dinPhil.c:7

Programs == {"async_res_request", "dinPhil", "periodic_check"}

Processes == DOMAIN Requests
Philosophers == 0 .. N - 1
Right(phil) == (phil + 1) % N

Init ==
  \/ Start("async_res_request", [p \in Processes |-> "lock"],
           [available |-> NUM_RESOURCES, lock |-> Free,
            waiting |-> [c \in {"cond"} |-> {}], spurious |-> 0])
  \/ Start("dinPhil", [phil \in Philosophers |-> "left"], [sem |-> [f \in Philosophers |-> 1]])
  \/ \E main \in {"run", "failed"} :      \* pthread_create may fail
       Start("periodic_check", [main |-> main, detector |-> IF main = "run" THEN "lock" ELSE "none"],
             [lock |-> Free, finished |-> FALSE, safe |-> TRUE])

-----------------------------------------------------------------------------
(* resource_manager *)

(* Mutant: the waiting processes are not told of the release. *)
ReleaseSilently(p) == Goto(p, "broadcast", "unlock2")

ReleaseBroadcasts(p) == Broadcast(p, "cond", "broadcast", "unlock2")

ManagerStep(p) ==
  \/ Relock(p, "lock", "test")
  \/ Requests[p] > mem.available /\ Wait(p, "cond", "test", "lock")
  \/ /\ Requests[p] <= mem.available
     /\ Move(p, "test", "unlock", [mem EXCEPT !.available = @ - Requests[p]])
  \/ Unlock(p, "unlock", "lock2")
  \/ Lock(p, "lock2", "release")
  \/ Move(p, "release", "broadcast", [mem EXCEPT !.available = @ + Requests[p]])
  \/ ReleaseBroadcasts(p)
  \/ Unlock(p, "unlock2", "done")

-----------------------------------------------------------------------------
(* philosopher *)

PhilosopherStep(phil) == \/ SemWait(phil, phil, "left", "right")
                         \/ SemWait(phil, Right(phil), "right", "eat")
                         \/ SemPost(phil, Right(phil), "eat", "post")
                         \/ SemPost(phil, phil, "post", "left")

-----------------------------------------------------------------------------
(* periodical_detector and its main *)

(* The system may be safe or not at each look; is_safe returns 0 when it   *)
(* is, and "if (!is_safe())" recovers in that case.                        *)
Check(t) == \E safe \in BOOLEAN :
              Move(t, "check", IF safe THEN "recovered" ELSE "unlock", [mem EXCEPT !.safe = safe])

(* After a recovery the detector leaves, with the mutex, unless main has   *)
(* finished, which it says without the mutex.                              *)
Leave(t) == \/ ~mem.finished /\ Goto(t, "recovered", "done")
            \/ mem.finished /\ Goto(t, "recovered", "unlock")

DetectorStep(t) == Lock(t, "lock", "check") \/ Check(t) \/ Leave(t) \/ Unlock(t, "unlock", "lock")

(* Main finishes, joins, and destroys the mutex whoever holds it. *)
MainStep(t) == \/ Move(t, "run", "join", [mem EXCEPT !.finished = TRUE])
               \/ Join(t, {"detector"}, "join", "destroyed")

Manage(p) == program = "async_res_request" /\ ManagerStep(p)
Dine(phil) == program = "dinPhil" /\ PhilosopherStep(phil)
Detect == program = "periodic_check" /\ DetectorStep("detector")
Main == program = "periodic_check" /\ MainStep("main")

Next == \/ \E p \in Processes : Manage(p)
        \/ \E phil \in Philosophers : Dine(phil)
        \/ Detect \/ Main

Fairness == /\ \A p \in Processes : WF_vars(Manage(p))
            /\ \A phil \in Philosophers : WF_vars(Dine(phil))
            /\ WF_vars(Detect) /\ WF_vars(Main)

-----------------------------------------------------------------------------
(* Properties *)

Holding == {p \in Processes : pc[p] \in {"unlock", "lock2", "release"}}
HasLeft(phil) == pc[phil] \in {"right", "eat", "post"}
Users(f) == {phil \in Philosophers : \/ f = phil /\ HasLeft(phil)
                                     \/ f = Right(phil) /\ pc[phil] = "eat"}

(* Units are handed out and come back: what is available and what is held  *)
(* add up.  A fork is on the table or in one hand.  The detector takes the *)
(* mutex with it when it leaves, which it does on a look that found the    *)
(* system safe (periodic_check.c:39-47).                                   *)
Conserved ==
  /\ program = "async_res_request" =>
       /\ mem.available >= 0
       /\ mem.available + SumFunctionOnSet(Requests, Holding) = NUM_RESOURCES
  /\ program = "dinPhil" =>
       \A f \in Philosophers : mem.sem[f] + Cardinality(Users(f)) = 1
  /\ program = "periodic_check" =>
       /\ pc["detector"] = "done" => mem.lock = "detector" /\ mem.safe
       /\ pc["main"] = "destroyed" => mem.lock # Free

(* All requests are served.  Some philosopher eats, unless each has its    *)
(* left fork and waits for the right one.  Main of periodic_check returns, *)
(* or joins a detector that has missed its only chance to leave: a safe    *)
(* look before main has finished.                                          *)
AtRest ==
  CASE program = "async_res_request" -> \A p \in Processes : pc[p] = "done"
    [] program = "dinPhil" -> \/ \E phil \in Philosophers : pc[phil] = "eat"
                              \/ \A phil \in Philosophers : pc[phil] = "right"
    [] program = "periodic_check" -> \/ pc["main"] \in {"failed", "destroyed"}
                                     \/ pc["main"] = "join" /\ pc["detector"] = "lock"
=============================================================================
