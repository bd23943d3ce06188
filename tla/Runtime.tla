------------------------------ MODULE Runtime ------------------------------
(***************************************************************************)
(* What the small programs of the labs stand on: threads or processes with *)
(* a program counter each, the memory they share, and the mutexes,         *)
(* condition variables and semaphores of the pthread library.              *)
(*                                                                         *)
(* `mem' is a record of the running program's variables.  Where it has     *)
(* them, the field `lock' is the holder of its mutex or Free, `waiting'    *)
(* maps each condition to the threads inside pthread_cond_wait, and `sem'  *)
(* maps each semaphore to its value; `spurious' counts spurious wakeups.   *)
(***************************************************************************)
EXTENDS Integers, Sequences, FiniteSets

CONSTANTS Free,           \* the holder of a mutex nobody holds
          MaxSpurious     \* how many spurious wakeups there may be

VARIABLES program, pc, mem

vars == <<program, pc, mem>>

(* A program starts: where its threads begin, and its initial memory. *)
Start(name, labels, memory) == program = name /\ pc = labels /\ mem = memory

(* Thread t goes from one label to another and leaves the memory as m. *)
Move(t, from, to, m) == /\ pc[t] = from
                        /\ pc' = [pc EXCEPT ![t] = to]
                        /\ mem' = m
                        /\ UNCHANGED program

Goto(t, from, to) == Move(t, from, to, mem)

Asleep(t) == \E c \in DOMAIN mem.waiting : t \in mem.waiting[c]

Lock(t, from, to) == mem.lock = Free /\ Move(t, from, to, [mem EXCEPT !.lock = t])

Unlock(t, from, to) == Move(t, from, to, [mem EXCEPT !.lock = Free])

(* pthread_cond_wait, from the unlock to the attempt to lock again: asleep *)
(* at label `back', which Relock leaves.                                   *)
Wait(t, c, from, back) ==
  Move(t, from, back, [mem EXCEPT !.lock = Free, !.waiting[c] = @ \cup {t}])

Relock(t, from, to) == ~Asleep(t) /\ Lock(t, from, to)

(* A signal wakes one waiting thread, if there is one. *)
Signal(t, c, from, to) ==
  \/ mem.waiting[c] = {} /\ Goto(t, from, to)
  \/ \E u \in mem.waiting[c] : Move(t, from, to, [mem EXCEPT !.waiting[c] = @ \ {u}])

Broadcast(t, c, from, to) == Move(t, from, to, [mem EXCEPT !.waiting[c] = {}])

SemWait(t, s, from, to) ==
  mem.sem[s] > 0 /\ Move(t, from, to, [mem EXCEPT !.sem[s] = @ - 1])

SemPost(t, s, from, to) == Move(t, from, to, [mem EXCEPT !.sem[s] = @ + 1])

(* A thread returns from pthread_cond_wait without a signal. *)
SpuriousWakeup ==
  /\ "waiting" \in DOMAIN mem /\ mem.spurious < MaxSpurious
  /\ \E c \in DOMAIN mem.waiting : \E t \in mem.waiting[c] :
       mem' = [mem EXCEPT !.waiting[c] = @ \ {t}, !.spurious = @ + 1]
  /\ UNCHANGED <<program, pc>>

(* pthread_join, or waitpid, of all the threads in T. *)
Join(t, T, from, to) == (\A u \in T : pc[u] = "done") /\ Goto(t, from, to)
=============================================================================
