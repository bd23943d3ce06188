------------------------------ MODULE Buffers ------------------------------
(***************************************************************************)
(* Three bounded buffers between a producer and a consumer.                *)
(*  - p2pc/pc.c and practices/bounded_buffer.c: a ring guarded by two      *)
(*    semaphores and a mutex; the consumer waits for a -1 nobody sends.    *)
(*  - ex4waitnoti/wait_noti.c: an array with a count, used as a stack,     *)
(*    guarded by a mutex and two condition variables.                      *)
(*  - ex3logbuf/logbuf.c: main writes logs, a thread flushes them all at   *)
(*    once; main then destroys the mutex and the conditions and returns,   *)
(*    while that thread goes on for ever.                                  *)
(* Items are numbered; `made' counts those produced, `taken' is the        *)
(* sequence of those consumed, or the flushed ones.                        *)
(***************************************************************************)
EXTENDS Runtime

CONSTANTS SLOTS,      \* BUFSIZE, BUFFER_SIZE, MAX_BUFFER_SLOT
          ITEMS       \* how many items the producer makes

Programs == {"pc", "wait_noti", "logbuf"}

Semaphores == {"empty", "full"}
NoneWaiting == [c \in {"not_full", "not_empty"} |-> {}]

Init ==
  \/ Start("pc", [main |-> "join", producer |-> "sem", consumer |-> "sem"],
           [buffer |-> [k \in 0 .. SLOTS - 1 |-> 0], fill |-> 0, use |-> 0, tmp |-> 0,
            sem |-> [s \in Semaphores |-> IF s = "empty" THEN SLOTS ELSE 0], lock |-> Free,
            made |-> 0, taken |-> <<>>])
  \/ Start("wait_noti", [main |-> "join", producer |-> "lock", consumer |-> "lock"],
           [buffer |-> <<>>, lock |-> Free, waiting |-> NoneWaiting, spurious |-> 0,
            made |-> 0, taken |-> <<>>])
  \/ Start("logbuf", [main |-> "lock", flusher |-> "lock"],
           [buffer |-> <<>>, lock |-> Free, waiting |-> NoneWaiting, spurious |-> 0,
            made |-> 0, taken |-> <<>>])

-----------------------------------------------------------------------------
(* pc.c *)

put == [mem EXCEPT !.buffer[mem.fill] = mem.made + 1,
                   !.fill = (@ + 1) % SLOTS, !.made = @ + 1]

(* Mutant: the index wraps around one slot late. *)
getBehind == [mem EXCEPT !.taken = Append(@, mem.buffer[mem.use]), !.tmp = mem.buffer[mem.use],
                         !.buffer[mem.use] = -1, !.use = IF @ = SLOTS - 1 THEN @ ELSE @ + 1]

get == [mem EXCEPT !.taken = Append(@, mem.buffer[mem.use]), !.tmp = mem.buffer[mem.use],
                   !.buffer[mem.use] = -1, !.use = (@ + 1) % SLOTS]

PcProducer(t) ==
  /\ program = "pc" /\ t = "producer"
  /\ \/ mem.made < ITEMS /\ SemWait(t, "empty", "sem", "lock")
     \/ Lock(t, "lock", "put")
     \/ Move(t, "put", "unlock", put)
     \/ Unlock(t, "unlock", "post")
     \/ SemPost(t, "full", "post", "sem")
     \/ mem.made = ITEMS /\ Goto(t, "sem", "done")

PcConsumer(t) ==
  /\ program = "pc" /\ t = "consumer"
  /\ \/ mem.tmp # -1 /\ SemWait(t, "full", "sem", "lock")
     \/ Lock(t, "lock", "get")
     \/ Move(t, "get", "unlock", get)
     \/ Unlock(t, "unlock", "post")
     \/ SemPost(t, "empty", "post", "sem")
     \/ mem.tmp = -1 /\ Goto(t, "sem", "done")

-----------------------------------------------------------------------------
(* wait_noti.c and logbuf.c *)

Full == Len(mem.buffer) = SLOTS
Empty == mem.buffer = <<>>

store == [mem EXCEPT !.buffer = Append(@, mem.made + 1), !.made = @ + 1]

(* producer of wait_noti.c, and wrlog with the loop in main that calls it. *)
Producer(t, after) ==
  \/ mem.made < ITEMS /\ Relock(t, "lock", "test")
  \/ Full /\ Wait(t, "not_full", "test", "lock")
  \/ ~Full /\ Move(t, "test", "signal", store)
  \/ Signal(t, "not_empty", "signal", "unlock")
  \/ Unlock(t, "unlock", "lock")
  \/ mem.made = ITEMS /\ Goto(t, "lock", after)

(* The newest item is taken; flushlog takes them all. *)
Taken == IF program = "logbuf" THEN mem.buffer ELSE <<mem.buffer[Len(mem.buffer)]>>
Left == IF program = "logbuf" THEN <<>> ELSE SubSeq(mem.buffer, 1, Len(mem.buffer) - 1)

Consumer(t) ==
  \/ Relock(t, "lock", "test")
  \/ Empty /\ Wait(t, "not_empty", "test", "lock")
  \/ ~Empty /\ Move(t, "test", "signal", [mem EXCEPT !.buffer = Left, !.taken = @ \o Taken])
  \/ Signal(t, "not_full", "signal", "unlock")
  \/ Unlock(t, "unlock", IF program = "wait_noti" /\ Len(mem.taken) = ITEMS
                         THEN "done" ELSE "lock")

(* Destroying a mutex or a condition in use is undefined: glibc's          *)
(* pthread_cond_destroy waits for those that wait, and main may hang in it.*)
Destroy(t) == \/ Goto(t, "destroy", "exited")
              \/ Asleep("flusher") /\ Goto(t, "destroy", "hung")
              \/ ~Asleep("flusher") /\ Goto(t, "hung", "exited")

Step(t) ==
  \/ PcProducer(t) \/ PcConsumer(t)
  \/ program = "wait_noti" /\ t = "producer" /\ Producer(t, "done")
  \/ program = "wait_noti" /\ t = "consumer" /\ Consumer(t)
  \/ /\ program = "logbuf" /\ pc["main"] # "exited"
     /\ \/ t = "main" /\ (Producer(t, "destroy") \/ Destroy(t))
        \/ t = "flusher" /\ Consumer(t)
  \/ /\ program \in {"pc", "wait_noti"} /\ t = "main"
     /\ Join(t, {"producer", "consumer"}, "join", "exited")

Threads == {"main", "producer", "consumer", "flusher"}

Next == \E t \in Threads : Step(t)

Fairness == \A t \in Threads : WF_vars(Step(t))

-----------------------------------------------------------------------------
(* Properties *)

Items(s) == {s[k] : k \in DOMAIN s}

(* The ring's items, oldest first. *)
Ring == [k \in 1 .. mem.made - Len(mem.taken) |->
           mem.buffer[(mem.use + k - 1) % SLOTS]]

(* Every item is in the buffer or was taken, exactly once; the ring and    *)
(* the log hand them on in order.                                          *)
NothingLost ==
  LET content == IF program = "pc" THEN Ring ELSE mem.buffer
      passed == mem.taken \o content
  IN  program \in Programs =>
        /\ Len(passed) = mem.made /\ Items(passed) = 1 .. mem.made
        /\ program # "wait_noti" => \A k \in DOMAIN passed : passed[k] = k

InCriticalSection(t) == pc[t] \in {"put", "get", "test", "signal", "unlock"}
BetweenSemaphores(t) == pc[t] \in {"lock", "put", "get", "unlock", "post"}

(* Every slot is accounted for: empty, full, or in the hands of a thread   *)
(* between its two semaphores; the buffer never holds more than its slots, *)
(* and no two threads are in their critical sections.                      *)
SlotsKept ==
  program \in Programs =>
    /\ program = "pc" => mem.sem["empty"] + mem.sem["full"]
                          + Cardinality({t \in DOMAIN pc : BetweenSemaphores(t)}) = SLOTS
    /\ mem.made - Len(mem.taken) <= SLOTS
    /\ \A t, u \in DOMAIN pc : InCriticalSection(t) /\ InCriticalSection(u) => t = u

(* How the programs come to rest.  wait_noti returns.  logbuf returns, or  *)
(* hangs in the destruction of a condition its flusher waits for.  pc's    *)
(* consumer has every item and waits for another one for ever.             *)
AtRest ==
  CASE program = "wait_noti" -> pc["main"] = "exited"
    [] program = "logbuf" -> pc["main"] \in {"exited", "hung"}
    [] program = "pc" -> /\ pc = [main |-> "join", producer |-> "done", consumer |-> "sem"]
                         /\ mem.sem["full"] = 0 /\ Len(mem.taken) = ITEMS
=============================================================================
