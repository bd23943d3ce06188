------------------------------ MODULE LockFree ------------------------------
(***************************************************************************)
(* Two small structures without a lock on their reading side.              *)
(*  - ex7lockfree/lock_free.c: a linked stack whose head is exchanged by   *)
(*    compare-and-swap.  main pushes its values and then pops until the    *)
(*    stack is empty; another client may push and pop beside it.  free     *)
(*    gives a node back, and malloc may give it out again.                 *)
(*  - ex1seqlock/seqlock.h: a sequence lock whose rdlock waits for an even *)
(*    sequence and whose rdunlock returns the sequence for a comparison; a *)
(*    writer writes a pair of values and a reader copies it.               *)
(***************************************************************************)
EXTENDS Runtime

CONSTANTS Nodes,        \* the addresses malloc may return
          PUSHES,       \* lock_free.c:53, per client
          WRITES        \* the writer's critical sections

Programs == {"lock_free", "ex1seqlock"}

NULL == 0
Clients == {"main", "other"}
Threads == Clients \cup {"writer", "reader"}

Init ==
  \/ \E clients \in {{"main"}, Clients} :
       Start("lock_free", [c \in clients |-> "push"],
             [head |-> NULL, next |-> [n \in Nodes |-> NULL], used |-> {},
              node |-> [c \in clients |-> NULL], old |-> [c \in clients |-> NULL],
              after |-> [c \in clients |-> NULL], pushed |-> [c \in clients |-> 0],
              stale |-> {}, in |-> {}, undefined |-> FALSE])
  \/ Start("ex1seqlock", [t \in {"writer", "reader"} |-> "lock"],
           [lock |-> Free, sequence |-> 0, value |-> <<0, 0>>, writes |-> 0,
            seq |-> 0, copy |-> <<0, 0>>])

-----------------------------------------------------------------------------
(* push and pop.  `in' holds the nodes that should be on the stack, and    *)
(* `stale' the clients whose old head was freed since they loaded it: what *)
(* they do with it is undefined.                                           *)

Malloc(c) ==
  /\ mem.pushed[c] < PUSHES
  /\ \E n \in Nodes \ mem.used :
       Move(c, "push", "load", [mem EXCEPT !.used = @ \cup {n}, !.node[c] = n])

(* malloc returns NULL, which push does not look at (lock_free.c:16-17):   *)
(* the process dies, with all its clients.                                 *)
MallocFails(c) == /\ pc[c] = "push" /\ mem.pushed[c] < PUSHES
                  /\ pc' = [d \in DOMAIN pc |-> "crashed"]
                  /\ UNCHANGED <<program, mem>>

Load(c) == Move(c, "load", "cas", [mem EXCEPT !.old[c] = mem.head, !.stale = @ \ {c},
                                              !.next[mem.node[c]] = mem.head])

(* Mutant: the exchange does not look whether the head has moved. *)
SwapAlways(c) == Move(c, "cas", "push", [mem EXCEPT !.head = mem.node[c], !.in = @ \cup {mem.node[c]},
                                                    !.pushed[c] = @ + 1])

(* The push needs no more than that the head is the node it has linked to. *)
Swap(c) ==
  IF mem.head = mem.old[c]
  THEN Move(c, "cas", "push", [mem EXCEPT !.head = mem.node[c], !.in = @ \cup {mem.node[c]},
                                          !.pushed[c] = @ + 1])
  ELSE Goto(c, "cas", "load")

(* main pops when it has pushed everything, the other client at any time;  *)
(* a pop that failed is retried.                                           *)
PopLoad(c) ==
  /\ c = "main" => mem.pushed[c] = PUSHES
  /\ \E l \in {"push", "pop"} :
       Move(c, l, IF mem.head # NULL THEN "next"
                  ELSE IF mem.pushed[c] < PUSHES THEN "push" ELSE "done",
            [mem EXCEPT !.old[c] = mem.head, !.stale = @ \ {c}])

(* old_head->next, of a node that may have been freed. *)
PopNext(c) == Move(c, "next", "popcas",
                   [mem EXCEPT !.after[c] = mem.next[mem.old[c]], !.undefined = c \in mem.stale])

PopSwap(c) ==
  IF mem.head = mem.old[c]
  THEN Move(c, "popcas", "free", [mem EXCEPT !.head = mem.after[c], !.in = @ \ {mem.old[c]},
                                             !.undefined = c \in mem.stale])
  ELSE Goto(c, "popcas", "pop")

FreeNode(c) == Move(c, "free", IF mem.pushed[c] < PUSHES THEN "push" ELSE "pop",
                    [mem EXCEPT !.used = @ \ {mem.old[c]},
                                !.stale = @ \cup {d \in DOMAIN pc : d # c /\ mem.old[d] = mem.old[c]}])

ClientStep(c) == /\ ~mem.undefined
                 /\ \/ Malloc(c) \/ MallocFails(c) \/ Load(c) \/ Swap(c)
                    \/ PopLoad(c) \/ PopNext(c) \/ PopSwap(c) \/ FreeNode(c)

-----------------------------------------------------------------------------
(* seqlock.h *)

WriterStep(w) ==
  \/ mem.writes < WRITES /\ Lock(w, "lock", "begin")
  \/ Move(w, "begin", "store1", [mem EXCEPT !.sequence = @ + 1, !.writes = @ + 1])
  \/ Move(w, "store1", "store2", [mem EXCEPT !.value[1] = mem.writes])
  \/ Move(w, "store2", "end", [mem EXCEPT !.value[2] = mem.writes])
  \/ Move(w, "end", "unlock", [mem EXCEPT !.sequence = @ + 1])
  \/ Unlock(w, "unlock", "lock")
  \/ mem.writes = WRITES /\ Goto(w, "lock", "done")

(* rdlock yields while the sequence is odd. *)
ReaderStep(r) ==
  \/ mem.sequence % 2 = 0 /\ Move(r, "lock", "copy1", [mem EXCEPT !.seq = mem.sequence])
  \/ Move(r, "copy1", "copy2", [mem EXCEPT !.copy[1] = mem.value[1]])
  \/ Move(r, "copy2", "unlock", [mem EXCEPT !.copy[2] = mem.value[2]])
  \/ Goto(r, "unlock", IF mem.sequence = mem.seq THEN "same" ELSE "changed")

Step(t) == \/ program = "lock_free" /\ t \in DOMAIN pc /\ ClientStep(t)
           \/ program = "ex1seqlock" /\ t = "writer" /\ WriterStep(t)
           \/ program = "ex1seqlock" /\ t = "reader" /\ ReaderStep(t)

Next == \E t \in Threads : Step(t)

Fairness == \A t \in Threads : WF_vars(Step(t))

-----------------------------------------------------------------------------
(* Properties *)

Chain[k \in 0 .. Cardinality(Nodes)] ==
  IF k = 0 THEN {mem.head} \ {NULL}
  ELSE Chain[k - 1] \cup ({mem.next[n] : n \in Chain[k - 1]} \ {NULL})

(* The stack is exactly the nodes pushed and not popped, none of them      *)
(* freed, unless a client has used a node that was freed in its hands      *)
(* (lock_free.c:40 reads old_head->next, and compares addresses only).     *)
(* That never happens to a client that is alone, as main is.  A reader     *)
(* whose rdunlock returns what rdlock did has copied one write's pair.     *)
StructuresIntact ==
  /\ program = "lock_free" =>
       /\ ~mem.undefined => Chain[Cardinality(Nodes)] = mem.in /\ mem.in \subseteq mem.used
       /\ mem.undefined => DOMAIN pc = Clients
  /\ program = "ex1seqlock" => (pc["reader"] = "same" => mem.copy[1] = mem.copy[2])

AtRest ==
  CASE program = "lock_free" -> \/ mem.undefined \/ \A c \in DOMAIN pc : pc[c] = "crashed"
                                \/ (\A c \in DOMAIN pc : pc[c] = "done") /\ mem.used = {}
    [] program = "ex1seqlock" -> pc["writer"] = "done" /\ pc["reader"] \in {"same", "changed"}
=============================================================================
