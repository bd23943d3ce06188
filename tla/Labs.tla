-------------------------------- MODULE Labs --------------------------------
(***************************************************************************)
(* The small programs of the labs side by side: a behaviour is one run of  *)
(* one of them.                                                            *)
(***************************************************************************)
EXTENDS Runtime

CONSTANTS SLOTS, ITEMS, MAX_COUNT, RatingFiles, Inputs, QUEUE_MAX,
          NUM_RESOURCES, Requests, N, Nodes, PUSHES, WRITES, Numbers, ANS, MAX_LINES

ASSUME BuffersAssumption == SLOTS \in Nat \ {0} /\ ITEMS \in Nat
ASSUME CountersAssumption == /\ MAX_COUNT \in Nat \ {0}
                             /\ RatingFiles \subseteq Seq([movie : Int, rating : Nat \ {0}])
ASSUME ResourcesAssumption == NUM_RESOURCES \in Nat /\ Requests \in Seq(Nat) /\ N \in Nat \ {0}

B == INSTANCE Buffers
C == INSTANCE Counters
M == INSTANCE Messages
R == INSTANCE Resources
L == INSTANCE LockFree
S == INSTANCE Sharing
K == INSTANCE Calculator

ASSUME MessagesAssumption == Inputs \subseteq Seq(STRING)

ASSUME LockFreeAssumption == IsFiniteSet(Nodes) /\ 0 \notin Nodes   \* NULL is no node

(* Free is not a thread of any program. *)
ASSUME RuntimeAssumption ==
  Free \notin B!Threads \cup C!Threads \cup {"detector", "writer"} \cup Int

Init == B!Init \/ C!Init \/ M!Init \/ R!Init \/ L!Init \/ S!Init \/ K!Init

Next == B!Next \/ C!Next \/ M!Next \/ R!Next \/ L!Next \/ S!Next \/ K!Next \/ SpuriousWakeup

Fairness == /\ B!Fairness /\ C!Fairness /\ M!Fairness /\ R!Fairness
            /\ L!Fairness /\ S!Fairness /\ K!Fairness

Spec == Init /\ [][Next]_vars /\ Fairness

-----------------------------------------------------------------------------
(* Properties *)

(* What one side hands to the other arrives once and in its order: items   *)
(* through a buffer (pc.c:24-37, wait_noti.c:15-49, logbuf.c:25-49), lines *)
(* through a queue (two_way_msg.c:23-43, msgsnd.c:40-50), text through     *)
(* shared memory (mmap_sharing.c:20-70), the last result through a file    *)
(* (calculator.c:43-59).                                                   *)
NothingLost == B!NothingLost /\ M!InOrder /\ S!TextShown /\ K!AnsIsLastResult

(* What is taken is given back: slots and units (pc.c:42-65,               *)
(* async_res_request.c:14-47), forks (dinPhil.c:18-35), the segment        *)
(* (writer.c:40), nodes (lock_free.c:15-45); the detector leaves with its  *)
(* mutex (periodic_check.c:39-47).                                         *)
ResourcesKept == B!SlotsKept /\ R!Conserved /\ S!SegmentRemoved /\ L!StructuresIntact

(* How much two adders may lose: nothing with a mutex (shrdmem.c:12-18,    *)
(* shared_buffer.c:12-19); without one never everything                    *)
(* (hello_thread.c:8-15, movie_ratings.c:24-36).                           *)
UpdatesBounded == C!UpdatesBounded

(* Every program always comes back to its state of rest: it returns, or it *)
(* waits in one of the ways that AtRest of its family lists.               *)
ComesToRest == []<>(CASE program \in B!Programs -> B!AtRest
                      [] program \in C!Programs -> C!AtRest
                      [] program \in M!Programs -> M!AtRest
                      [] program \in R!Programs -> R!AtRest
                      [] program \in L!Programs -> L!AtRest
                      [] program \in S!Programs -> S!AtRest
                      [] program \in K!Programs -> K!AtRest)
=============================================================================
