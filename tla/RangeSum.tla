------------------------------ MODULE RangeSum ------------------------------
(***************************************************************************)
(* The parallel sums: aggregated_sum (lab_3/exercises/prob_2), aggsum      *)
(* (lab_3/labSync-student/ex2aggsum) and sum_multi_thread (lab_2/problem_2)*)
(* split a range of elements among threads, one sub-range each.  In the    *)
(* first two every thread adds its sum to a shared total under a mutex; in *)
(* the third it leaves it in a cell of its own, and main adds the cells.   *)
(* aggregated_sum sums once more and compares; aggsum forks a child that   *)
(* sums while the threads do.                                              *)
(***************************************************************************)
EXTENDS Integers, Sequences, Functions

CONSTANTS ArgLists,     \* the command lines: sequences of integers and NaN
          NaN,          \* an argument that is not a number
          Data,         \* the generated array: Data[k] is its element k
          IntMax,       \* the largest int
          THRSL_MIN,    \* utils.h:10
          Leftovers     \* what an uninitialised cell of main's stack may hold

ASSUME RangeSumAssumption ==
  /\ NaN \notin Int
  /\ ArgLists \subseteq Seq(Int \cup {NaN})
  /\ IntMax \in Nat
  /\ Data \in [0 .. (IntMax - 1) -> Int]
  /\ THRSL_MIN \in Nat \ {0}
  /\ Leftovers \subseteq Int

Programs == {"aggregated_sum", "aggsum", "sum_multi_thread"}

VARIABLES
  program, args,        \* what runs, and its command line
  arrsz, tnum,          \* the numbers of elements and of threads
  main,                 \* main's program counter; ends as an Outcome
  range,                \* the sub-ranges split off so far
  pc, partial,          \* per pthread_create: the thread's program counter, its sum
  mutex, total, seen,   \* the total, and what its adder has read
  child, validsum       \* aggsum's child: "none", "running", "exited"; its sum

threadVars == <<pc, partial, mutex, total, seen>>
childVars == <<child, validsum>>
vars == <<program, args, arrsz, tnum, main, range, threadVars, childVars>>

Init == /\ program \in Programs /\ args \in ArgLists
        /\ arrsz = 0 /\ tnum = 0
        /\ main = "args" /\ range = <<>>
        /\ pc = <<>> /\ partial = <<>>
        /\ mutex = 0 /\ total = 0 /\ seen = 0        \* thread numbers begin at 1
        /\ child = "none" /\ validsum = 0

-----------------------------------------------------------------------------
(* Arguments *)

(* The conversion of a long to an int: two's complement. *)
ToInt(n) == ((n + IntMax + 1) % (2 * (IntMax + 1))) - (IntMax + 1)

(* atoi: no digits are 0.  sum_multi_thread's n is a long long. *)
atoi(a) == IF a = NaN THEN 0 ELSE ToInt(a)
atoll(a) == IF a = NaN THEN 0 ELSE a

ArgCountOK == \/ program = "sum_multi_thread" /\ Len(args) >= 2
              \/ program # "sum_multi_thread" /\ Len(args) \in {2, 3}

Elements == IF program = "sum_multi_thread" THEN atoll(args[2]) ELSE atoi(args[1])
Threads == IF program = "sum_multi_thread" THEN atoi(args[1]) ELSE atoi(args[2])

(* tonum reports what is no number; here a seed that is none is fatal too. *)
TonumFails == program = "aggsum" /\ \E k \in 1 .. Len(args) : args[k] = NaN

(* sum_multi_thread reads argv[1] and argv[2] without looking at argc. *)
BadArgCount == /\ main = "args" /\ ~ArgCountOK
               /\ main' = IF program = "sum_multi_thread" THEN "fault" ELSE "usage"
               /\ UNCHANGED <<program, args, arrsz, tnum, range, threadVars, childVars>>

BadArgs == /\ main = "args" /\ ArgCountOK
           /\ Elements <= 0 \/ Threads <= 0 \/ TonumFails
           /\ main' = "error"
           /\ UNCHANGED <<program, args, arrsz, tnum, range, threadVars, childVars>>

(* aggregated_sum has no more threads than elements. *)
ReadArgs == /\ main = "args" /\ ArgCountOK
            /\ Elements > 0 /\ Threads > 0 /\ ~TonumFails
            /\ arrsz' = Elements
            /\ tnum' = IF program = "aggregated_sum" /\ Threads > Elements
                       THEN Elements ELSE Threads
            /\ main' = "allocate"
            /\ UNCHANGED <<program, args, range, threadVars, childVars>>

(* validate_and_split_argarray multiplies ints, and the product wraps. *)
TooManyThreads == program = "aggsum" /\ arrsz < ToInt(tnum * THRSL_MIN)

(* malloc may fail (sum_multi_thread does not call it). *)
Allocate == /\ main = "allocate"
            /\ \/ main' = IF TooManyThreads THEN "error" ELSE "split"
               \/ program # "sum_multi_thread" /\ main' = "error"
            /\ UNCHANGED <<program, args, arrsz, tnum, range, threadVars, childVars>>

-----------------------------------------------------------------------------
(* Main *)

First == IF program = "sum_multi_thread" THEN 1 ELSE 0
Last == First + arrsz - 1

Quotient == arrsz \div tnum
Remainder == arrsz % tnum

(* Mutant: the remainder's elements are given to nobody. *)
NextRangeNoRemainder ==
  LET start == IF range = <<>> THEN First ELSE range[Len(range)].end + 1
  IN  [start |-> start, end |-> start + Quotient - 1]

(* The sub-range of the next thread: the first threads take one element of *)
(* the remainder each, or the last thread takes it all.                    *)
NextRange ==
  LET i == Len(range)
      start == IF i = 0 THEN 0 ELSE range[i].end + 1
  IN  IF program = "sum_multi_thread"
      THEN [start |-> i * Quotient + 1,
            end |-> IF i = tnum - 1 THEN arrsz ELSE (i + 1) * Quotient]
      ELSE [start |-> start,
            end |-> start + Quotient - 1 + (IF i < Remainder THEN 1 ELSE 0)]

(* What a sum is before its thread has stored it: sum_multi_thread's cells *)
(* are uninitialised.                                                      *)
Unset == IF program = "sum_multi_thread" THEN Leftovers ELSE {0}

(* pthread_create may fail; nobody looks at its result.  The thread is     *)
(* then missing, and its id and its cell are what they were.               *)
CreateThread ==
  /\ \/ pc' = Append(pc, "sum") /\ partial' = Append(partial, 0)
     \/ pc' = Append(pc, "missing") /\ \E s \in Unset : partial' = Append(partial, s)
  /\ UNCHANGED <<mutex, total, seen>>

(* One turn of the splitting loop; all but aggsum create the thread in it. *)
Split == /\ main = "split" /\ Len(range) < tnum
         /\ range' = Append(range, NextRange)
         /\ IF program = "aggsum" THEN UNCHANGED threadVars ELSE CreateThread
         /\ UNCHANGED <<program, args, arrsz, tnum, main, childVars>>

SplitDone == /\ main = "split" /\ Len(range) = tnum
             /\ main' = IF program = "aggsum" THEN "fork" ELSE "join"
             /\ UNCHANGED <<program, args, arrsz, tnum, range, threadVars, childVars>>

(* fork may fail, and so may malloc before it; that of the thread ids is   *)
(* not looked at, and &tid[0] is then a null pointer.                      *)
Fork == /\ main = "fork"
        /\ \/ main' = "error" /\ child' = child
           \/ main' \in {"create", "fault"} /\ child' = "running"
        /\ UNCHANGED <<program, args, arrsz, tnum, range, threadVars, validsum>>

Create == /\ main = "create" /\ Len(pc) < tnum
          /\ CreateThread
          /\ UNCHANGED <<program, args, arrsz, tnum, main, range, childVars>>

Missing == {w \in DOMAIN pc : pc[w] = "missing"}

(* Mutant: main does not wait for the last thread. *)
AllButOneDone == \A w \in 1 .. Len(pc) - 1 : pc[w] \in {"done", "missing"}

AllDone == \A w \in DOMAIN pc : pc[w] \in {"done", "missing"}

(* The joins, in any state in which the last of them returns. *)
Join == /\ main \in {"create", "join"} /\ Len(pc) = tnum /\ AllDone
        /\ main' = "joined"
        /\ UNCHANGED <<program, args, arrsz, tnum, range, threadVars, childVars>>

(* The join of an id that was never set is undefined: it returns, as Join  *)
(* has it, it waits for ever, and then main takes no step any more, or it  *)
(* kills the process.                                                      *)
JoinFaults == /\ main \in {"create", "join"} /\ Len(pc) = tnum /\ Missing # {}
              /\ main' = "fault"
              /\ UNCHANGED <<program, args, arrsz, tnum, range, threadVars, childVars>>

(* What is added: the array's elements, or the numbers themselves. *)
Element == IF program = "sum_multi_thread" THEN [k \in 1 .. arrsz |-> k] ELSE Data
SumFromTo(a, b) == SumFunctionOnSet(Element, a .. b)

(* The second sum of aggregated_sum, aggsum's child and sum_serial. *)
verify_sum == SumFromTo(First, Last)

Combined == SumFunctionOnSet(partial, 1 .. tnum)

(* sum_multi_thread adds the cells; aggregated_sum compares; aggsum waits  *)
(* for its child.                                                          *)
Report == /\ main = "joined"
          /\ program = "aggsum" => child = "exited"
          /\ IF program = "sum_multi_thread"
             THEN total' = Combined
             ELSE total' = total
          /\ main' = IF program = "aggregated_sum"
                     THEN IF total = verify_sum THEN "match" ELSE "mismatch"
                     ELSE "printed"
          /\ UNCHANGED <<program, args, arrsz, tnum, range, pc, partial, mutex, seen, childVars>>

MainStep == \/ BadArgCount \/ BadArgs \/ ReadArgs \/ Allocate
            \/ Split \/ SplitDone \/ Fork \/ Create \/ Join \/ JoinFaults \/ Report

-----------------------------------------------------------------------------
(* Threads and the child *)

Goto(w, l) == pc' = [pc EXCEPT ![w] = l]

(* sum_worker and sum_range: the loop over the thread's own sub-range. *)
SumRange(w) == /\ pc[w] = "sum"
               /\ partial' = [partial EXCEPT ![w] = SumFromTo(range[w].start, range[w].end)]
               /\ Goto(w, IF program = "sum_multi_thread" THEN "done" ELSE "lock")
               /\ UNCHANGED <<program, args, arrsz, tnum, main, range, mutex, total, seen, childVars>>

(* pthread_mutex_lock, and the read of the total. *)
LockTotal(w) == /\ pc[w] = "lock" /\ mutex = 0
                /\ mutex' = w /\ seen' = total
                /\ Goto(w, "add")
                /\ UNCHANGED <<program, args, arrsz, tnum, main, range, partial, total, childVars>>

AddAndUnlock(w) == /\ pc[w] = "add"
                   /\ total' = seen + partial[w]
                   /\ mutex' = 0 /\ seen' = 0
                   /\ Goto(w, "done")
                   /\ UNCHANGED <<program, args, arrsz, tnum, main, range, partial, childVars>>

ThreadStep(w) == SumRange(w) \/ LockTotal(w) \/ AddAndUnlock(w)

(* validate_sum, on the child's copy of the array. *)
ValidateSum == /\ child = "running"
               /\ child' = "exited" /\ validsum' = verify_sum
               /\ UNCHANGED <<program, args, arrsz, tnum, main, range, threadVars>>

-----------------------------------------------------------------------------
Outcome == {"usage", "error", "fault", "match", "mismatch", "printed"}

Next == \/ MainStep
        \/ main # "fault" /\ \E w \in DOMAIN pc : ThreadStep(w)
        \/ ValidateSum

Spec == Init /\ [][Next]_vars

-----------------------------------------------------------------------------
(* Properties *)

RangesTile ==
  /\ \A j \in DOMAIN range :
       /\ range[j].start = IF j = 1 THEN First ELSE range[j - 1].end + 1
       /\ range[j].start <= range[j].end + 1
  /\ main \in {"fork", "create", "join", "joined"} =>
       Len(range) = tnum /\ range[tnum].end = Last

PartitionsBigEnough ==
  program = "aggsum" /\ tnum * THRSL_MIN <= IntMax =>
    \A j \in DOMAIN range : range[j].start + THRSL_MIN <= range[j].end + 1

(* The sub-ranges follow each other without a gap or an overlap, and when  *)
(* the splitting is done they reach from the first to the last element     *)
(* (the loops in aggregated_sum.c:109, utils.c:76, sum_multi_thread.c:41), *)
(* also with fewer elements than threads.  "Each partition need at least   *)
(* %d item" (ex2aggsum/main.c:98) holds unless the product in the check    *)
(* (utils.c:68) has overflowed.                                            *)
SplitExact == RangesTile /\ PartitionsBigEnough

(* What the threads that were created have summed, and the cells that      *)
(* sum_multi_thread adds for the others.                                   *)
Covered == UNION {range[w].start .. range[w].end : w \in DOMAIN pc \ Missing}
Leftover == IF program = "sum_multi_thread" THEN SumFunctionOnSet(partial, Missing) ELSE 0

(* Every total that is printed is the sum of the elements of the threads   *)
(* that were created, each counted once, in every order in which they add, *)
(* and of what the cells of the others held.  If none is missing it is the *)
(* sum of all elements: the verification of aggregated_sum.c:139 does not  *)
(* fail, and the total is what aggsum's child has found.                   *)
TotalsAgree ==
  main \in {"match", "mismatch", "printed"} =>
    /\ total = SumFunctionOnSet(Element, Covered) + Leftover
    /\ Missing = {} => main # "mismatch" /\ total = verify_sum
    /\ program = "aggsum" => validsum = verify_sum

(* "Sum of numbers from 1 to %lld = %lld" (sum_multi_thread.c:68): what is *)
(* printed is that sum.  A thread that could not be created makes it wrong.*)
PrintedIsTheSum == program = "sum_multi_thread" /\ main = "printed" => total = verify_sum
=============================================================================
