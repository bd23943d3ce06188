------------------------------ MODULE SeqLock ------------------------------
(***************************************************************************)
(* The sequence lock of lab_3/exercises/prob_1 (seqlock.c) and the threads *)
(* of its test.c: writers that exclude each other by a mutex and make the  *)
(* sequence odd while they write a pair of values, readers that copy the   *)
(* pair between two looks at the sequence and try again when it was odd or *)
(* has changed, and callers of rdlock and rdunlock, which only look once.  *)
(*                                                                         *)
(* A write stores its number, counted over all writers, in both values.    *)
(* One step is one access to a shared variable, in program order: an       *)
(* unoptimised build, where every access in the source is performed.       *)
(***************************************************************************)
EXTENDS Integers

CONSTANTS Readers,          \* the reader_threads of test.c
          Callers,          \* threads that read between rdlock and rdunlock
          Writers,          \* the writer_threads of test.c
          NUM_OPERATIONS,   \* test.c:9, per thread
          Modulus,          \* the number of values of an unsigned int
          Nobody            \* the holder of the free mutex

ASSUME SeqLockAssumption ==
  /\ Nobody \notin Writers
  /\ Readers \cap Callers = {} /\ Readers \cap Writers = {} /\ Callers \cap Writers = {}
  /\ NUM_OPERATIONS \in Nat \ {0}
  /\ Modulus \in Nat \ {0} /\ Modulus % 2 = 0

Thread == Readers \cup Callers \cup Writers

VARIABLES
  sequence, mutex,      \* pthread_seqlock_t
  value1, value2,       \* the shared data
  writes,               \* how many writes have begun to store
  pc,
  ops,                  \* per thread: operations finished
  seq,                  \* per reader: the sequence it looked at first
  copy                  \* per reader: its local_copy

lockVars == <<sequence, mutex>>
dataVars == <<value1, value2, writes>>
localVars == <<seq, copy>>
vars == <<lockVars, dataVars, pc, ops, localVars>>

Odd(s) == s % 2 = 1
(* Mutant: the counter does not wrap around. *)
IncNoWrap(s) == s + 1

Inc(s) == (s + 1) % Modulus

NoCopy == [value1 |-> 0, value2 |-> 0]

Init == /\ sequence = 1 /\ mutex = Nobody
        /\ value1 = 0 /\ value2 = 0 /\ writes = 0
        /\ pc = [t \in Thread |-> "idle"] /\ ops = [t \in Thread |-> 0]
        /\ seq = [r \in Readers |-> 0]
        /\ copy = [r \in Readers |-> NoCopy]

Goto(t, l) == pc' = [pc EXCEPT ![t] = l]
Finish(t) == ops' = [ops EXCEPT ![t] = @ + 1]

-----------------------------------------------------------------------------
(* wrlock, the write and wrunlock *)

WrLock(w) == /\ pc[w] = "idle" /\ ops[w] < NUM_OPERATIONS
             /\ mutex = Nobody
             /\ mutex' = w
             /\ Goto(w, "begin")
             /\ UNCHANGED <<sequence, dataVars, ops, localVars>>

(* Mutant: the sequence is not checked again. *)
BeginUnchecked(w) == /\ pc[w] = "begin"
                     /\ sequence' = Inc(sequence)
                     /\ Goto(w, "store1")
                     /\ UNCHANGED <<mutex, dataVars, ops, localVars>>

(* sequence++, and once more when that has made it even. *)
Begin(w) == /\ pc[w] = "begin"
            /\ sequence' = Inc(sequence)
            /\ Goto(w, IF Odd(Inc(sequence)) THEN "store1" ELSE "begin")
            /\ UNCHANGED <<mutex, dataVars, ops, localVars>>

Store1(w) == /\ pc[w] = "store1"
             /\ writes' = writes + 1
             /\ value1' = writes + 1
             /\ Goto(w, "store2")
             /\ UNCHANGED <<lockVars, value2, ops, localVars>>

Store2(w) == /\ pc[w] = "store2"
             /\ value2' = writes
             /\ Goto(w, "end")
             /\ UNCHANGED <<lockVars, value1, writes, ops, localVars>>

(* Mutant: the sequence stays odd. *)
EndForgotten(w) == /\ pc[w] = "end"
                   /\ Goto(w, "unlock")
                   /\ UNCHANGED <<lockVars, dataVars, ops, localVars>>

End(w) == /\ pc[w] = "end"
          /\ sequence' = IF Odd(sequence) THEN Inc(sequence) ELSE sequence
          /\ Goto(w, "unlock")
          /\ UNCHANGED <<mutex, dataVars, ops, localVars>>

WrUnlock(w) == /\ pc[w] = "unlock"
               /\ mutex' = Nobody
               /\ Goto(w, "idle") /\ Finish(w)
               /\ UNCHANGED <<sequence, dataVars, localVars>>

WriterStep(w) == WrLock(w) \/ Begin(w) \/ Store1(w) \/ Store2(w) \/ End(w) \/ WrUnlock(w)

-----------------------------------------------------------------------------
(* reader_thread *)

(* An odd sequence: sched_yield, and look again. *)
Look(r) == /\ pc[r] = "idle" /\ ops[r] < NUM_OPERATIONS
           /\ seq' = [seq EXCEPT ![r] = sequence]
           /\ Goto(r, IF Odd(sequence) THEN "idle" ELSE "copy1")
           /\ UNCHANGED <<lockVars, dataVars, ops, copy>>

(* local_copy = shared *)
Copy1(r) == /\ pc[r] = "copy1"
            /\ copy' = [copy EXCEPT ![r] = [value1 |-> value1, value2 |-> @.value2]]
            /\ Goto(r, "copy2")
            /\ UNCHANGED <<lockVars, dataVars, ops, seq>>

Copy2(r) == /\ pc[r] = "copy2"
            /\ copy' = [copy EXCEPT ![r] = [value1 |-> @.value1, value2 |-> value2]]
            /\ Goto(r, "check")
            /\ UNCHANGED <<lockVars, dataVars, ops, seq>>

(* Mutant: the sequence is checked for a writer, not for a change. *)
CheckOddOnly(r) == /\ pc[r] = "check"
                   /\ Goto(r, IF ~Odd(sequence) THEN "accept" ELSE "idle")
                   /\ UNCHANGED <<lockVars, dataVars, ops, localVars>>

Check(r) == /\ pc[r] = "check"
            /\ Goto(r, IF seq[r] = sequence THEN "accept" ELSE "idle")
            /\ UNCHANGED <<lockVars, dataVars, ops, localVars>>

(* The pair is printed; the locals are dead until the next look. *)
Accept(r) == /\ pc[r] = "accept"
             /\ Goto(r, "idle") /\ Finish(r)
             /\ seq' = [seq EXCEPT ![r] = 0] /\ copy' = [copy EXCEPT ![r] = NoCopy]
             /\ UNCHANGED <<lockVars, dataVars>>

ReaderStep(r) == Look(r) \/ Copy1(r) \/ Copy2(r) \/ Check(r) \/ Accept(r)

-----------------------------------------------------------------------------
(* rdlock and rdunlock *)

(* "continue" in do { } while (0) leaves the loop, odd or even. *)
RdLock(c) == /\ pc[c] = "idle" /\ ops[c] < NUM_OPERATIONS
             /\ Goto(c, "reading")
             /\ UNCHANGED <<lockVars, dataVars, ops, localVars>>

(* rdunlock does nothing. *)
RdUnlock(c) == /\ pc[c] = "reading"
               /\ Goto(c, "idle") /\ Finish(c)
               /\ UNCHANGED <<lockVars, dataVars, localVars>>

CallerStep(c) == RdLock(c) \/ RdUnlock(c)

-----------------------------------------------------------------------------
(* The system *)

(* main joins every thread. *)
Joined == /\ \A t \in Thread : pc[t] = "idle" /\ ops[t] = NUM_OPERATIONS
          /\ UNCHANGED vars

Next == \/ \E w \in Writers : WriterStep(w)
        \/ \E r \in Readers : ReaderStep(r)
        \/ \E c \in Callers : CallerStep(c)
        \/ Joined

(* Every thread runs; the mutex goes round among finitely many operations. *)
Fairness == /\ \A w \in Writers : WF_vars(WriterStep(w))
            /\ \A r \in Readers : WF_vars(ReaderStep(r))
            /\ \A c \in Callers : WF_vars(CallerStep(c))

Spec == Init /\ [][Next]_vars /\ Fairness

-----------------------------------------------------------------------------
(* Properties *)

WriterPc == {"idle", "begin", "store1", "store2", "end", "unlock"}
LookerPc == {"idle", "copy1", "copy2", "check", "accept", "reading"}

(* The type invariant. *)
TypeOK == /\ sequence \in 0 .. (Modulus - 1) /\ mutex \in Writers \cup {Nobody}
          /\ value1 \in Nat /\ value2 \in Nat /\ writes \in Nat
          /\ pc \in [Thread -> WriterPc \cup LookerPc]
          /\ ops \in [Thread -> 0 .. NUM_OPERATIONS]
          /\ seq \in [Readers -> 0 .. (Modulus - 1)]
          /\ copy \in [Readers -> [value1 : Nat, value2 : Nat]]

(* While a writer stores, the sequence is odd and no other writer is inside *)
(* (test.c:79 "should be odd"), whatever parity it was initialised to.      *)
OddWhileWriting ==
  \A w \in Writers : pc[w] \in {"store1", "store2", "end"} =>
    Odd(sequence) /\ \A v \in Writers \ {w} : pc[v] = "idle"

(* What a reader accepts is one write's pair, never half of one and half of *)
(* another, as long as it is not overtaken by half the counter's range.     *)
NoTornRead ==
  \A r \in Readers : pc[r] = "accept" => copy[r].value1 = copy[r].value2

(* Every thread finishes its operations: a reader that has to retry gets    *)
(* through when the writers are done, and one that starts while the         *)
(* sequence is still the odd initial one does because a writer comes        *)
(* (seqlock.c:16 initialises it to 1).                                      *)
AllThreadsJoin == <>(\A t \in Thread : pc[t] = "idle" /\ ops[t] = NUM_OPERATIONS)

(* "If sequence is odd, a writer has the lock - we must wait"               *)
(* (seqlock.c:37): rdlock does not return in the middle of a write.         *)
RdLockWaits ==
  [][\A c \in Callers : RdLock(c) =>
       \A w \in Writers : pc[w] \notin {"store1", "store2", "end"}]_vars
=============================================================================
