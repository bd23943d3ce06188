--------------------------- MODULE SeqLockProofs ---------------------------
(***************************************************************************)
(* The sequence lock for every number of writers, readers and callers, and *)
(* for every width of the counter: the types, the exclusion of writers     *)
(* and, as long as the counter has not wrapped around, the readers' pairs. *)
(***************************************************************************)
EXTENDS SeqLock, TLAPS

Inside == {"begin", "store1", "store2", "end", "unlock"}
Looking == {"copy1", "copy2", "check"}

Counter == 0 .. (Modulus - 1)

(* Writers are at writers' labels, and a thread that is not idle has an    *)
(* operation left.                                                         *)
LabelInv == /\ \A w \in Writers : pc[w] \in WriterPc
            /\ \A r \in Readers : pc[r] \in {"idle", "copy1", "copy2", "check", "accept"}
            /\ \A c \in Callers : pc[c] \in {"idle", "reading"}
            /\ \A t \in Thread : pc[t] # "idle" => ops[t] < NUM_OPERATIONS

(* A writer inside holds the mutex. *)
MutexInv == \A w \in Writers : pc[w] \in Inside => mutex = w

OddInv == \A w \in Writers : pc[w] \in {"store1", "store2", "end"} => Odd(sequence)

ExclusionInv == TypeOK /\ LabelInv /\ MutexInv /\ OddInv

(* The counter has not come round to 0 yet, nor will the write in progress *)
(* bring it there.                                                         *)
NoWrap == 2 * writes + 3 < Modulus

(* How far the counter is ahead of the writes. *)
CountInv == /\ sequence <= 2 * writes + 3
            /\ (\A w \in Writers : pc[w] # "store1") => sequence <= 2 * writes + 2
            /\ \A w \in Writers : pc[w] \in {"store2", "end"} => sequence <= 2 * writes + 1

(* The two values differ only between the two stores of a write. *)
PairInv == /\ \A w \in Writers : pc[w] = "store2" => value1 = writes
           /\ (\A w \in Writers : pc[w] # "store2") => value1 = value2

(* What a reader has copied is what is there, if the counter still has the *)
(* even number the reader has seen; otherwise it has moved on.             *)
ReaderInv ==
  \A r \in Readers :
    /\ pc[r] \in Looking => ~Odd(seq[r]) /\ seq[r] <= sequence
    /\ pc[r] = "copy2" /\ seq[r] = sequence => copy[r].value1 = value1
    /\ pc[r] = "check" /\ seq[r] = sequence => copy[r].value1 = value1 /\ copy[r].value2 = value2
    /\ pc[r] = "accept" => copy[r].value1 = copy[r].value2

DataInv == CountInv /\ PairInv /\ ReaderInv

-----------------------------------------------------------------------------
(* Arithmetic *)

LEMMA IncTyped == ASSUME NEW s \in Counter PROVE Inc(s) \in Counter
BY SeqLockAssumption DEF Inc, Counter

LEMMA IncSmall == ASSUME NEW s \in Nat, s + 1 < Modulus PROVE Inc(s) = s + 1
BY SeqLockAssumption DEF Inc

LEMMA BoundMonotone ==
  ASSUME NEW u \in Nat, NEW v \in Nat, NEW m \in Nat, u <= v, 2 * v + 3 < m
  PROVE  2 * u + 3 < m
OBVIOUS

-----------------------------------------------------------------------------
(* Types and exclusion *)

LEMMA ExclusionInit == Init => ExclusionInv
<1> SUFFICES ASSUME Init PROVE ExclusionInv
  OBVIOUS
<1>1. TypeOK
  <2>1. 1 \in Counter /\ 0 \in Counter /\ 0 \in 0 .. NUM_OPERATIONS
    BY SeqLockAssumption DEF Counter
  <2> QED
    BY <2>1 DEF Init, TypeOK, WriterPc, LookerPc, NoCopy, Counter
<1>2. LabelInv /\ MutexInv /\ OddInv
  BY DEF Init, LabelInv, MutexInv, OddInv, Inside, Thread, WriterPc
<1> QED
  BY <1>1, <1>2 DEF ExclusionInv

LEMMA TypeStep == ASSUME ExclusionInv, Next PROVE TypeOK'
<1> USE DEF ExclusionInv, TypeOK, Thread, lockVars, dataVars, localVars, Goto, Finish
<1>1. ASSUME NEW w \in Writers, WriterStep(w) PROVE TypeOK'
  <2>1. CASE WrLock(w)
    BY <2>1 DEF WrLock, WriterPc
  <2>2. CASE Begin(w)
    BY <2>2, IncTyped DEF Begin, WriterPc, Counter
  <2>3. CASE Store1(w)
    BY <2>3 DEF Store1, WriterPc
  <2>4. CASE Store2(w)
    BY <2>4 DEF Store2, WriterPc
  <2>5. CASE End(w)
    BY <2>5, IncTyped DEF End, WriterPc, Counter
  <2>6. CASE WrUnlock(w)
    <3>1. ops[w] + 1 \in 0 .. NUM_OPERATIONS
      BY <2>6, SeqLockAssumption DEF WrUnlock, LabelInv
    <3> QED
      BY <2>6, <3>1 DEF WrUnlock, WriterPc
  <2> QED
    BY <1>1, <2>1, <2>2, <2>3, <2>4, <2>5, <2>6 DEF WriterStep
<1>2. ASSUME NEW r \in Readers, ReaderStep(r) PROVE TypeOK'
  <2>1. CASE Look(r)
    BY <2>1 DEF Look, LookerPc
  <2>2. CASE Copy1(r)
    BY <2>2 DEF Copy1, LookerPc
  <2>3. CASE Copy2(r)
    BY <2>3 DEF Copy2, LookerPc
  <2>4. CASE Check(r)
    BY <2>4 DEF Check, LookerPc
  <2>5. CASE Accept(r)
    <3>1. ops[r] + 1 \in 0 .. NUM_OPERATIONS /\ 0 \in 0 .. (Modulus - 1)
      BY <2>5, SeqLockAssumption DEF Accept, LabelInv
    <3> QED
      BY <2>5, <3>1 DEF Accept, LookerPc, NoCopy
  <2> QED
    BY <1>2, <2>1, <2>2, <2>3, <2>4, <2>5 DEF ReaderStep
<1>3. ASSUME NEW c \in Callers, CallerStep(c) PROVE TypeOK'
  <2>1. CASE RdLock(c)
    BY <2>1 DEF RdLock, LookerPc
  <2>2. CASE RdUnlock(c)
    <3>1. ops[c] + 1 \in 0 .. NUM_OPERATIONS
      BY <2>2, SeqLockAssumption DEF RdUnlock, LabelInv
    <3> QED
      BY <2>2, <3>1 DEF RdUnlock, LookerPc
  <2> QED
    BY <1>3, <2>1, <2>2 DEF CallerStep
<1>4. CASE Joined
  BY <1>4 DEF Joined, vars
<1> QED
  BY <1>1, <1>2, <1>3, <1>4 DEF Next

LEMMA LabelStep == ASSUME ExclusionInv, Next PROVE LabelInv'
<1> USE DEF ExclusionInv, TypeOK, Thread, Goto, Finish
<1>0. \A w \in Writers : w \notin Readers /\ w \notin Callers
  BY SeqLockAssumption
<1>1. \A r \in Readers : r \notin Callers /\ r \notin Writers
  BY SeqLockAssumption
<1>2. ASSUME NEW w \in Writers, WriterStep(w) PROVE LabelInv'
  BY <1>0, <1>2 DEF WriterStep, WrLock, Begin, Store1, Store2, End, WrUnlock, LabelInv, WriterPc
<1>3. ASSUME NEW r \in Readers, ReaderStep(r) PROVE LabelInv'
  BY <1>1, <1>3 DEF ReaderStep, Look, Copy1, Copy2, Check, Accept, LabelInv
<1>4. ASSUME NEW c \in Callers, CallerStep(c) PROVE LabelInv'
  BY <1>0, <1>1, <1>4 DEF CallerStep, RdLock, RdUnlock, LabelInv
<1>5. CASE Joined
  BY <1>5 DEF Joined, vars, LabelInv
<1> QED
  BY <1>2, <1>3, <1>4, <1>5 DEF Next

(* Readers and callers move their own labels, and nothing of the lock.     *)
LEMMA OthersStep ==
  ASSUME ExclusionInv, (\E r \in Readers : ReaderStep(r)) \/ (\E c \in Callers : CallerStep(c)) \/ Joined
  PROVE  UNCHANGED <<lockVars, dataVars>> /\ \A w \in Writers : pc'[w] = pc[w]
<1> USE DEF ExclusionInv, TypeOK, Thread, Goto
<1>0. \A w \in Writers : w \notin Readers /\ w \notin Callers
  BY SeqLockAssumption
<1>1. ASSUME NEW r \in Readers, ReaderStep(r)
      PROVE  UNCHANGED <<lockVars, dataVars>> /\ \A w \in Writers : pc'[w] = pc[w]
  BY <1>0, <1>1 DEF ReaderStep, Look, Copy1, Copy2, Check, Accept, lockVars, dataVars
<1>2. ASSUME NEW c \in Callers, CallerStep(c)
      PROVE  UNCHANGED <<lockVars, dataVars>> /\ \A w \in Writers : pc'[w] = pc[w]
  BY <1>0, <1>2 DEF CallerStep, RdLock, RdUnlock, lockVars, dataVars
<1>3. CASE Joined
  BY <1>3 DEF Joined, vars
<1> QED
  BY <1>1, <1>2, <1>3

LEMMA MutexStep == ASSUME ExclusionInv, Next PROVE MutexInv' /\ OddInv'
<1> USE DEF ExclusionInv, TypeOK, Thread, lockVars, Goto, Finish
<1>0. Nobody \notin Writers
  BY SeqLockAssumption
<1>1. ASSUME NEW w \in Writers, WriterStep(w) PROVE MutexInv' /\ OddInv'
  <2>1. CASE WrLock(w)
    BY <1>0, <2>1 DEF WrLock, MutexInv, OddInv, Inside
  <2>2. CASE Begin(w)
    BY <2>2 DEF Begin, MutexInv, OddInv, Inside
  <2>3. CASE Store1(w)
    BY <2>3 DEF Store1, MutexInv, OddInv, Inside
  <2>4. CASE Store2(w)
    BY <2>4 DEF Store2, MutexInv, OddInv, Inside
  <2>5. CASE End(w)
    BY <2>5 DEF End, MutexInv, OddInv, Inside
  <2>6. CASE WrUnlock(w)
    BY <2>6 DEF WrUnlock, MutexInv, OddInv, Inside
  <2> QED
    BY <1>1, <2>1, <2>2, <2>3, <2>4, <2>5, <2>6 DEF WriterStep
<1>2. CASE (\E r \in Readers : ReaderStep(r)) \/ (\E c \in Callers : CallerStep(c)) \/ Joined
  BY <1>2, OthersStep DEF MutexInv, OddInv
<1> QED
  BY <1>1, <1>2 DEF Next

LEMMA ExclusionNext == ASSUME ExclusionInv, [Next]_vars PROVE ExclusionInv'
<1>1. CASE Next
  BY <1>1, TypeStep, LabelStep, MutexStep DEF ExclusionInv
<1>2. CASE UNCHANGED vars
  BY <1>2 DEF vars, lockVars, dataVars, localVars, ExclusionInv, TypeOK, LabelInv, MutexInv, OddInv
<1> QED
  BY <1>1, <1>2

THEOREM ExclusionHolds == Spec => []ExclusionInv
BY ExclusionInit, ExclusionNext, PTL DEF Spec

(* Every variable keeps its type, the counter its width (seqlock.h:8).     *)
THEOREM TypeCorrect == Spec => []TypeOK
<1>1. ExclusionInv => TypeOK
  BY DEF ExclusionInv
<1> QED
  BY <1>1, ExclusionHolds, PTL

LEMMA Exclusion ==
  ASSUME ExclusionInv, NEW w \in Writers, pc[w] \in Inside, NEW v \in Writers, v # w
  PROVE  pc[v] = "idle"
BY DEF ExclusionInv, LabelInv, MutexInv, WriterPc, Inside

(* A writer stores with the sequence odd and alone, whatever the parity    *)
(* the sequence began with (seqlock.c:60-69, test.c:79).                   *)
THEOREM WritersStoreAlone == Spec => []OddWhileWriting
<1>1. ExclusionInv => OddWhileWriting
  BY Exclusion DEF ExclusionInv, OddInv, OddWhileWriting, Inside
<1> QED
  BY <1>1, ExclusionHolds, PTL

-----------------------------------------------------------------------------
(* The pairs *)

LEMMA DataInit == Init => (NoWrap => DataInv)
BY DEF Init, DataInv, CountInv, PairInv, ReaderInv, Thread, Looking

LEMMA CountStep ==
  ASSUME ExclusionInv, CountInv, NoWrap, NEW w \in Writers, WriterStep(w)
  PROVE  CountInv'
<1> USE DEF ExclusionInv, TypeOK, Thread, lockVars, dataVars, Goto
<1>0. sequence \in Nat /\ writes \in Nat /\ Modulus \in Nat
  BY SeqLockAssumption
<1>1. CASE WrLock(w)
  BY <1>1 DEF WrLock, CountInv
<1>2. CASE Begin(w)
  <2>1. \A v \in Writers : pc[v] \notin {"store1", "store2", "end"}
    BY <1>2, Exclusion DEF Begin, Inside
  <2>2. sequence <= 2 * writes + 2
    BY <2>1 DEF CountInv
  <2>3. sequence' = sequence + 1 /\ writes' = writes
    BY <1>0, <1>2, <2>2, IncSmall DEF Begin, NoWrap
  <2>4. Odd(sequence') \/ sequence' <= 2 * writes' + 2
    BY <1>0, <2>2, <2>3 DEF Odd
  <2>5. pc' = [pc EXCEPT ![w] = IF Odd(sequence') THEN "store1" ELSE "begin"]
    BY <1>2 DEF Begin
  <2> QED
    BY <1>0, <2>1, <2>2, <2>3, <2>4, <2>5 DEF CountInv
<1>3. CASE Store1(w)
  <2>1. \A v \in Writers : v # w => pc[v] = "idle"
    BY <1>3, Exclusion DEF Store1, Inside
  <2> QED
    BY <1>0, <1>3, <2>1 DEF Store1, CountInv
<1>4. CASE Store2(w)
  BY <1>0, <1>4 DEF Store2, CountInv
<1>5. CASE End(w)
  <2>1. \A v \in Writers : v # w => pc[v] = "idle"
    BY <1>5, Exclusion DEF End, Inside
  <2>2. sequence <= 2 * writes + 1
    BY <1>5 DEF End, CountInv
  <2>3. sequence' \in {sequence, sequence + 1} /\ writes' = writes
    BY <1>0, <1>5, <2>2, IncSmall DEF End, NoWrap
  <2>4. pc' = [pc EXCEPT ![w] = "unlock"]
    BY <1>5 DEF End
  <2> QED
    BY <1>0, <2>1, <2>2, <2>3, <2>4 DEF CountInv
<1>6. CASE WrUnlock(w)
  BY <1>0, <1>6 DEF WrUnlock, CountInv
<1> QED
  BY <1>1, <1>2, <1>3, <1>4, <1>5, <1>6 DEF WriterStep

LEMMA PairStep ==
  ASSUME ExclusionInv, PairInv, NEW w \in Writers, WriterStep(w)
  PROVE  PairInv'
<1> USE DEF ExclusionInv, TypeOK, Thread, lockVars, dataVars, Goto
<1>1. CASE WrLock(w) \/ Begin(w) \/ End(w) \/ WrUnlock(w)
  BY <1>1 DEF WrLock, Begin, End, WrUnlock, PairInv
<1>2. CASE Store1(w)
  <2>1. \A v \in Writers : v # w => pc[v] = "idle"
    BY <1>2, Exclusion DEF Store1, Inside
  <2> QED
    BY <1>2, <2>1 DEF Store1, PairInv
<1>3. CASE Store2(w)
  <2>1. \A v \in Writers : v # w => pc[v] = "idle"
    BY <1>3, Exclusion DEF Store2, Inside
  <2> QED
    BY <1>3, <2>1 DEF Store2, PairInv
<1> QED
  BY <1>1, <1>2, <1>3 DEF WriterStep

(* A writer only ever moves the counter on, and only touches the values    *)
(* while it is odd.                                                        *)
LEMMA WriterEffect ==
  ASSUME ExclusionInv, CountInv, NoWrap, NEW w \in Writers, WriterStep(w)
  PROVE  /\ sequence' \in Nat /\ sequence <= sequence'
         /\ ~Odd(sequence) => value1' = value1 /\ value2' = value2
<1> USE DEF ExclusionInv, TypeOK, Thread, lockVars, dataVars, Goto
<1>0. sequence \in Nat /\ writes \in Nat /\ Modulus \in Nat
  BY SeqLockAssumption
<1>1. CASE WrLock(w) \/ WrUnlock(w)
  BY <1>0, <1>1 DEF WrLock, WrUnlock
<1>2. CASE Begin(w)
  <2>1. \A v \in Writers : pc[v] # "store1"
    BY <1>2, Exclusion DEF Begin, Inside
  <2>2. sequence' = sequence + 1
    BY <1>0, <1>2, <2>1, IncSmall DEF Begin, CountInv, NoWrap
  <2> QED
    BY <1>0, <1>2, <2>2 DEF Begin
<1>3. CASE Store1(w)
  BY <1>0, <1>3 DEF Store1, OddInv
<1>4. CASE Store2(w)
  BY <1>0, <1>4 DEF Store2, OddInv
<1>5. CASE End(w)
  <2>1. sequence <= 2 * writes + 1
    BY <1>5 DEF End, CountInv
  <2>2. sequence' \in {sequence, sequence + 1}
    BY <1>0, <1>5, <2>1, IncSmall DEF End, NoWrap
  <2> QED
    BY <1>0, <1>5, <2>2 DEF End
<1> QED
  BY <1>1, <1>2, <1>3, <1>4, <1>5 DEF WriterStep

LEMMA ReaderInvWriter ==
  ASSUME ExclusionInv, CountInv, ReaderInv, NoWrap, NEW w \in Writers, WriterStep(w)
  PROVE  ReaderInv'
<1>1. /\ sequence' \in Nat /\ sequence <= sequence'
      /\ ~Odd(sequence) => value1' = value1 /\ value2' = value2
  BY WriterEffect
<1>2. UNCHANGED localVars /\ \A r \in Readers : pc'[r] = pc[r]
  BY SeqLockAssumption
     DEF WriterStep, WrLock, Begin, Store1, Store2, End, WrUnlock, ExclusionInv, TypeOK, Thread, Goto, localVars
<1>3. sequence \in Nat /\ \A r \in Readers : seq[r] \in Nat
  BY SeqLockAssumption DEF ExclusionInv, TypeOK
<1> SUFFICES ASSUME NEW r \in Readers
             PROVE  /\ pc[r] \in Looking => ~Odd(seq[r]) /\ seq[r] <= sequence'
                    /\ pc[r] = "copy2" /\ seq[r] = sequence' => copy[r].value1 = value1'
                    /\ pc[r] = "check" /\ seq[r] = sequence' =>
                         copy[r].value1 = value1' /\ copy[r].value2 = value2'
                    /\ pc[r] = "accept" => copy[r].value1 = copy[r].value2
  BY <1>2 DEF ReaderInv, localVars
<1>4. pc[r] \in Looking => ~Odd(seq[r]) /\ seq[r] <= sequence
  BY DEF ReaderInv
<1>5. pc[r] \in Looking /\ seq[r] = sequence' => sequence = seq[r] /\ value1' = value1 /\ value2' = value2
  BY <1>1, <1>3, <1>4
<1> QED
  BY <1>1, <1>3, <1>4, <1>5 DEF ReaderInv, Looking

LEMMA ReaderInvReader ==
  ASSUME ExclusionInv, PairInv, ReaderInv, NEW r \in Readers, ReaderStep(r)
  PROVE  ReaderInv'
<1> USE DEF ExclusionInv, TypeOK, Thread, lockVars, dataVars, localVars, Goto
<1>0. sequence \in Nat
  BY SeqLockAssumption
<1>1. CASE Look(r)
  BY <1>0, <1>1 DEF Look, ReaderInv, Looking
<1>2. CASE Copy1(r)
  BY <1>2 DEF Copy1, ReaderInv, Looking
<1>3. CASE Copy2(r)
  BY <1>3 DEF Copy2, ReaderInv, Looking
<1>4. CASE Check(r)
  <2>1. seq[r] = sequence => value1 = value2
    BY <1>4 DEF Check, ReaderInv, Looking, OddInv, PairInv
  <2> QED
    BY <1>4, <2>1 DEF Check, ReaderInv, Looking
<1>5. CASE Accept(r)
  BY <1>5 DEF Accept, ReaderInv, Looking
<1> QED
  BY <1>1, <1>2, <1>3, <1>4, <1>5 DEF ReaderStep

LEMMA DataNext ==
  ASSUME ExclusionInv, NoWrap => DataInv, [Next]_vars
  PROVE  NoWrap' => DataInv'
<1> SUFFICES ASSUME NoWrap' PROVE DataInv'
  OBVIOUS
<1>0. NoWrap
  <2>1. writes' \in {writes, writes + 1} /\ writes \in Nat
    BY DEF Next, vars, WriterStep, ReaderStep, CallerStep, WrLock, Begin, Store1, Store2, End, WrUnlock,
           Look, Copy1, Copy2, Check, Accept, RdLock, RdUnlock, Joined, dataVars, ExclusionInv, TypeOK
  <2>2. Modulus \in Nat
    BY SeqLockAssumption
  <2>3. 2 * writes' + 3 < Modulus
    BY DEF NoWrap
  <2>4. writes' \in Nat /\ writes <= writes'
    BY <2>1
  <2>5. 2 * writes + 3 < Modulus
    BY <2>1, <2>2, <2>3, <2>4, BoundMonotone
  <2> QED
    BY <2>5 DEF NoWrap
<1>1. ASSUME NEW w \in Writers, WriterStep(w) PROVE DataInv'
  BY <1>0, <1>1, CountStep, PairStep, ReaderInvWriter DEF DataInv
<1>2. ASSUME NEW r \in Readers, ReaderStep(r) PROVE DataInv'
  <2>1. CountInv' /\ PairInv'
    BY <1>0, <1>2, OthersStep DEF DataInv, CountInv, PairInv, lockVars, dataVars
  <2> QED
    BY <1>0, <1>2, <2>1, ReaderInvReader DEF DataInv
<1>3. ASSUME NEW c \in Callers, CallerStep(c) PROVE DataInv'
  <2>1. CountInv' /\ PairInv'
    BY <1>0, <1>3, OthersStep DEF DataInv, CountInv, PairInv, lockVars, dataVars
  <2>2. UNCHANGED <<lockVars, dataVars, localVars>> /\ \A r \in Readers : pc'[r] = pc[r]
    BY <1>3, SeqLockAssumption DEF CallerStep, RdLock, RdUnlock, Goto, ExclusionInv, TypeOK, Thread,
                                   lockVars, dataVars, localVars
  <2>3. ReaderInv'
    BY <1>0, <2>2 DEF DataInv, ReaderInv, lockVars, dataVars, localVars
  <2> QED
    BY <2>1, <2>3 DEF DataInv
<1>4. CASE UNCHANGED vars
  BY <1>0, <1>4 DEF DataInv, CountInv, PairInv, ReaderInv, vars, lockVars, dataVars, localVars
<1> QED
  BY <1>1, <1>2, <1>3, <1>4 DEF Next, Joined

(* A reader accepts only pairs of one write, for any number of threads and *)
(* operations, as long as the counter has not come round to where it began *)
(* (seqlock.c:28-51, test.c:28-49).                                        *)
THEOREM NoTornReadBeforeWrap == Spec => [](NoWrap => NoTornRead)
<1>1. (NoWrap => DataInv) => (NoWrap => NoTornRead)
  BY DEF DataInv, ReaderInv, NoTornRead
<1>2. Spec => [](NoWrap => DataInv)
  BY ExclusionHolds, DataInit, DataNext, PTL DEF Spec
<1> QED
  BY <1>1, <1>2, PTL
=============================================================================
