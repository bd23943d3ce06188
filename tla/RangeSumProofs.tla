--------------------------- MODULE RangeSumProofs ---------------------------
(***************************************************************************)
(* The split of the parallel sums is exact, and every total they print is  *)
(* the sum of the elements of the threads that could be created, for every *)
(* array, every number of elements and of threads and every order in which *)
(* the threads add.                                                        *)
(***************************************************************************)
EXTENDS RangeSum, SumTheorems, TLAPS

Least(a, b) == IF a < b THEN a ELSE b

(* Where the j-th sub-range ends: the elements before it, its own, and the *)
(* remainder's among them.                                                 *)
EndOf(j) == IF program = "sum_multi_thread"
            THEN IF j = tnum THEN arrsz ELSE j * Quotient
            ELSE j * Quotient + Least(j, Remainder) - 1

StartOf(j) == IF program = "sum_multi_thread"
              THEN (j - 1) * Quotient + 1
              ELSE (j - 1) * Quotient + Least(j - 1, Remainder)

Ranges == [start : Int, end : Int]

TypeInv == /\ program \in Programs
           /\ args \in Seq(Int \cup {NaN})
           /\ arrsz \in Nat /\ tnum \in Nat
           /\ range \in Seq(Ranges)

Splitting == {"split", "fork", "create", "join", "joined"}

SizesInv == /\ main \in Splitting \cup {"allocate"} \/ range # <<>> => tnum > 0 /\ arrsz > 0
            /\ main \in {"args", "allocate"} => range = <<>>
            /\ Len(range) <= tnum
            /\ main \in Splitting \ {"split"} => Len(range) = tnum

RangesInv == \A j \in 1 .. Len(range) : range[j].start = StartOf(j) /\ range[j].end = EndOf(j)

BigInv == main \in Splitting \/ range # <<>> => ~TooManyThreads

IndInv == TypeInv /\ SizesInv /\ RangesInv /\ BigInv

-----------------------------------------------------------------------------
(* Arithmetic *)

LEMMA Division ==
  ASSUME NEW n \in Nat, NEW d \in Nat, d > 0
  PROVE  /\ n \div d \in Nat /\ n % d \in Nat
         /\ n % d < d
         /\ n = d * (n \div d) + (n % d)
  OBVIOUS

LEMMA ModSmall ==
  ASSUME NEW n \in Nat, NEW d \in Nat, n < d
  PROVE  n % d = n
  OBVIOUS

LEMMA ModInt ==
  ASSUME NEW n \in Int, NEW d \in Nat, d > 0
  PROVE  n % d \in Int
  OBVIOUS

LEMMA NextMultiple ==
  ASSUME NEW j \in Int, NEW q \in Int
  PROVE  j * q = (j - 1) * q + q /\ (j + 1) * q = j * q + q /\ 0 * q = 0 /\ 1 * q = q
         /\ j * q \in Int
  OBVIOUS

LEMMA QuotientAtLeast ==
  ASSUME NEW q \in Nat, NEW r \in Nat, NEW d \in Nat, NEW t \in Nat,
         r < d, d * t <= d * q + r
  PROVE  t <= q
<1> SUFFICES ASSUME t > q PROVE FALSE
  OBVIOUS
<1> DEFINE k == t - q - 1
<1>1. k \in Nat /\ t = q + 1 + k
  OBVIOUS
<1> HIDE DEF k
<1>2. d * (q + 1 + k) = d * q + d + d * k /\ d * k \in Nat /\ d * q \in Nat
  BY <1>1
<1>3. d * t = d * q + d + d * k
  BY <1>1, <1>2
<1> QED
  BY <1>2, <1>3

(* An int that does not overflow is itself. *)
LEMMA ToIntSmall ==
  ASSUME NEW n \in Nat, n <= IntMax
  PROVE  ToInt(n) = n
<1>1. IntMax \in Nat
  BY RangeSumAssumption
<1>2. (n + IntMax + 1) % (2 * (IntMax + 1)) = n + IntMax + 1
  BY <1>1, ModSmall
<1> QED
  BY <1>1, <1>2 DEF ToInt

LEMMA ToIntInt ==
  ASSUME NEW n \in Int
  PROVE  ToInt(n) \in Int
<1>1. IntMax \in Nat
  BY RangeSumAssumption
<1>2. (n + IntMax + 1) % (2 * (IntMax + 1)) \in Int
  BY <1>1, ModInt
<1> QED
  BY <1>1, <1>2 DEF ToInt

LEMMA ToIntAtMost ==
  ASSUME NEW n \in Int
  PROVE  ToInt(n) <= IntMax
<1> DEFINE d == 2 * (IntMax + 1)
           m == (n + IntMax + 1) % d
<1>1. IntMax \in Nat
  BY RangeSumAssumption
<1>2. m \in Int /\ m < d
  BY <1>1
<1> QED
  BY <1>1, <1>2 DEF ToInt

LEMMA ArgumentsAreNumbers ==
  ASSUME TypeInv, ArgCountOK
  PROVE  Elements \in Int /\ Threads \in Int
<1> DEFINE A == Int \cup {NaN}
<1>0. args \in Seq(A) /\ Len(args) \in Nat
  BY DEF TypeInv
<1>1. Len(args) >= 2
  <2>1. Len(args) >= 2 \/ Len(args) = 2 \/ Len(args) = 3
    BY Zenon DEF ArgCountOK
  <2> QED
    BY <1>0, <2>1
<1> HIDE DEF A
<1>3. args[1] \in A /\ args[2] \in A
  BY <1>0, <1>1
<1>2. \A a \in A : atoi(a) \in Int /\ atoll(a) \in Int
  BY ToIntInt DEF atoi, atoll, A
<1> QED
  BY <1>2, <1>3 DEF Elements, Threads

(* The quotient and the remainder of the split. *)
LEMMA Shares ==
  ASSUME TypeInv, tnum > 0
  PROVE  /\ Quotient \in Nat /\ Remainder \in Nat /\ Remainder < tnum
         /\ arrsz = tnum * Quotient + Remainder
  BY Division DEF TypeInv, Quotient, Remainder

-----------------------------------------------------------------------------
(* The closed form is a tiling. *)

LEMMA EndsMeet ==
  ASSUME TypeInv, tnum > 0, NEW j \in 1 .. tnum
  PROVE  /\ StartOf(j) \in Int /\ EndOf(j) \in Int
         /\ j = 1 => StartOf(j) = First
         /\ j > 1 => StartOf(j) = EndOf(j - 1) + 1
         /\ StartOf(j) <= EndOf(j) + 1
         /\ j = tnum => EndOf(j) = Last
         /\ program # "sum_multi_thread" => StartOf(j) + Quotient <= EndOf(j) + 1
<1> DEFINE q == Quotient
           r == Remainder
<1>1. q \in Nat /\ r \in Nat /\ r < tnum /\ arrsz = tnum * q + r /\ tnum \in Nat /\ arrsz \in Nat
  BY Shares DEF TypeInv
<1>2. j * q = (j - 1) * q + q /\ j * q \in Int /\ (j - 1) * q \in Int /\ 0 * q = 0 /\ 1 * q = q
  BY <1>1, NextMultiple
<1> HIDE DEF q, r
<1>3. CASE program = "sum_multi_thread"
  <2>1. /\ StartOf(j) = (j - 1) * q + 1 /\ EndOf(j) = (IF j = tnum THEN arrsz ELSE j * q)
        /\ j > 1 => EndOf(j - 1) = (j - 1) * q
        /\ First = 1 /\ Last = arrsz
    BY <1>1, <1>3 DEF StartOf, EndOf, q, First, Last, TypeInv
  <2>2. CASE j = tnum
    BY <1>1, <1>2, <1>3, <2>1, <2>2
  <2>3. CASE j # tnum
    BY <1>1, <1>2, <1>3, <2>1, <2>3
  <2> QED
    BY <2>2, <2>3
<1>4. CASE program # "sum_multi_thread"
  <2>1. /\ StartOf(j) = (j - 1) * q + Least(j - 1, r)
        /\ EndOf(j) = j * q + Least(j, r) - 1
        /\ EndOf(j - 1) = (j - 1) * q + Least(j - 1, r) - 1
        /\ First = 0 /\ Last = arrsz - 1
    BY <1>1, <1>4 DEF StartOf, EndOf, q, r, First, Last, TypeInv
  <2>2. /\ Least(j - 1, r) \in Int /\ Least(j, r) \in Int /\ Least(j - 1, r) <= Least(j, r)
        /\ j = 1 => Least(j - 1, r) = 0
        /\ j = tnum => Least(j, r) = r
    BY <1>1 DEF Least
  <2>3. j = 1 => (j - 1) * q = 0
    BY <1>2
  <2> DEFINE before == (j - 1) * q
             l0 == Least(j - 1, r)
             l1 == Least(j, r)
  <2>4. /\ StartOf(j) = before + l0 /\ EndOf(j) = before + q + l1 - 1
        /\ EndOf(j - 1) = before + l0 - 1
        /\ before \in Int /\ l0 \in Int /\ l1 \in Int /\ l0 <= l1
        /\ j = 1 => before = 0 /\ l0 = 0
        /\ j = tnum => l1 = r /\ arrsz = before + q + r
        /\ First = 0 /\ Last = arrsz - 1
    BY <1>1, <1>2, <2>1, <2>2, <2>3
  <2> HIDE DEF before, l0, l1
  <2>5. q = Quotient
    BY DEF q
  <2> QED
    BY <1>1, <1>4, <2>4, <2>5
<1> QED
  BY <1>3, <1>4

(* One turn of the splitting loop computes the next sub-range of the       *)
(* closed form.                                                            *)
LEMMA NextRangeIsNext ==
  ASSUME TypeInv, SizesInv, RangesInv, main = "split", Len(range) < tnum
  PROVE  /\ NextRange \in Ranges
         /\ NextRange.start = StartOf(Len(range) + 1)
         /\ NextRange.end = EndOf(Len(range) + 1)
<1> DEFINE i == Len(range)
           q == Quotient
           r == Remainder
<1>0. i \in Nat /\ tnum \in Nat /\ arrsz \in Nat /\ tnum > 0 /\ i + 1 \in 1 .. tnum
  BY DEF TypeInv, SizesInv, Splitting
<1>1. q \in Nat /\ r \in Nat /\ r < tnum
  BY <1>0, Shares
<1>2. (i + 1) * q = i * q + q /\ i * q \in Int /\ (i + 1) * q \in Int /\ 0 * q = 0
  BY <1>0, <1>1, NextMultiple
<1>3. (i + 1) - 1 = i
  BY <1>0
<1>4. CASE program = "sum_multi_thread"
  <2>1. NextRange = [start |-> i * q + 1, end |-> IF i = tnum - 1 THEN arrsz ELSE (i + 1) * q]
    BY <1>4 DEF NextRange
  <2>2. StartOf(i + 1) = i * q + 1
    BY <1>3, <1>4 DEF StartOf
  <2>3. EndOf(i + 1) = (IF i = tnum - 1 THEN arrsz ELSE (i + 1) * q)
    BY <1>0, <1>4 DEF EndOf
  <2>4. i * q + 1 \in Int /\ (IF i = tnum - 1 THEN arrsz ELSE (i + 1) * q) \in Int
    BY <1>0, <1>2
  <2> HIDE DEF i, q, r
  <2> QED
    BY <2>1, <2>2, <2>3, <2>4 DEF Ranges, i
<1>5. CASE program # "sum_multi_thread"
  <2> DEFINE start == IF i = 0 THEN 0 ELSE range[i].end + 1
             extra == IF i < r THEN 1 ELSE 0
  <2>1. NextRange = [start |-> start, end |-> start + q - 1 + extra]
    BY <1>5 DEF NextRange
  <2>2. start = i * q + Least(i, r)
    <3>1. CASE i = 0
      BY <1>0, <1>1, <1>2, <3>1 DEF Least
    <3>2. CASE i # 0
      <4>1. range[i].end = EndOf(i)
        BY <1>0, <3>2 DEF RangesInv
      <4>2. EndOf(i) = i * q + Least(i, r) - 1
        BY <1>5 DEF EndOf
      <4>3. Least(i, r) \in Int
        BY <1>0, <1>1 DEF Least
      <4> HIDE DEF i, q, r
      <4> QED
        BY <1>2, <3>2, <4>1, <4>2, <4>3
    <3> QED
      BY <3>1, <3>2
  <2>3. StartOf(i + 1) = i * q + Least(i, r)
    BY <1>3, <1>5 DEF StartOf
  <2>4. EndOf(i + 1) = (i + 1) * q + Least(i + 1, r) - 1
    BY <1>5 DEF EndOf
  <2>5. /\ Least(i, r) \in Int /\ extra \in Int
        /\ Least(i + 1, r) = Least(i, r) + extra
    BY <1>0, <1>1 DEF Least
  <2> DEFINE before == i * q
             l == Least(i, r)
  <2>6. /\ before \in Int /\ l \in Int /\ extra \in Int /\ q \in Int
        /\ start = before + l /\ StartOf(i + 1) = before + l
        /\ EndOf(i + 1) = before + q + l + extra - 1
    <3> HIDE DEF start, extra
    <3> QED
      BY <1>1, <1>2, <2>2, <2>3, <2>4, <2>5
  <2> HIDE DEF i, q, r, start, extra, before, l
  <2>7. start \in Int /\ start + q - 1 + extra \in Int /\ start + q - 1 + extra = EndOf(i + 1)
    BY <2>6
  <2> QED
    BY <2>1, <2>6, <2>7 DEF Ranges, i
<1> QED
  BY <1>4, <1>5

-----------------------------------------------------------------------------
(* The invariant is inductive. *)

LEMMA InitInd == Init => IndInv
<1> SUFFICES ASSUME Init PROVE IndInv
  OBVIOUS
<1>1. TypeInv
  <2>1. range \in Seq(Ranges)
    BY DEF Init
  <2> QED
    BY <2>1, RangeSumAssumption DEF Init, TypeInv
<1>2. SizesInv
  BY DEF Init, SizesInv, Splitting
<1>3. RangesInv /\ BigInv
  BY DEF Init, RangesInv, BigInv, Splitting
<1> QED
  BY <1>1, <1>2, <1>3 DEF IndInv

rangeVars == <<program, args, arrsz, tnum, main, range>>

(* Steps that leave main, its arguments and the ranges alone. *)
LEMMA FrameInd ==
  ASSUME IndInv, UNCHANGED rangeVars
  PROVE  IndInv'
<1> USE DEF rangeVars
<1>1. TypeInv'
  BY DEF IndInv, TypeInv
<1>2. SizesInv'
  BY DEF IndInv, SizesInv
<1>3. RangesInv'
  BY DEF IndInv, RangesInv, StartOf, EndOf, Quotient, Remainder
<1>4. BigInv'
  BY DEF IndInv, BigInv, TooManyThreads
<1> QED
  BY <1>1, <1>2, <1>3, <1>4 DEF IndInv

(* Steps of main that leave the sizes and the ranges alone. *)
LEMMA MainMovesInd ==
  ASSUME IndInv, UNCHANGED <<program, args, arrsz, tnum, range>>,
         main' \in Splitting \cup {"allocate"} => main \in Splitting \cup {"allocate"},
         main' \in {"args", "allocate"} => main \in {"args", "allocate"},
         main' \in Splitting \ {"split"} => Len(range) = tnum,
         main' \in Splitting => ~TooManyThreads
  PROVE  IndInv'
<1>1. TypeInv'
  BY DEF IndInv, TypeInv
<1>2. SizesInv'
  BY DEF IndInv, SizesInv
<1>3. RangesInv'
  BY DEF IndInv, RangesInv, StartOf, EndOf, Quotient, Remainder
<1>4. BigInv'
  BY DEF IndInv, BigInv, TooManyThreads
<1> QED
  BY <1>1, <1>2, <1>3, <1>4 DEF IndInv

LEMMA ReadArgsInd == ASSUME IndInv, ReadArgs PROVE IndInv'
<1>0. /\ UNCHANGED <<program, args, range>> /\ main = "args" /\ main' = "allocate"
      /\ range = <<>> /\ range' = <<>>
  BY DEF IndInv, SizesInv, ReadArgs
<1>1. /\ arrsz' \in Nat /\ tnum' \in Nat /\ arrsz' > 0 /\ tnum' > 0
  BY ArgumentsAreNumbers DEF IndInv, ReadArgs
<1>2. TypeInv'
  <2>1. range' \in Seq(Ranges) /\ args' \in Seq(Int \cup {NaN}) /\ program' \in Programs
    BY <1>0 DEF IndInv, TypeInv
  <2> QED
    BY <1>1, <2>1 DEF TypeInv
<1>3. SizesInv'
  BY <1>0, <1>1 DEF SizesInv, Splitting
<1>4. RangesInv'
  BY <1>0 DEF RangesInv
<1>5. BigInv'
  BY <1>0 DEF BigInv, Splitting
<1> QED
  BY <1>2, <1>3, <1>4, <1>5 DEF IndInv

LEMMA AllocateInd == ASSUME IndInv, Allocate PROVE IndInv'
BY MainMovesInd DEF Allocate, Splitting

LEMMA SplitInd == ASSUME IndInv, Split PROVE IndInv'
<1> DEFINE i == Len(range)
<1>0. /\ UNCHANGED <<program, args, arrsz, tnum, main>> /\ main = "split"
      /\ i \in Nat /\ tnum \in Nat /\ i < tnum /\ range' = Append(range, NextRange)
  BY DEF Split, IndInv, TypeInv
<1>1. /\ NextRange \in Ranges
      /\ NextRange.start = StartOf(i + 1) /\ NextRange.end = EndOf(i + 1)
  BY NextRangeIsNext DEF IndInv, Split
<1>2. range \in Seq(Ranges)
  BY DEF IndInv, TypeInv
<1>3. /\ range' \in Seq(Ranges) /\ Len(range') = i + 1
      /\ range'[i + 1] = NextRange /\ \A j \in 1 .. i : range'[j] = range[j]
  BY <1>0, <1>1, <1>2
<1>4. TypeInv'
  BY <1>0, <1>3 DEF IndInv, TypeInv
<1>5. SizesInv'
  BY <1>0, <1>3 DEF IndInv, SizesInv, Splitting
<1>6. RangesInv'
  <2> SUFFICES ASSUME NEW j \in 1 .. i + 1
               PROVE  range'[j].start = StartOf(j)' /\ range'[j].end = EndOf(j)'
    BY <1>3 DEF RangesInv
  <2>1. StartOf(j)' = StartOf(j) /\ EndOf(j)' = EndOf(j)
    BY <1>0 DEF StartOf, EndOf, Quotient, Remainder
  <2>2. CASE j \in 1 .. i
    BY <1>3, <2>1, <2>2 DEF IndInv, RangesInv
  <2>3. CASE j = i + 1
    BY <1>1, <1>3, <2>1, <2>3
  <2> QED
    BY <1>0, <2>2, <2>3
<1>7. BigInv'
  BY <1>0 DEF IndInv, BigInv, TooManyThreads, Splitting
<1> QED
  BY <1>4, <1>5, <1>6, <1>7 DEF IndInv

LEMMA SplitDoneInd == ASSUME IndInv, SplitDone PROVE IndInv'
BY MainMovesInd DEF SplitDone, Splitting, IndInv, BigInv

LEMMA ForkInd == ASSUME IndInv, Fork PROVE IndInv'
BY MainMovesInd DEF Fork, Splitting, IndInv, BigInv, SizesInv

LEMMA JoinInd == ASSUME IndInv, Join PROVE IndInv'
BY MainMovesInd DEF Join, Splitting, IndInv, BigInv, SizesInv

LEMMA JoinFaultsInd == ASSUME IndInv, JoinFaults PROVE IndInv'
BY MainMovesInd DEF JoinFaults, Splitting

LEMMA ReportInd == ASSUME IndInv, Report PROVE IndInv'
BY MainMovesInd DEF Report, Splitting

LEMMA BadArgsInd == ASSUME IndInv, BadArgCount \/ BadArgs PROVE IndInv'
BY MainMovesInd DEF BadArgCount, BadArgs, Splitting

LEMMA NextInd == ASSUME IndInv, [Next]_vars PROVE IndInv'
<1>1. CASE BadArgCount \/ BadArgs
  BY <1>1, BadArgsInd
<1>2. CASE ReadArgs
  BY <1>2, ReadArgsInd
<1>3. CASE Allocate
  BY <1>3, AllocateInd
<1>4. CASE Split
  BY <1>4, SplitInd
<1>5. CASE SplitDone
  BY <1>5, SplitDoneInd
<1>6. CASE Fork
  BY <1>6, ForkInd
<1>7. CASE Create
  BY <1>7, FrameInd DEF Create, rangeVars
<1>8. CASE Join
  BY <1>8, JoinInd
<1>9. CASE Report
  BY <1>9, ReportInd
<1>10. CASE main # "fault" /\ \E w \in DOMAIN pc : ThreadStep(w)
  BY <1>10, FrameInd DEF ThreadStep, SumRange, LockTotal, AddAndUnlock, rangeVars
<1>11. CASE ValidateSum
  BY <1>11, FrameInd DEF ValidateSum, rangeVars
<1>12. CASE UNCHANGED vars
  BY <1>12, FrameInd DEF vars, rangeVars
<1>13. CASE JoinFaults
  BY <1>13, JoinFaultsInd
<1> QED
  BY <1>1, <1>2, <1>3, <1>4, <1>5, <1>6, <1>7, <1>8, <1>9, <1>10, <1>11, <1>12, <1>13
     DEF Next, MainStep

(* The ranges split off are those of the closed form in every reachable    *)
(* state (aggregated_sum.c:109-124, utils.c:75-86,                         *)
(* sum_multi_thread.c:41-52).                                              *)
THEOREM RangesAreTheClosedForm == Spec => []IndInv
BY InitInd, NextInd, PTL DEF Spec

-----------------------------------------------------------------------------
LEMMA Tiles == IndInv => RangesTile
<1> SUFFICES ASSUME IndInv PROVE RangesTile
  OBVIOUS
<1>0. Len(range) \in Nat /\ tnum \in Nat /\ Len(range) <= tnum /\ DOMAIN range = 1 .. Len(range)
  BY DEF IndInv, TypeInv, SizesInv
<1>1. ASSUME NEW j \in DOMAIN range
      PROVE  /\ range[j].start = IF j = 1 THEN First ELSE range[j - 1].end + 1
             /\ range[j].start <= range[j].end + 1
  <2>1. j \in 1 .. tnum /\ j \in 1 .. Len(range) /\ tnum > 0
    BY <1>0
  <2>2. range[j].start = StartOf(j) /\ range[j].end = EndOf(j)
    BY <2>1 DEF IndInv, RangesInv
  <2>3. CASE j = 1
    BY <2>1, <2>2, <2>3, EndsMeet DEF IndInv
  <2>4. CASE j # 1
    <3>1. j - 1 \in 1 .. Len(range) /\ j > 1
      BY <1>0, <2>1, <2>4
    <3>2. range[j - 1].end = EndOf(j - 1)
      BY <3>1 DEF IndInv, RangesInv
    <3> QED
      BY <2>1, <2>2, <2>4, <3>1, <3>2, EndsMeet DEF IndInv
  <2> QED
    BY <2>3, <2>4
<1>2. ASSUME main \in {"fork", "create", "join", "joined"}
      PROVE  Len(range) = tnum /\ range[tnum].end = Last
  <2>0. Len(range) = tnum /\ tnum > 0
    BY <1>2 DEF IndInv, SizesInv, Splitting
  <2>1. Len(range) = tnum /\ tnum > 0 /\ tnum \in 1 .. Len(range) /\ tnum \in 1 .. tnum
    BY <1>0, <2>0
  <2>2. range[tnum].end = EndOf(tnum)
    BY <2>1 DEF IndInv, RangesInv
  <2> QED
    BY <2>1, <2>2, EndsMeet DEF IndInv
<1> QED
  BY <1>1, <1>2 DEF RangesTile

LEMMA BigEnough == IndInv => PartitionsBigEnough
<1> SUFFICES ASSUME IndInv, program = "aggsum", tnum * THRSL_MIN <= IntMax, NEW j \in DOMAIN range
             PROVE  range[j].start + THRSL_MIN <= range[j].end + 1
  BY DEF PartitionsBigEnough
<1>0. /\ tnum \in Nat /\ arrsz \in Nat /\ THRSL_MIN \in Nat /\ j \in 1 .. Len(range)
      /\ j \in 1 .. tnum /\ tnum > 0 /\ range # <<>>
  BY RangeSumAssumption DEF IndInv, TypeInv, SizesInv
<1>1. tnum * THRSL_MIN \in Nat
  BY <1>0
<1>2. ToInt(tnum * THRSL_MIN) = tnum * THRSL_MIN
  BY <1>1, ToIntSmall
<1>3. tnum * THRSL_MIN <= arrsz
  BY <1>0, <1>1, <1>2 DEF IndInv, BigInv, TooManyThreads
<1>4. THRSL_MIN <= Quotient
  BY <1>0, <1>3, Shares, QuotientAtLeast DEF IndInv
<1>5. range[j].start = StartOf(j) /\ range[j].end = EndOf(j)
  BY <1>0 DEF IndInv, RangesInv
<1>6. StartOf(j) + Quotient <= EndOf(j) + 1 /\ StartOf(j) \in Int /\ EndOf(j) \in Int /\ Quotient \in Nat
  BY <1>0, EndsMeet, Shares DEF IndInv
<1> QED
  BY <1>0, <1>4, <1>5, <1>6

(* For every number of elements and of threads, the sub-ranges cover the   *)
(* elements without a gap or an overlap, and aggsum gives each thread at   *)
(* least THRSL_MIN of them unless the product in its check overflows       *)
(* (utils.c:67-89, aggregated_sum.c:107-124, sum_multi_thread.c:39-52).    *)
THEOREM SplitIsExact == Spec => []SplitExact
<1>1. IndInv => SplitExact
  BY Tiles, BigEnough DEF SplitExact
<1> QED
  BY <1>1, RangesAreTheClosedForm, PTL

-----------------------------------------------------------------------------
(* The totals *)

Multi == program = "sum_multi_thread"
ThreadPc == {"sum", "lock", "add", "done", "missing"}
Answered == {"match", "mismatch", "printed"}
Final == {"joined", "match", "mismatch", "printed"}

SizeOK == ~Multi => arrsz <= IntMax

ThreadsOK == /\ pc \in Seq(ThreadPc) /\ partial \in Seq(Int) /\ Len(partial) = Len(pc)
             /\ Len(pc) <= Len(range) /\ total \in Int

PartialOK == \A w \in 1 .. Len(pc) :
               pc[w] \notin {"sum", "missing"} =>
                 partial[w] = SumFromTo(range[w].start, range[w].end)

(* The thread that has read the total holds the mutex, and nobody has      *)
(* changed the total since.                                                *)
MutexOK == \A w \in 1 .. Len(pc) : /\ Multi => pc[w] \in {"sum", "done", "missing"}
                                   /\ pc[w] = "add" => mutex = w /\ seen = total

Added == {w \in 1 .. Len(pc) : pc[w] = "done"}
TotalOK == ~Multi => total = SumFunctionOnSet(partial, Added)

FinalOK == main \in Final => Len(pc) = tnum /\ Len(range) = tnum /\ tnum > 0 /\ AllDone

AnswerOK == main \in Answered => /\ total = SumFunctionOnSet(Element, Covered) + Leftover
                                 /\ Missing = {} => main # "mismatch" /\ total = verify_sum

ChildOK == /\ main \in {"args", "allocate", "split"} => child = "none"
           /\ child = "exited" => validsum = verify_sum
           /\ program = "aggsum" /\ main \in Answered => child = "exited"

SumInv == SizeOK /\ ThreadsOK /\ PartialOK /\ MutexOK /\ TotalOK /\ FinalOK /\ AnswerOK /\ ChildOK

Summands == IF Multi THEN 1 .. arrsz ELSE 0 .. (IntMax - 1)

LEMMA SummandsAre ==
  ASSUME TypeInv, SizeOK
  PROVE  /\ IsFiniteSet(Summands) /\ Element \in [Summands -> Int]
         /\ First .. Last \in SUBSET Summands /\ First \in Int /\ Last \in Int
<1>1. arrsz \in Nat /\ IntMax \in Nat
  BY RangeSumAssumption DEF TypeInv
<1>2. IsFiniteSet(1 .. arrsz) /\ IsFiniteSet(0 .. (IntMax - 1))
  BY <1>1, FS_Interval
<1>3. CASE Multi
  BY <1>1, <1>2, <1>3 DEF Summands, Element, Multi, First, Last
<1>4. CASE ~Multi
  BY <1>1, <1>2, <1>4, RangeSumAssumption DEF Summands, Element, Multi, First, Last, SizeOK
<1> QED
  BY <1>3, <1>4

LEMMA EndsInside ==
  ASSUME TypeInv, tnum > 0, NEW j \in 1 .. tnum
  PROVE  /\ First <= EndOf(j) + 1 /\ EndOf(j) <= Last
         /\ First <= StartOf(j)
<1> DEFINE q == Quotient
           r == Remainder
<1>1. q \in Nat /\ r \in Nat /\ r < tnum /\ arrsz = tnum * q + r /\ tnum \in Nat /\ arrsz \in Nat
  BY Shares DEF TypeInv
<1>2. j * q <= tnum * q /\ j * q \in Nat /\ (j - 1) * q \in Nat
  <2>1. \A a, b \in Nat : (a + b) * q = a * q + b * q /\ a * q \in Nat /\ b * q \in Nat
    BY <1>1
  <2>2. j \in Nat /\ tnum - j \in Nat /\ j - 1 \in Nat /\ j + (tnum - j) = tnum
    BY <1>1
  <2> HIDE DEF q
  <2>3. (j + (tnum - j)) * q = j * q + (tnum - j) * q /\ (tnum - j) * q \in Nat /\ j * q \in Nat
    BY <2>1, <2>2
  <2>4. tnum * q = j * q + (tnum - j) * q
    BY <2>2, <2>3, Zenon
  <2>5. (j - 1) * q \in Nat
    BY <2>1, <2>2
  <2> QED
    BY <2>3, <2>4, <2>5
<1> HIDE DEF q, r
<1>3. CASE Multi
  <2>1. /\ StartOf(j) = (j - 1) * q + 1 /\ EndOf(j) = (IF j = tnum THEN arrsz ELSE j * q)
        /\ First = 1 /\ Last = arrsz
    BY <1>1, <1>3 DEF StartOf, EndOf, q, First, Last, Multi
  <2> QED
    BY <1>1, <1>2, <2>1
<1>4. CASE ~Multi
  <2>1. /\ StartOf(j) = (j - 1) * q + Least(j - 1, r)
        /\ EndOf(j) = j * q + Least(j, r) - 1
        /\ First = 0 /\ Last = arrsz - 1
    BY <1>1, <1>4 DEF StartOf, EndOf, q, r, First, Last, Multi
  <2>2. Least(j - 1, r) \in Nat /\ Least(j, r) \in Nat /\ Least(j, r) <= r
    BY <1>1 DEF Least
  <2> QED
    BY <1>1, <1>2, <2>1, <2>2
<1> QED
  BY <1>3, <1>4

LEMMA TwoIntervals ==
  ASSUME NEW a \in Int, NEW b \in Int, NEW c \in Int, NEW d \in Int,
         a <= b + 1, b + 1 <= c + 1, c <= d
  PROVE  /\ a .. b \in SUBSET (a .. d) /\ (b + 1) .. c \in SUBSET (a .. d)
         /\ (a .. b) \cap ((b + 1) .. c) = {}
         /\ (a .. b) \cup ((b + 1) .. c) = a .. c
OBVIOUS

(* The sums of the first sub-ranges are the sum of what they cover, by     *)
(* induction over their number.                                            *)
LEMMA SumOfRanges ==
  ASSUME TypeInv, SizeOK, tnum > 0, NEW p \in [1 .. tnum -> Int],
         \A j \in 1 .. tnum : p[j] = SumFromTo(StartOf(j), EndOf(j))
  PROVE  SumFunctionOnSet(p, 1 .. tnum) = SumFromTo(First, Last)
<1>0. tnum \in Nat /\ IsFiniteSet(1 .. tnum)
  BY FS_Interval DEF TypeInv
<1> DEFINE E == Element
           D == Summands
           Right(m) == SumFunctionOnSet(p, 1 .. m) = SumFunctionOnSet(E, First .. EndOf(m))
           F == {1 .. m : m \in {k \in 1 .. tnum : ~Right(k)}}
<1>1. IsFiniteSet(D) /\ E \in [D -> Int] /\ First .. Last \in SUBSET D /\ First \in Int /\ Last \in Int
  BY SummandsAre
<1>2. \A j \in 1 .. tnum :
        /\ StartOf(j) \in Int /\ EndOf(j) \in Int
        /\ First <= EndOf(j) + 1 /\ EndOf(j) <= Last /\ First <= StartOf(j)
        /\ StartOf(j) <= EndOf(j) + 1
        /\ j = 1 => StartOf(j) = First
        /\ j > 1 => StartOf(j) = EndOf(j - 1) + 1
  BY EndsMeet, EndsInside
<1>3. \A j \in 1 .. tnum : p[j] = SumFunctionOnSet(E, StartOf(j) .. EndOf(j))
  BY DEF SumFromTo
<1>4. EndOf(tnum) = Last
  BY <1>0, EndsMeet
<1> HIDE DEF E, D
<1>5. ASSUME F # {} PROVE FALSE
  <2>1. PICK A \in F : \A B \in F : B \subseteq A => B = A
    <3> DEFINE I == 1 .. tnum
    <3>1. F \in SUBSET (SUBSET I) /\ IsFiniteSet(I)
      <4>1. \A m \in 1 .. tnum : 1 .. m \in SUBSET (1 .. tnum)
        BY <1>0
      <4> QED
        BY <1>0, <4>1
    <3> HIDE DEF F, I
    <3> QED
      BY <1>5, <3>1, SmallestMember
  <2>2. PICK m \in 1 .. tnum : A = 1 .. m /\ ~Right(m)
    BY <2>1
  <2>3. CASE m = 1
    <3>1. 1 .. m = {1} /\ StartOf(m) = First
      BY <1>0, <1>2, <2>3
    <3>2. SumFunctionOnSet(p, {1}) = p[1]
      BY <1>0, SumOne
    <3> QED
      BY <1>3, <2>2, <2>3, <3>1, <3>2
  <2>4. CASE m # 1
    <3>1. m - 1 \in 1 .. tnum /\ m \in Int /\ m > 1
      BY <1>0, <2>4
    <3>2. 1 .. (m - 1) \notin F
      <4>1. 1 .. (m - 1) \subseteq A /\ 1 .. (m - 1) # A
        <5>1. m \in A /\ m \notin 1 .. (m - 1)
          BY <2>2, <3>1
        <5> QED
          BY <2>2, <3>1, <5>1
      <4> HIDE DEF F
      <4> QED
        BY <2>1, <4>1
    <3>3. SumFunctionOnSet(p, 1 .. (m - 1)) = SumFunctionOnSet(E, First .. EndOf(m - 1))
      BY <3>1, <3>2
    <3> DEFINE S == 1 .. (m - 1)
               R == First .. EndOf(m - 1)
               T == StartOf(m) .. EndOf(m)
    <3>4. S \in SUBSET (1 .. tnum) /\ m \notin S /\ S \cup {m} = 1 .. m
      BY <1>0, <3>1
    <3>5. /\ R \in SUBSET D /\ T \in SUBSET D /\ R \cap T = {}
          /\ R \cup T = First .. EndOf(m)
      <4>1. /\ EndOf(m - 1) \in Int /\ EndOf(m) \in Int /\ StartOf(m) = EndOf(m - 1) + 1
            /\ First <= EndOf(m - 1) + 1 /\ EndOf(m) <= Last
            /\ StartOf(m) <= EndOf(m) + 1
        BY <1>2, <3>1
      <4>2. /\ R \in SUBSET (First .. Last) /\ T \in SUBSET (First .. Last)
            /\ R \cap T = {} /\ R \cup T = First .. EndOf(m)
        BY <1>1, <4>1, TwoIntervals
      <4> QED
        BY <1>1, <4>2
    <3> HIDE DEF S, R, T
    <3>6. SumFunctionOnSet(p, S \cup {m}) = p[m] + SumFunctionOnSet(p, S)
      BY <1>0, <3>4, SumInsert
    <3>7. SumFunctionOnSet(E, R \cup T) = SumFunctionOnSet(E, R) + SumFunctionOnSet(E, T)
      <4>1. IsFiniteSet(D) /\ E \in [D -> Int] /\ R \in SUBSET D /\ T \in SUBSET D /\ R \cap T = {}
        BY <1>1, <3>5
      <4> QED
        BY <4>1, SumUnion
    <3>8. SumFunctionOnSet(E, R) \in Int /\ SumFunctionOnSet(E, T) \in Int
      BY <1>1, <3>5, SumType
    <3>9. p[m] = SumFunctionOnSet(E, T) /\ SumFunctionOnSet(p, S) = SumFunctionOnSet(E, R)
      BY <1>3, <3>3 DEF S, R, T
    <3>10. SumFunctionOnSet(p, 1 .. m) = SumFunctionOnSet(E, First .. EndOf(m))
      <4>1. /\ SumFunctionOnSet(p, 1 .. m) = p[m] + SumFunctionOnSet(p, S)
            /\ SumFunctionOnSet(E, First .. EndOf(m)) = SumFunctionOnSet(E, R) + SumFunctionOnSet(E, T)
        BY <3>4, <3>5, <3>6, <3>7, Zenon
      <4> QED
        BY <3>8, <3>9, <4>1
    <3> QED
      BY <2>2, <3>10
  <2> QED
    BY <2>3, <2>4
<1>6. Right(tnum)
  <2>1. tnum \in 1 .. tnum
    BY <1>0
  <2> QED
    BY <1>5, <2>1
<1> QED
  BY <1>4, <1>6 DEF SumFromTo, E

Cover(S) == UNION {StartOf(w) .. EndOf(w) : w \in S}

LEMMA RangesApart ==
  ASSUME TypeInv, NEW j \in 1 .. tnum, NEW k \in 1 .. tnum, j < k
  PROVE  EndOf(j) < StartOf(k)
<1> DEFINE q == Quotient
           r == Remainder
           i == k - 1
<1>0. tnum \in Nat /\ tnum > 0 /\ j \in Nat /\ i \in Nat /\ j <= i /\ i < tnum /\ i \in 1 .. tnum /\ k > 1
  BY DEF TypeInv
<1>1. q \in Nat /\ r \in Nat
  BY <1>0, Shares
<1>2. j * q <= i * q /\ j * q \in Nat /\ i * q \in Nat
  <2>1. \A a, b \in Nat : (a + b) * q = a * q + b * q /\ a * q \in Nat /\ b * q \in Nat
    BY <1>1
  <2>2. i - j \in Nat /\ j + (i - j) = i
    BY <1>0
  <2> HIDE DEF q, i
  <2>3. (j + (i - j)) * q = j * q + (i - j) * q /\ (i - j) * q \in Nat /\ j * q \in Nat
    BY <1>0, <2>1, <2>2
  <2>4. i * q = j * q + (i - j) * q
    BY <2>2, <2>3, Zenon
  <2> QED
    BY <2>3, <2>4
<1>3. StartOf(k) = EndOf(i) + 1 /\ EndOf(i) \in Int /\ EndOf(j) \in Int
  BY <1>0, EndsMeet
<1>4. EndOf(j) <= EndOf(i)
  <2>1. CASE program = "sum_multi_thread"
    <3>1. EndOf(j) = j * q /\ EndOf(i) = i * q
      BY <1>0, <2>1 DEF EndOf
    <3> QED
      BY <1>2, <3>1
  <2>2. CASE program # "sum_multi_thread"
    <3>1. EndOf(j) = j * q + Least(j, r) - 1 /\ EndOf(i) = i * q + Least(i, r) - 1
      BY <2>2 DEF EndOf
    <3>2. Least(j, r) \in Nat /\ Least(i, r) \in Nat /\ Least(j, r) <= Least(i, r)
      BY <1>0, <1>1 DEF Least
    <3> HIDE DEF q, r, i
    <3> QED
      BY <1>2, <3>1, <3>2
  <2> QED
    BY <2>1, <2>2
<1> QED
  BY <1>3, <1>4

(* The sums of some of the sub-ranges are the sum of what they cover, by   *)
(* induction over the set of them.                                         *)
LEMMA CoveredSum ==
  ASSUME TypeInv, SizeOK, tnum > 0, NEW p \in [1 .. tnum -> Int], NEW S \in SUBSET (1 .. tnum),
         \A j \in S : p[j] = SumFromTo(StartOf(j), EndOf(j))
  PROVE  SumFunctionOnSet(p, S) = SumFunctionOnSet(Element, Cover(S))
         /\ SumFunctionOnSet(p, S) \in Int
<1> DEFINE E == Element
           D == Summands
           I == 1 .. tnum
           Right(A) == SumFunctionOnSet(p, A) = SumFunctionOnSet(E, Cover(A))
           F == {A \in SUBSET S : ~Right(A)}
<1>0. IsFiniteSet(I) /\ tnum \in Nat /\ p \in [I -> Int] /\ S \in SUBSET I
  BY FS_Interval DEF TypeInv
<1>1. IsFiniteSet(D) /\ E \in [D -> Int] /\ First .. Last \in SUBSET D /\ First \in Int /\ Last \in Int
  BY SummandsAre
<1>2. ASSUME NEW j \in I
      PROVE  StartOf(j) .. EndOf(j) \in SUBSET D /\ StartOf(j) \in Int /\ EndOf(j) \in Int
  <2>1. StartOf(j) \in Int /\ EndOf(j) \in Int /\ First <= StartOf(j) /\ EndOf(j) <= Last
    BY EndsMeet, EndsInside
  <2>2. StartOf(j) .. EndOf(j) \in SUBSET (First .. Last)
    BY <1>1, <2>1
  <2> QED
    BY <1>1, <2>1, <2>2
<1>3. \A j \in S : p[j] = SumFunctionOnSet(E, StartOf(j) .. EndOf(j))
  BY DEF SumFromTo
<1> HIDE DEF E, D
<1>4. ASSUME F # {} PROVE FALSE
  <2>1. PICK A \in F : \A B \in F : B \subseteq A => B = A
    <3>1. F \in SUBSET (SUBSET I) /\ IsFiniteSet(I)
      BY <1>0
    <3> HIDE DEF F, I
    <3> QED
      BY <1>4, <3>1, SmallestMember
  <2>2. A \in SUBSET S /\ ~Right(A)
    BY <2>1
  <2>3. A # {}
    <3>1. Cover({}) = {}
      BY DEF Cover
    <3> QED
      BY <2>2, <3>1, SumEmpty
  <2>4. PICK m \in A : TRUE
    BY <2>3
  <2> DEFINE B == A \ {m}
             R == Cover(B)
             T == StartOf(m) .. EndOf(m)
  <2>5. B \in SUBSET S /\ B \in SUBSET I /\ m \in I /\ m \in S /\ m \notin B /\ B \cup {m} = A
    BY <1>0, <2>2
  <2>6. Right(B)
    BY <2>1, <2>5
  <2>7. Cover(A) = R \cup T /\ R \in SUBSET D /\ T \in SUBSET D
    <3>1. Cover(A) = R \cup T
      BY <2>5 DEF Cover
    <3>2. T \in SUBSET D /\ R \in SUBSET D
      BY <1>2, <2>5 DEF Cover
    <3> QED
      BY <3>1, <3>2
  <2>8. R \cap T = {}
    <3> SUFFICES ASSUME NEW x \in R, x \in T PROVE FALSE
      OBVIOUS
    <3>1. PICK k \in B : x \in StartOf(k) .. EndOf(k)
      BY DEF Cover
    <3>2. k \in I /\ k # m
      BY <2>5, <3>1
    <3>3. /\ x \in Int /\ x <= EndOf(k) /\ StartOf(k) <= x /\ x <= EndOf(m) /\ StartOf(m) <= x
          /\ EndOf(k) \in Int /\ StartOf(k) \in Int /\ EndOf(m) \in Int /\ StartOf(m) \in Int
      BY <1>2, <2>5, <3>1, <3>2
    <3>4. CASE k < m
      BY <2>5, <3>2, <3>3, <3>4, RangesApart
    <3>5. CASE m < k
      BY <2>5, <3>2, <3>3, <3>5, RangesApart
    <3> QED
      BY <1>0, <2>5, <3>2, <3>4, <3>5
  <2> HIDE DEF B, R, T
  <2>9. SumFunctionOnSet(p, B \cup {m}) = p[m] + SumFunctionOnSet(p, B)
    <3>1. \A C \in SUBSET (1 .. tnum) : \A x \in 1 .. tnum :
            x \notin C => SumFunctionOnSet(p, C \cup {x}) = p[x] + SumFunctionOnSet(p, C)
      BY <1>0, SumInsert
    <3>2. B \in SUBSET (1 .. tnum) /\ m \in 1 .. tnum /\ m \notin B
      BY <2>5
    <3> QED
      BY Zenon, <3>1, <3>2
  <2>10. SumFunctionOnSet(E, R \cup T) = SumFunctionOnSet(E, R) + SumFunctionOnSet(E, T)
    BY <1>1, <2>7, <2>8, SumUnion
  <2>11. SumFunctionOnSet(E, R) \in Int /\ SumFunctionOnSet(E, T) \in Int
    BY <1>1, <2>7, SumType
  <2>12. p[m] = SumFunctionOnSet(E, T) /\ SumFunctionOnSet(p, B) = SumFunctionOnSet(E, R)
    BY <1>3, <2>5, <2>6 DEF R, T
  <2>13. /\ SumFunctionOnSet(p, A) = p[m] + SumFunctionOnSet(p, B)
         /\ SumFunctionOnSet(E, Cover(A)) = SumFunctionOnSet(E, R) + SumFunctionOnSet(E, T)
    BY <2>5, <2>7, <2>9, <2>10, Zenon
  <2>14. Right(A)
    BY <2>11, <2>12, <2>13
  <2> QED
    BY <2>2, <2>14
<1>5. Right(S)
  BY <1>4
<1>6. SumFunctionOnSet(p, S) \in Int
  <2> HIDE DEF I
  <2> QED
    BY <1>0, SumType
<1> QED
  BY <1>5, <1>6 DEF E

(* When all threads have ended, the sums of those that were created make   *)
(* up the sum of what they cover, and that of all elements if none is      *)
(* missing.                                                                *)
LEMMA PartialsMakeTheSum ==
  ASSUME IndInv, SumInv, Len(pc) = tnum, Len(range) = tnum, tnum > 0, AllDone
  PROVE  /\ SumFunctionOnSet(partial, Added) = SumFunctionOnSet(Element, Covered)
         /\ SumFunctionOnSet(partial, Added) \in Int
         /\ SumFunctionOnSet(partial, 1 .. tnum) =
              SumFunctionOnSet(partial, Added) + SumFunctionOnSet(partial, Missing)
         /\ SumFunctionOnSet(partial, Missing) \in Int
         /\ Missing = {} => SumFunctionOnSet(partial, 1 .. tnum) = verify_sum
         /\ Missing = {} => Added = 1 .. tnum
<1>1. /\ partial \in [1 .. tnum -> Int] /\ DOMAIN pc = 1 .. tnum /\ tnum \in Nat
  BY DEF IndInv, TypeInv, SumInv, ThreadsOK
<1>2. \A j \in 1 .. tnum : pc[j] \in {"done", "missing"}
  BY <1>1 DEF AllDone
<1>3. /\ Added \in SUBSET (1 .. tnum) /\ Missing \in SUBSET (1 .. tnum)
      /\ Added \cap Missing = {} /\ Added \cup Missing = 1 .. tnum
      /\ Added = DOMAIN pc \ Missing
  BY <1>1, <1>2 DEF Added, Missing
<1>4. ASSUME NEW j \in Added PROVE partial[j] = SumFromTo(StartOf(j), EndOf(j))
  <2>1. j \in 1 .. tnum /\ pc[j] = "done"
    BY <1>3 DEF Added
  <2>2. partial[j] = SumFromTo(range[j].start, range[j].end)
    BY <2>1 DEF SumInv, PartialOK
  <2>3. range[j].start = StartOf(j) /\ range[j].end = EndOf(j)
    BY <2>1 DEF IndInv, RangesInv
  <2> QED
    BY <2>2, <2>3
<1>5. Covered = Cover(Added)
  <2>1. \A j \in Added : range[j].start = StartOf(j) /\ range[j].end = EndOf(j)
    BY <1>3 DEF IndInv, RangesInv
  <2> QED
    BY <1>3, <2>1 DEF Covered, Cover
<1>6. /\ SumFunctionOnSet(partial, Added) = SumFunctionOnSet(Element, Cover(Added))
      /\ SumFunctionOnSet(partial, Added) \in Int
  BY <1>1, <1>3, <1>4, CoveredSum DEF IndInv, SumInv
<1>7. /\ SumFunctionOnSet(partial, Added \cup Missing) =
           SumFunctionOnSet(partial, Added) + SumFunctionOnSet(partial, Missing)
      /\ SumFunctionOnSet(partial, Missing) \in Int
  <2> DEFINE D == 1 .. tnum
  <2>1. IsFiniteSet(D) /\ partial \in [D -> Int] /\ Added \in SUBSET D /\ Missing \in SUBSET D
    BY <1>1, <1>3, FS_Interval
  <2> HIDE DEF D
  <2>2. SumFunctionOnSet(partial, Added \cup Missing) =
          SumFunctionOnSet(partial, Added) + SumFunctionOnSet(partial, Missing)
    <3>1. Added \cap Missing = {}
      BY <1>3
    <3> QED
      BY <2>1, <3>1, SumUnion
  <2>3. SumFunctionOnSet(partial, Missing) \in Int
    BY Zenon, <2>1, SumType
  <2> QED
    BY <2>2, <2>3
<1>8. ASSUME Missing = {} PROVE SumFunctionOnSet(partial, 1 .. tnum) = SumFromTo(First, Last)
  <2>1. Added = 1 .. tnum
    BY <1>3, <1>8
  <2> QED
    BY <1>1, <1>4, <2>1, SumOfRanges DEF IndInv, SumInv
<1> QED
  BY <1>3, <1>5, <1>6, <1>7, <1>8 DEF verify_sum

-----------------------------------------------------------------------------
(* The invariant of the sums is inductive. *)

CoreInv == SizeOK /\ ThreadsOK /\ PartialOK /\ MutexOK /\ TotalOK
EndInv == FinalOK /\ AnswerOK /\ ChildOK

LEMMA SumInvParts == SumInv <=> CoreInv /\ EndInv
BY DEF SumInv, CoreInv, EndInv

LEMMA SumInit == Init => SumInv
<1> SUFFICES ASSUME Init PROVE SumInv
  OBVIOUS
<1>1. /\ pc = <<>> /\ partial = <<>> /\ range = <<>> /\ total = 0 /\ main = "args"
      /\ arrsz = 0 /\ child = "none" /\ Len(pc) = 0 /\ IntMax \in Nat
  BY RangeSumAssumption DEF Init
<1>2. Added = {}
  BY <1>1 DEF Added
<1>3. TotalOK
  BY <1>1, <1>2, SumEmpty DEF TotalOK
<1>4. SizeOK /\ ThreadsOK /\ PartialOK /\ MutexOK
  BY <1>1 DEF SizeOK, ThreadsOK, PartialOK, MutexOK
<1>5. FinalOK /\ AnswerOK /\ ChildOK
  BY <1>1 DEF FinalOK, AnswerOK, ChildOK, Final, Answered
<1> QED
  BY <1>3, <1>4, <1>5 DEF SumInv

LEMMA SumsUnchanged ==
  ASSUME UNCHANGED <<program, arrsz>>
  PROVE  /\ verify_sum' = verify_sum /\ Multi' = Multi
         /\ \A a, b : SumFromTo(a, b)' = SumFromTo(a, b)
BY DEF verify_sum, First, Last, SumFromTo, Element, Multi

LEMMA CoverUnchanged ==
  ASSUME UNCHANGED <<program, arrsz, range, pc, partial>>
  PROVE  /\ Missing' = Missing /\ Leftover' = Leftover
         /\ SumFunctionOnSet(Element, Covered)' = SumFunctionOnSet(Element, Covered)
<1>1. Missing' = Missing /\ Element' = Element
  BY DEF Missing, Element
<1>2. Covered' = Covered /\ Leftover' = Leftover
  BY <1>1 DEF Covered, Leftover
<1> QED
  BY <1>1, <1>2

(* Steps that leave the threads alone. *)
LEMMA CoreFrame ==
  ASSUME CoreInv, UNCHANGED <<program, arrsz, pc, partial, mutex, total, seen>>,
         Len(range') >= Len(pc), \A w \in 1 .. Len(pc) : range'[w] = range[w]
  PROVE  CoreInv'
<1>1. SizeOK' /\ ThreadsOK' /\ MutexOK'
  BY DEF CoreInv, SizeOK, ThreadsOK, MutexOK, Multi
<1>2. PartialOK'
  <2> SUFFICES ASSUME NEW w \in 1 .. Len(pc), pc[w] \notin {"sum", "missing"}
               PROVE  partial[w] = SumFunctionOnSet(Element', range'[w].start .. range'[w].end)
    BY DEF PartialOK, SumFromTo
  <2>1. partial[w] = SumFromTo(range[w].start, range[w].end)
    BY DEF CoreInv, PartialOK
  <2>2. range'[w] = range[w]
    OBVIOUS
  <2> QED
    BY <2>1, <2>2 DEF SumFromTo, Element
<1>3. TotalOK'
  BY DEF CoreInv, TotalOK, Added, Multi
<1> QED
  BY <1>1, <1>2, <1>3 DEF CoreInv

LEMMA CreateThreadCore ==
  ASSUME CoreInv, CreateThread, UNCHANGED <<program, arrsz>>,
         Len(range') >= Len(pc) + 1, \A w \in 1 .. Len(pc) : range'[w] = range[w]
  PROVE  CoreInv'
<1> DEFINE n == Len(pc)
<1>0. pc \in Seq(ThreadPc) /\ partial \in Seq(Int) /\ Len(partial) = n /\ total \in Int /\ n \in Nat
  BY DEF CoreInv, ThreadsOK
<1>1. PICK l \in {"sum", "missing"}, s \in Int :
        /\ pc' = Append(pc, l) /\ partial' = Append(partial, s)
        /\ UNCHANGED <<mutex, total, seen>>
  <2>1. Unset \subseteq Int /\ 0 \in Int
    BY RangeSumAssumption DEF Unset
  <2> QED
    BY <2>1 DEF CreateThread
<1>2. /\ pc' \in Seq(ThreadPc) /\ Len(pc') = n + 1
      /\ pc'[n + 1] \in {"sum", "missing"} /\ \A w \in 1 .. n : pc'[w] = pc[w]
  BY <1>0, <1>1 DEF ThreadPc
<1>3. /\ partial' \in Seq(Int) /\ Len(partial') = n + 1
      /\ \A w \in 1 .. n : partial'[w] = partial[w]
  BY <1>0, <1>1
<1>4. ThreadsOK' /\ SizeOK'
  BY <1>0, <1>1, <1>2, <1>3 DEF ThreadsOK, SizeOK, CoreInv, Multi
<1>5. PartialOK'
  <2> SUFFICES ASSUME NEW w \in 1 .. n + 1, pc'[w] \notin {"sum", "missing"}
               PROVE  partial'[w] = SumFunctionOnSet(Element', range'[w].start .. range'[w].end)
    BY <1>2 DEF PartialOK, SumFromTo
  <2>1. w \in 1 .. n
    BY <1>0, <1>2
  <2>2. partial[w] = SumFromTo(range[w].start, range[w].end)
    BY <1>2, <2>1 DEF CoreInv, PartialOK
  <2>3. range'[w] = range[w] /\ partial'[w] = partial[w]
    BY <1>3, <2>1
  <2> QED
    BY <2>2, <2>3 DEF SumFromTo, Element
<1>6. MutexOK'
  <2> SUFFICES ASSUME NEW w \in 1 .. n + 1
               PROVE  /\ Multi' => pc'[w] \in {"sum", "done", "missing"}
                      /\ pc'[w] = "add" => mutex' = w /\ seen' = total'
    BY <1>2 DEF MutexOK
  <2>1. CASE w \in 1 .. n
    BY <1>1, <1>2, <2>1 DEF CoreInv, MutexOK, Multi
  <2>2. CASE w = n + 1
    BY <1>2, <2>2
  <2> QED
    BY <1>0, <2>1, <2>2
<1>7. TotalOK'
  <2>1. Added' = Added /\ Added \subseteq 1 .. n
    BY <1>0, <1>2 DEF Added
  <2>2. IsFiniteSet(Added)
    <3>1. IsFiniteSet(1 .. n)
      BY <1>0, FS_Interval
    <3> QED
      BY <2>1, <3>1, FS_Subset
  <2>3. SumFunctionOnSet(partial, Added) = SumFunctionOnSet(partial', Added)
    <3>1. \A w \in Added : partial[w] = partial'[w]
      BY <1>3, <2>1
    <3> QED
      BY <2>2, <3>1, SumSame
  <2> QED
    BY <1>1, <2>1, <2>3 DEF CoreInv, TotalOK, Multi
<1> QED
  BY <1>4, <1>5, <1>6, <1>7 DEF CoreInv

(* The steps of thread w. *)
LEMMA SumRangeCore ==
  ASSUME IndInv, CoreInv, NEW w \in DOMAIN pc, SumRange(w)
  PROVE  CoreInv'
<1> DEFINE n == Len(pc)
           s == SumFunctionOnSet(Element, range[w].start .. range[w].end)
           l == IF Multi THEN "done" ELSE "lock"
<1>0. /\ pc \in Seq(ThreadPc) /\ partial \in Seq(Int) /\ Len(partial) = n /\ total \in Int
      /\ n \in Nat /\ w \in 1 .. n /\ n <= Len(range) /\ Len(range) \in Nat
  BY DEF CoreInv, ThreadsOK, IndInv, TypeInv
<1>1. /\ pc[w] = "sum" /\ partial' = [partial EXCEPT ![w] = s] /\ pc' = [pc EXCEPT ![w] = l]
      /\ UNCHANGED <<program, arrsz, range, mutex, total, seen>>
  BY DEF SumRange, Goto, SumFromTo, Multi
<1>2. s \in Int
  <2>1. Len(range) <= tnum /\ tnum \in Nat
    BY DEF IndInv, TypeInv, SizesInv
  <2>2. w \in 1 .. tnum /\ tnum > 0
    BY <1>0, <2>1
  <2>3. range[w].start = StartOf(w) /\ range[w].end = EndOf(w)
    BY <1>0 DEF IndInv, RangesInv
  <2>4. /\ StartOf(w) \in Int /\ EndOf(w) \in Int /\ First <= StartOf(w) /\ EndOf(w) <= Last
    BY <2>2, EndsMeet, EndsInside DEF IndInv
  <2>5. /\ IsFiniteSet(Summands) /\ Element \in [Summands -> Int]
        /\ First .. Last \in SUBSET Summands /\ First \in Int /\ Last \in Int
    BY SummandsAre DEF IndInv, CoreInv
  <2>6. StartOf(w) .. EndOf(w) \in SUBSET Summands
    <3>1. StartOf(w) .. EndOf(w) \in SUBSET (First .. Last)
      BY <2>4, <2>5
    <3> QED
      BY <2>5, <3>1
  <2>7. SumFunctionOnSet(Element, StartOf(w) .. EndOf(w)) \in Int
    BY <2>5, <2>6, SumType
  <2> QED
    BY <2>3, <2>7
<1> HIDE DEF s
<1>3. /\ l \in ThreadPc /\ pc' \in Seq(ThreadPc) /\ Len(pc') = n /\ pc'[w] = l
      /\ \A v \in 1 .. n : v # w => pc'[v] = pc[v]
  BY <1>0, <1>1 DEF ThreadPc
<1>4. /\ partial' \in Seq(Int) /\ Len(partial') = n /\ partial'[w] = s
      /\ \A v \in 1 .. n : v # w => partial'[v] = partial[v]
  BY <1>0, <1>1, <1>2
<1>5. SizeOK' /\ ThreadsOK'
  BY <1>0, <1>1, <1>3, <1>4 DEF CoreInv, SizeOK, ThreadsOK, Multi
<1>6. PartialOK'
  <2> SUFFICES ASSUME NEW v \in 1 .. n, pc'[v] \notin {"sum", "missing"}
               PROVE  partial'[v] = SumFunctionOnSet(Element', range'[v].start .. range'[v].end)
    BY <1>3 DEF PartialOK, SumFromTo
  <2>1. Element' = Element /\ range' = range
    BY <1>1 DEF Element
  <2>2. CASE v = w
    BY <1>4, <2>1, <2>2 DEF s
  <2>3. CASE v # w
    BY <1>3, <1>4, <2>1, <2>3 DEF CoreInv, PartialOK, SumFromTo
  <2> QED
    BY <2>2, <2>3
<1>7. MutexOK'
  <2> SUFFICES ASSUME NEW v \in 1 .. n
               PROVE  /\ Multi' => pc'[v] \in {"sum", "done", "missing"}
                      /\ pc'[v] = "add" => mutex' = v /\ seen' = total'
    BY <1>3 DEF MutexOK
  <2>1. CASE v = w
    BY <1>1, <1>3, <2>1 DEF Multi
  <2>2. CASE v # w
    BY <1>1, <1>3, <2>2 DEF CoreInv, MutexOK, Multi
  <2> QED
    BY <2>1, <2>2
<1>8. TotalOK'
  <2> SUFFICES ASSUME ~Multi PROVE total = SumFunctionOnSet(partial', Added')
    BY <1>1 DEF TotalOK, Multi
  <2>1. Added' = Added /\ Added \subseteq 1 .. n /\ w \notin Added
    BY <1>0, <1>1, <1>3 DEF Added
  <2>2. IsFiniteSet(Added)
    <3>1. IsFiniteSet(1 .. n)
      BY <1>0, FS_Interval
    <3> QED
      BY <2>1, <3>1, FS_Subset
  <2>3. SumFunctionOnSet(partial, Added) = SumFunctionOnSet(partial', Added)
    <3>1. \A v \in Added : partial[v] = partial'[v]
      BY <1>4, <2>1
    <3> QED
      BY <2>2, <3>1, SumSame
  <2> QED
    BY <2>1, <2>3 DEF CoreInv, TotalOK
<1> QED
  BY <1>5, <1>6, <1>7, <1>8 DEF CoreInv

LEMMA LockTotalCore ==
  ASSUME CoreInv, NEW w \in DOMAIN pc, LockTotal(w)
  PROVE  CoreInv'
<1> DEFINE n == Len(pc)
<1>0. /\ pc \in Seq(ThreadPc) /\ total \in Int /\ n \in Nat /\ w \in 1 .. n
  BY DEF CoreInv, ThreadsOK
<1>1. /\ pc[w] = "lock" /\ mutex = 0 /\ mutex' = w /\ seen' = total
      /\ pc' = [pc EXCEPT ![w] = "add"]
      /\ UNCHANGED <<program, arrsz, range, partial, total>>
  BY DEF LockTotal, Goto
<1>2. /\ pc' \in Seq(ThreadPc) /\ Len(pc') = n /\ pc'[w] = "add"
      /\ \A v \in 1 .. n : v # w => pc'[v] = pc[v]
  BY <1>0, <1>1 DEF ThreadPc
<1>3. SizeOK' /\ ThreadsOK'
  BY <1>1, <1>2 DEF CoreInv, SizeOK, ThreadsOK, Multi
<1>4. PartialOK'
  <2>1. Element' = Element
    BY <1>1 DEF Element
  <2> QED
    BY <1>1, <1>2, <2>1 DEF CoreInv, PartialOK, SumFromTo
<1>5. MutexOK'
  <2> SUFFICES ASSUME NEW v \in 1 .. n
               PROVE  /\ Multi' => pc'[v] \in {"sum", "done", "missing"}
                      /\ pc'[v] = "add" => mutex' = v /\ seen' = total'
    BY <1>2 DEF MutexOK
  <2>1. CASE v = w
    BY <1>0, <1>1, <1>2, <2>1 DEF CoreInv, MutexOK, Multi
  <2>2. CASE v # w
    BY <1>0, <1>1, <1>2, <2>2 DEF CoreInv, MutexOK, Multi
  <2> QED
    BY <2>1, <2>2
<1>6. TotalOK'
  <2>1. Added' = Added
    BY <1>0, <1>1, <1>2 DEF Added
  <2> QED
    BY <1>1, <2>1 DEF CoreInv, TotalOK, Multi
<1> QED
  BY <1>3, <1>4, <1>5, <1>6 DEF CoreInv

LEMMA AddAndUnlockCore ==
  ASSUME CoreInv, NEW w \in DOMAIN pc, AddAndUnlock(w)
  PROVE  CoreInv'
<1> DEFINE n == Len(pc)
<1>0. /\ pc \in Seq(ThreadPc) /\ partial \in Seq(Int) /\ Len(partial) = n /\ total \in Int
      /\ n \in Nat /\ w \in 1 .. n
  BY DEF CoreInv, ThreadsOK
<1>1. /\ pc[w] = "add" /\ total' = seen + partial[w] /\ mutex' = 0 /\ seen' = 0
      /\ pc' = [pc EXCEPT ![w] = "done"]
      /\ UNCHANGED <<program, arrsz, range, partial>>
  BY DEF AddAndUnlock, Goto
<1>2. /\ pc' \in Seq(ThreadPc) /\ Len(pc') = n /\ pc'[w] = "done"
      /\ \A v \in 1 .. n : v # w => pc'[v] = pc[v]
  BY <1>0, <1>1 DEF ThreadPc
<1>3. seen = total /\ mutex = w /\ ~Multi /\ partial[w] \in Int
  <2>1. partial[w] \in Int
    BY <1>0
  <2>2. seen = total /\ mutex = w /\ (Multi => "add" \in {"sum", "done", "missing"})
    BY Zenon, <1>0, <1>1 DEF CoreInv, MutexOK
  <2> QED
    BY <2>1, <2>2
<1>4. SizeOK' /\ ThreadsOK'
  BY <1>0, <1>1, <1>2, <1>3 DEF CoreInv, SizeOK, ThreadsOK, Multi
<1>5. PartialOK'
  <2>1. Element' = Element
    BY <1>1 DEF Element
  <2> QED
    BY <1>1, <1>2, <2>1 DEF CoreInv, PartialOK, SumFromTo
<1>6. MutexOK'
  <2> SUFFICES ASSUME NEW v \in 1 .. n
               PROVE  /\ Multi' => pc'[v] \in {"sum", "done", "missing"}
                      /\ pc'[v] = "add" => mutex' = v /\ seen' = total'
    BY <1>2 DEF MutexOK
  <2>1. CASE v = w
    BY <1>2, <2>1
  <2>2. CASE v # w
    BY <1>1, <1>2, <1>3, <2>2 DEF CoreInv, MutexOK, Multi
  <2> QED
    BY <2>1, <2>2
<1>7. TotalOK'
  <2> DEFINE A == Added
             D == 1 .. n
  <2>1. /\ Added' = A \cup {w} /\ A \in SUBSET D /\ w \in D /\ w \notin A
    BY <1>0, <1>1, <1>2 DEF Added
  <2>2. IsFiniteSet(D) /\ partial \in [D -> Int]
    <3>1. IsFiniteSet(1 .. n)
      BY <1>0, FS_Interval
    <3> QED
      BY <1>0, <3>1
  <2>3. total = SumFunctionOnSet(partial, A)
    BY <1>3 DEF CoreInv, TotalOK
  <2> HIDE DEF A, D
  <2>4. SumFunctionOnSet(partial, A \cup {w}) = partial[w] + SumFunctionOnSet(partial, A)
    BY <2>1, <2>2, SumInsert
  <2>5. total' = partial[w] + total
    BY <1>0, <1>1, <1>3
  <2>6. total' = SumFunctionOnSet(partial', Added')
    BY <1>1, <2>1, <2>3, <2>4, <2>5
  <2> QED
    BY <2>6 DEF TotalOK
<1> QED
  BY <1>4, <1>5, <1>6, <1>7 DEF CoreInv

(* The steps of main. *)
LEMMA ReadArgsCore ==
  ASSUME IndInv, CoreInv, ReadArgs
  PROVE  CoreInv'
<1>0. /\ range = <<>> /\ UNCHANGED <<program, range, pc, partial, mutex, total, seen>>
      /\ arrsz' = Elements /\ Elements \in Int /\ ArgCountOK
  BY ArgumentsAreNumbers DEF ReadArgs, IndInv, SizesInv, threadVars
<1>1. Len(pc) = 0 /\ pc \in Seq(ThreadPc)
  BY <1>0 DEF CoreInv, ThreadsOK
<1>2. SizeOK'
  <2> SUFFICES ASSUME ~Multi PROVE Elements <= IntMax
    BY <1>0 DEF SizeOK, Multi
  <2>1. Elements = atoi(args[1])
    BY DEF Elements, Multi
  <2>2. args[1] \in Int \cup {NaN}
    <3> DEFINE A == Int \cup {NaN}
    <3>1. args \in Seq(A) /\ Len(args) \in Nat
      BY DEF IndInv, TypeInv
    <3> HIDE DEF A
    <3>2. Len(args) >= 1
      <4>1. Len(args) >= 2 \/ Len(args) = 2 \/ Len(args) = 3
        BY <1>0, Zenon DEF ArgCountOK
      <4> QED
        BY <3>1, <4>1
    <3>3. args[1] \in A
      BY <3>1, <3>2
    <3> QED
      BY <3>3 DEF A
  <2>3. \A a \in Int \cup {NaN} : atoi(a) <= IntMax
    BY ToIntAtMost, RangeSumAssumption DEF atoi
  <2> QED
    BY <2>1, <2>2, <2>3
<1>3. ThreadsOK' /\ PartialOK' /\ MutexOK'
  BY <1>0, <1>1 DEF CoreInv, ThreadsOK, PartialOK, MutexOK
<1>4. TotalOK'
  BY <1>0 DEF CoreInv, TotalOK, Added, Multi
<1> QED
  BY <1>2, <1>3, <1>4 DEF CoreInv

LEMMA SplitCore ==
  ASSUME IndInv, CoreInv, Split
  PROVE  CoreInv'
<1>0. /\ UNCHANGED <<program, arrsz>> /\ range' = Append(range, NextRange)
      /\ UNCHANGED threadVars \/ CreateThread
  BY DEF Split
<1>1. range \in Seq(Ranges) /\ Len(range) \in Nat /\ Len(pc) \in Nat /\ Len(pc) <= Len(range)
  BY DEF IndInv, TypeInv, CoreInv, ThreadsOK
<1>2. NextRange \in Ranges
  BY NextRangeIsNext DEF IndInv, Split
<1>3. /\ Len(range') = Len(range) + 1 /\ \A w \in 1 .. Len(range) : range'[w] = range[w]
  BY <1>0, <1>1, <1>2
<1>4. /\ Len(range') >= Len(pc) + 1 /\ Len(range') >= Len(pc)
      /\ \A w \in 1 .. Len(pc) : range'[w] = range[w]
  BY <1>1, <1>3
<1> QED
  BY <1>0, <1>4, CoreFrame, CreateThreadCore DEF threadVars

LEMMA CreateCore ==
  ASSUME IndInv, CoreInv, Create
  PROVE  CoreInv'
<1>1. /\ CreateThread /\ UNCHANGED <<program, arrsz, range>> /\ Len(pc) < tnum /\ Len(range) = tnum
  BY DEF Create, IndInv, SizesInv, Splitting
<1>2. Len(pc) \in Nat /\ tnum \in Nat
  BY DEF IndInv, TypeInv, CoreInv, ThreadsOK
<1> QED
  BY <1>1, <1>2, CreateThreadCore

(* The joins and the report. *)
LEMMA ReportCore ==
  ASSUME IndInv, SumInv, Report
  PROVE  CoreInv' /\ EndInv'
<1>0. /\ main = "joined" /\ main' \in Answered /\ main' \in Final /\ total \in Int
      /\ UNCHANGED <<program, arrsz, tnum, range, pc, partial, mutex, seen, child, validsum>>
      /\ program = "aggsum" => child = "exited"
  BY DEF Report, childVars, SumInv, ThreadsOK, Final, Answered
<1>1. Len(pc) = tnum /\ Len(range) = tnum /\ tnum > 0 /\ AllDone
  BY <1>0 DEF SumInv, FinalOK, Final
<1>2. /\ SumFunctionOnSet(partial, Added) = SumFunctionOnSet(Element, Covered)
      /\ SumFunctionOnSet(partial, Added) \in Int
      /\ SumFunctionOnSet(partial, 1 .. tnum) =
           SumFunctionOnSet(partial, Added) + SumFunctionOnSet(partial, Missing)
      /\ SumFunctionOnSet(partial, Missing) \in Int
      /\ Missing = {} => SumFunctionOnSet(partial, 1 .. tnum) = verify_sum
      /\ Missing = {} => Added = 1 .. tnum
  BY <1>1, PartialsMakeTheSum
<1>3. /\ Multi => total' = SumFunctionOnSet(partial, 1 .. tnum)
      /\ ~Multi => total' = total /\ total = SumFunctionOnSet(partial, Added)
  BY DEF Report, Combined, Multi, SumInv, TotalOK
<1>4. /\ Multi => Leftover = SumFunctionOnSet(partial, Missing)
      /\ ~Multi => Leftover = 0
  BY DEF Leftover, Multi
<1>5. total' = SumFunctionOnSet(Element, Covered) + Leftover /\ total' \in Int
  <2>1. CASE Multi
    BY <1>2, <1>3, <1>4, <2>1
  <2>2. CASE ~Multi
    BY <1>2, <1>3, <1>4, <2>2
  <2> QED
    BY <2>1, <2>2
<1>6. SizeOK' /\ ThreadsOK' /\ PartialOK'
  <2>1. Element' = Element
    BY <1>0 DEF Element
  <2> QED
    BY <1>0, <1>5, <2>1 DEF SumInv, SizeOK, ThreadsOK, PartialOK, SumFromTo, Multi
<1>7. MutexOK'
  <2>1. pc \in Seq(ThreadPc)
    BY DEF SumInv, ThreadsOK
  <2>2. \A w \in 1 .. Len(pc) : pc[w] \in {"done", "missing"}
    BY <1>1, <2>1 DEF AllDone
  <2> QED
    BY <1>0, <2>2 DEF MutexOK
<1>8. TotalOK'
  BY <1>0, <1>3 DEF SumInv, TotalOK, Added, Multi
<1>9. FinalOK' /\ AllDone'
  BY <1>0, <1>1 DEF FinalOK, AllDone
<1>10. verify_sum' = verify_sum
  BY <1>0, SumsUnchanged
<1>11. ASSUME Missing = {} PROVE main' # "mismatch" /\ total' = verify_sum
  <2>1. total' = verify_sum /\ (~Multi => total = verify_sum)
    BY <1>2, <1>3, <1>11
  <2> QED
    BY <2>1 DEF Report, Multi
<1>12. AnswerOK'
  <2>1. /\ Missing' = Missing /\ Leftover' = Leftover
        /\ SumFunctionOnSet(Element, Covered)' = SumFunctionOnSet(Element, Covered)
    BY <1>0, CoverUnchanged
  <2> QED
    BY <1>5, <1>10, <1>11, <2>1 DEF AnswerOK
<1>13. ChildOK'
  BY <1>0, <1>10 DEF SumInv, ChildOK, Final, Answered
<1> QED
  BY <1>6, <1>7, <1>8, <1>9, <1>12, <1>13 DEF CoreInv, EndInv

LEMMA CoreNext ==
  ASSUME IndInv, SumInv, [Next]_vars
  PROVE  CoreInv'
<1>0. CoreInv /\ Len(pc) <= Len(range) /\ Len(range) \in Nat /\ Len(pc) \in Nat
  BY SumInvParts DEF CoreInv, ThreadsOK, IndInv, TypeInv
<1>1. CASE \/ BadArgCount \/ BadArgs \/ Allocate \/ SplitDone \/ Fork \/ Join \/ JoinFaults
           \/ ValidateSum \/ UNCHANGED vars
  <2>1. UNCHANGED <<program, arrsz, range, pc, partial, mutex, total, seen>>
    BY <1>1 DEF BadArgCount, BadArgs, Allocate, SplitDone, Fork, Join, JoinFaults, ValidateSum, vars,
       threadVars
  <2> QED
    BY <1>0, <2>1, CoreFrame
<1>2. CASE ReadArgs
  BY <1>0, <1>2, ReadArgsCore
<1>3. CASE Split
  BY <1>0, <1>3, SplitCore
<1>4. CASE Create
  BY <1>0, <1>4, CreateCore
<1>5. CASE Report
  BY <1>5, ReportCore
<1>6. CASE main # "fault" /\ \E w \in DOMAIN pc : ThreadStep(w)
  BY <1>0, <1>6, SumRangeCore, LockTotalCore, AddAndUnlockCore DEF ThreadStep
<1> QED
  BY <1>1, <1>2, <1>3, <1>4, <1>5, <1>6 DEF Next, MainStep

LEMMA EndNext ==
  ASSUME IndInv, SumInv, [Next]_vars
  PROVE  EndInv'
<1>0. FinalOK /\ AnswerOK /\ ChildOK
  BY DEF SumInv
<1>1. CASE BadArgCount \/ BadArgs \/ Allocate \/ SplitDone \/ Fork \/ JoinFaults
  <2>1. /\ UNCHANGED <<program, arrsz, total, validsum>> /\ main' \notin Final
        /\ child' = child \/ child' = "running"
        /\ main' \in {"args", "allocate", "split"} => child' = child /\ main \in {"args", "allocate", "split"}
    BY <1>1 DEF BadArgCount, BadArgs, Allocate, SplitDone, Fork, JoinFaults, Final, threadVars, childVars
  <2> QED
    BY <1>0, <2>1, SumsUnchanged DEF EndInv, FinalOK, AnswerOK, ChildOK, Final, Answered
<1>2. CASE ReadArgs
  BY <1>0, <1>2 DEF ReadArgs, EndInv, FinalOK, AnswerOK, ChildOK, Final, Answered, childVars
<1>3. CASE Split \/ Create
  <2>1. /\ UNCHANGED <<program, arrsz, main, child, validsum>> /\ main \notin Final
    BY <1>3 DEF Split, Create, Final, childVars
  <2> QED
    BY <1>0, <2>1, SumsUnchanged DEF EndInv, FinalOK, AnswerOK, ChildOK, Final, Answered
<1>4. CASE Join
  <2>1. /\ UNCHANGED <<program, arrsz, tnum, range, pc, child, validsum>>
        /\ main \in {"create", "join"} /\ main' = "joined" /\ Len(pc) = tnum /\ AllDone
    BY <1>4 DEF Join, childVars, threadVars
  <2>2. Len(range) = tnum /\ tnum > 0
    BY <2>1 DEF IndInv, SizesInv, Splitting
  <2>3. FinalOK'
    BY <2>1, <2>2 DEF FinalOK, AllDone
  <2>4. AnswerOK' /\ ChildOK'
    BY <1>0, <2>1, SumsUnchanged, CoverUnchanged DEF AnswerOK, ChildOK, Answered
  <2> QED
    BY <2>3, <2>4 DEF EndInv
<1>5. CASE Report
  BY <1>5, ReportCore
<1>6. ASSUME NEW w \in DOMAIN pc, ThreadStep(w) PROVE EndInv'
  <2>1. /\ UNCHANGED <<program, arrsz, main, child, validsum>> /\ pc[w] \notin {"done", "missing"}
    BY <1>6 DEF ThreadStep, SumRange, LockTotal, AddAndUnlock, childVars
  <2>2. main \notin Final
    BY <1>0, <2>1 DEF FinalOK, AllDone
  <2> QED
    BY <1>0, <2>1, <2>2, SumsUnchanged DEF EndInv, FinalOK, AnswerOK, ChildOK, Final, Answered
<1>7. CASE ValidateSum
  <2>1. /\ UNCHANGED <<program, arrsz, tnum, range, pc, partial, main, total>>
        /\ child = "running" /\ child' = "exited" /\ validsum' = verify_sum
    BY <1>7 DEF ValidateSum, threadVars
  <2>2. FinalOK'
    BY <1>0, <2>1 DEF FinalOK, AllDone
  <2>3. AnswerOK' /\ ChildOK'
    BY <1>0, <2>1, SumsUnchanged, CoverUnchanged DEF AnswerOK, ChildOK, Answered
  <2> QED
    BY <2>2, <2>3 DEF EndInv
<1>8. CASE UNCHANGED vars
  <2>1. UNCHANGED <<program, arrsz, tnum, range, pc, partial, main, total, child, validsum>>
    BY <1>8 DEF vars, threadVars, childVars
  <2>2. FinalOK'
    BY <1>0, <2>1 DEF FinalOK, AllDone
  <2>3. AnswerOK' /\ ChildOK'
    BY <1>0, <2>1, SumsUnchanged, CoverUnchanged DEF AnswerOK, ChildOK, Answered
  <2> QED
    BY <2>2, <2>3 DEF EndInv
<1> QED
  BY <1>1, <1>2, <1>3, <1>4, <1>5, <1>6, <1>7, <1>8 DEF Next, MainStep

LEMMA SumNext ==
  ASSUME IndInv, SumInv, [Next]_vars
  PROVE  SumInv'
<1>1. CoreInv' /\ EndInv'
  BY CoreNext, EndNext
<1> QED
  BY <1>1 DEF SumInv, CoreInv, EndInv

(* For every array, every number of elements and of threads, every choice  *)
(* of the threads that cannot be created and every order in which the      *)
(* others add, each total that is printed is the sum of the elements of    *)
(* the threads there are, and of what the cells of the missing ones held   *)
(* (aggregated_sum.c:123, sum_multi_thread.c:51).  If none is missing it   *)
(* is the sum of all elements: the second sum of aggregated_sum never      *)
(* differs (aggregated_sum.c:139), aggsum's child finds what its threads   *)
(* find (ex2aggsum/main.c:124), and the cells of sum_multi_thread add up   *)
(* (sum_multi_thread.c:60).                                                *)
THEOREM TotalsAlwaysAgree == Spec => []TotalsAgree
<1>1. SumInv => TotalsAgree
  BY DEF SumInv, AnswerOK, ChildOK, TotalsAgree, Answered
<1>2. Spec => [](IndInv /\ SumInv)
  BY InitInd, NextInd, SumInit, SumNext, PTL DEF Spec
<1> QED
  BY <1>1, <1>2, PTL
=============================================================================
