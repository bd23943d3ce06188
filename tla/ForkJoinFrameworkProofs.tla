---------------------- MODULE ForkJoinFrameworkProofs ----------------------
(***************************************************************************)
(* The safety of ForkJoinFramework for every size of the array.            *)
(*                                                                         *)
(* What a thread still has to join exists and is not done before it says   *)
(* so.  That a range is forked by one thread only is a fact about          *)
(* intervals: the ranges of the tasks that exist are nested in one half of *)
(* the other or lie apart, and one that lies in a half was forked after    *)
(* that half was.                                                          *)
(***************************************************************************)
EXTENDS ForkJoinFramework, SumTheorems, TLAPS

AllPc == Pc \cup {"joined", "exited", "crashed"}
Parenting == {"fork1", "fork2", "join1", "asleep1", "join2", "asleep2"}
Finished == {"unlock", "return", "ended"}

Exists(t) == pc[t] # "none"

(* Only a task of more than one element forks. *)
SplitOK == \A t \in Task : pc[t] \in Parenting => ~IsLeaf(t)

(* Nobody joins a task that was not forked. *)
JoinedExist == \A th \in Thread, t \in Task : WillJoin(th, t) => Exists(t)

(* The flag is set by the task alone. *)
CompletedOK == \A t \in Task : Exists(t) /\ completed[t] => pc[t] \in Finished

ResultOK == \A t \in Task : pc[t] \in Finished \cup {"complete"} => result[t] \in Int

ControlInv == /\ pc \in [Thread -> AllPc]
              /\ TypeOK /\ SplitOK /\ JoinedExist /\ CompletedOK /\ ResultOK
              /\ NoSleeperOnCompleted

-----------------------------------------------------------------------------
(* Ranges *)

Inside(t, u) == u[1] <= t[1] /\ t[2] <= u[2]
Apart(t, u) == t[2] < u[1] \/ u[2] < t[1]
Below(t, u) == ~IsLeaf(u) /\ (Inside(t, First(u)) \/ Inside(t, Second(u)))
Laminar(t, u) == t = u \/ Apart(t, u) \/ Below(t, u) \/ Below(u, t)

NoFirstYet == {"none", "missing", "start", "fork1"}
NoSecondYet == NoFirstYet \cup {"fork2"}

TreeInv ==
  /\ \A t, u \in Task : Exists(t) /\ Exists(u) => Laminar(t, u)
  /\ \A t, u \in Task : Exists(t) /\ Exists(u) /\ ~IsLeaf(u) =>
       /\ Inside(t, First(u)) => pc[u] \notin NoFirstYet
       /\ Inside(t, Second(u)) => pc[u] \notin NoSecondYet
  /\ pc[Main] = "fork1" => \A t \in Task : ~Exists(t)

IndInv == ControlInv /\ TreeInv /\ FramesOutliveTasks

LEMMA MainIsNoTask == Main \notin Task /\ Root \in Task
BY FrameworkAssumption DEF Task, Root

LEMMA TaskRange ==
  ASSUME NEW t \in Task
  PROVE  t[1] \in Int /\ t[2] \in Int /\ t[1] <= t[2] /\ t = <<t[1], t[2]>>
BY FrameworkAssumption DEF Task

LEMMA Middle ==
  ASSUME NEW l \in Int, NEW r \in Int, l < r
  PROVE  /\ (l + r) \div 2 \in Int
         /\ l <= (l + r) \div 2 /\ (l + r) \div 2 < r
OBVIOUS

LEMMA HalvesAre ==
  ASSUME NEW t \in Task, ~IsLeaf(t)
  PROVE  /\ First(t) \in Task /\ Second(t) \in Task
         /\ \E m \in Int : /\ t[1] <= m /\ m < t[2]
                           /\ First(t)[1] = t[1] /\ First(t)[2] = m
                           /\ Second(t)[1] = m + 1 /\ Second(t)[2] = t[2]
<1>1. t[1] \in Int /\ t[2] \in Int /\ t[1] < t[2]
  BY TaskRange DEF IsLeaf
<1>2. PICK m \in Int : m = (t[1] + t[2]) \div 2 /\ t[1] <= m /\ m < t[2]
  BY <1>1, Middle
<1>3. First(t) = <<t[1], m>> /\ Second(t) = <<m + 1, t[2]>>
  BY <1>2, MainIsNoTask DEF First, Second, Halves
<1>4. <<t[1], m>> \in Task /\ <<m + 1, t[2]>> \in Task
  BY <1>1, <1>2, FrameworkAssumption DEF Task
<1> QED
  BY <1>2, <1>3, <1>4

(* A new half is laminar with whatever its whole is laminar with, unless   *)
(* that lies inside the half.                                              *)
LEMMA NewHalf ==
  ASSUME NEW u \in Task, ~IsLeaf(u), NEW t \in {First(u), Second(u)},
         NEW v \in Task, Laminar(v, u), ~Inside(v, t)
  PROVE  /\ Laminar(t, v) /\ Laminar(v, t)
         /\ ~IsLeaf(v) /\ v # u /\ Inside(t, First(v)) => Inside(u, First(v))
         /\ ~IsLeaf(v) /\ v # u /\ Inside(t, Second(v)) => Inside(u, Second(v))
<1>1. PICK m \in Int : /\ u[1] <= m /\ m < u[2]
                       /\ First(u)[1] = u[1] /\ First(u)[2] = m
                       /\ Second(u)[1] = m + 1 /\ Second(u)[2] = u[2]
  BY HalvesAre
<1>2. u[1] \in Int /\ u[2] \in Int /\ v[1] \in Int /\ v[2] \in Int /\ v[1] <= v[2]
  BY TaskRange
<1>3. CASE IsLeaf(v)
  BY <1>1, <1>2, <1>3 DEF Laminar, Apart, Below, Inside, IsLeaf
<1>4. CASE ~IsLeaf(v)
  <2>1. PICK k \in Int : /\ v[1] <= k /\ k < v[2]
                         /\ First(v)[1] = v[1] /\ First(v)[2] = k
                         /\ Second(v)[1] = k + 1 /\ Second(v)[2] = v[2]
    BY <1>4, HalvesAre
  <2> QED
    BY <1>1, <1>2, <1>4, <2>1 DEF Laminar, Apart, Below, Inside
<1> QED
  BY <1>3, <1>4

LEMMA HalvesAreApart ==
  ASSUME NEW u \in Task, ~IsLeaf(u)
  PROVE  /\ ~Inside(First(u), Second(u)) /\ ~Inside(Second(u), First(u))
         /\ ~Inside(u, First(u)) /\ ~Inside(u, Second(u))
         /\ \A v \in Task : /\ Inside(v, First(u)) => Inside(v, u)
                            /\ Inside(v, Second(u)) => Inside(v, u)
         /\ First(u) # u /\ Second(u) # u /\ Laminar(First(u), u) /\ Laminar(Second(u), u)
         /\ Laminar(u, First(u)) /\ Laminar(u, Second(u))
<1>1. PICK m \in Int : /\ u[1] <= m /\ m < u[2]
                       /\ First(u)[1] = u[1] /\ First(u)[2] = m
                       /\ Second(u)[1] = m + 1 /\ Second(u)[2] = u[2]
  BY HalvesAre
<1>2. u[1] \in Int /\ u[2] \in Int /\ \A v \in Task : v[1] \in Int /\ v[2] \in Int
  BY TaskRange
<1>3. /\ ~Inside(First(u), Second(u)) /\ ~Inside(Second(u), First(u))
      /\ ~Inside(u, First(u)) /\ ~Inside(u, Second(u))
      /\ Inside(First(u), First(u)) /\ Inside(Second(u), Second(u))
  BY <1>1, <1>2 DEF Inside
<1>4. \A v \in Task : /\ Inside(v, First(u)) => Inside(v, u)
                      /\ Inside(v, Second(u)) => Inside(v, u)
  BY <1>1, <1>2 DEF Inside
<1> QED
  BY <1>3, <1>4 DEF Laminar, Below

-----------------------------------------------------------------------------
(* What the steps do to the labels *)

LEMMA ForkEffect ==
  ASSUME NEW th \in Thread, NEW t \in Task, th # t, NEW next \in AllPc,
         pc \in [Thread -> AllPc], Fork(th, t, next)
  PROVE  /\ pc' \in [Thread -> AllPc] /\ pc'[th] = next /\ pc'[t] \in {"start", "missing"}
         /\ \A x \in Thread : x # th /\ x # t => pc'[x] = pc[x]
<1>1. PICK start \in {"start", "missing"} : pc' = [pc EXCEPT ![th] = next, ![t] = start]
  BY DEF Fork
<1>2. t \in Thread /\ start \in AllPc
  BY DEF Thread, AllPc, Pc
<1> QED
  BY <1>1, <1>2

LEMMA WakeEffect ==
  ASSUME NEW t \in Task, pc \in [Thread -> AllPc]
  PROVE  /\ Wake(t) \in [Thread -> AllPc]
         /\ \A th \in Thread :
              /\ Joins(th, t) /\ pc[th] \in JoinsFirst => Wake(t)[th] = "join1"
              /\ Joins(th, t) /\ pc[th] \in JoinsSecond => Wake(t)[th] = "join2"
              /\ ~Joins(th, t) => Wake(t)[th] = pc[th]
BY DEF Wake, Joins, JoinsFirst, JoinsSecond, AllPc, Pc

(* Wake changes nothing but sleep: who joins or will join what stays.      *)
LEMMA WakeKeeps ==
  ASSUME NEW t \in Task, pc \in [Thread -> AllPc], NEW th \in Thread
  PROVE  /\ Wake(t)[th] \in JoinsFirst <=> pc[th] \in JoinsFirst
         /\ Wake(t)[th] \in JoinsSecond <=> pc[th] \in JoinsSecond
         /\ \A x \in AllPc \ (JoinsFirst \cup JoinsSecond) : Wake(t)[th] = x <=> pc[th] = x
         /\ Wake(t)[th] \in {"asleep1", "asleep2"} => Wake(t)[th] = pc[th] /\ ~Joins(th, t)
BY WakeEffect DEF Joins, JoinsFirst, JoinsSecond, AllPc, Pc

-----------------------------------------------------------------------------
(* Control *)

LEMMA ControlInit == Init => ControlInv
<1> SUFFICES ASSUME Init PROVE ControlInv
  OBVIOUS
<1>1. /\ pc[Main] = "fork1" /\ \A t \in Task : pc[t] = "none" /\ t # Main
      /\ pc \in [Thread -> AllPc]
  BY MainIsNoTask DEF Init, Thread, AllPc, Pc
<1>2. completed \in [Task -> BOOLEAN]
  BY DEF Init
<1>3. \A th \in Thread : pc[th] \in {"none", "fork1"}
  BY <1>1 DEF Thread
<1>4. \A th \in Thread, t \in Task : ~WillJoin(th, t) /\ ~(pc[th] \in {"asleep1", "asleep2"})
  BY <1>3 DEF WillJoin, Joins, JoinsFirst, JoinsSecond
<1>5. TypeOK
  BY <1>1, <1>2, <1>3 DEF Init, TypeOK, Pc, JoinsSecond
<1> QED
  BY <1>1, <1>4, <1>5 DEF ControlInv, SplitOK, JoinedExist, CompletedOK, Exists, ResultOK, Parenting,
     Finished, NoSleeperOnCompleted

LEMMA ForkKeepsControl ==
  ASSUME ControlInv, NEW th \in Thread, NEW t \in Task, th # t, NEW next \in {"fork2", "join1"},
         pc[th] \in {"fork1", "fork2"}, next = "fork2" => th # Main,
         \A x \in Task : /\ next = "fork2" /\ x = First(th) => x = t
                         /\ next = "join1" /\ th # Main /\ x = First(th) => (Exists(x) \/ x = t)
                         /\ next = "join1" /\ th # Main /\ x = Second(th) => x = t
                         /\ th = Main /\ x = First(th) => x = t,
         Fork(th, t, next)
  PROVE  ControlInv'
<1>0. next \in AllPc /\ t \in Thread /\ t # Main
  BY MainIsNoTask DEF AllPc, Pc, Thread
<1>1. /\ pc' \in [Thread -> AllPc] /\ pc'[th] = next /\ pc'[t] \in {"start", "missing"}
      /\ \A x \in Thread : x # th /\ x # t => pc'[x] = pc[x]
  BY <1>0, ForkEffect DEF ControlInv
<1>2. /\ completed' = [completed EXCEPT ![t] = FALSE] /\ completed \in [Task -> BOOLEAN]
      /\ UNCHANGED <<result, v1, res>>
  BY DEF Fork, ControlInv, TypeOK
<1>3. \A x \in Task : x \in Thread
  BY DEF Thread
<1>4. TypeOK'
  <2>1. \A x \in Task : pc'[x] \in Pc
    BY <1>1, <1>3 DEF ControlInv, TypeOK, Pc
  <2>2. pc'[Main] \in {"fork1", "join1", "asleep1", "joined", "exited", "crashed"}
    BY <1>0, <1>1 DEF ControlInv, TypeOK, Thread
  <2>3. \A x \in Thread : pc'[x] \in JoinsSecond \cup {"joined"} => v1'[x] \in Int
    BY <1>1, <1>2 DEF ControlInv, TypeOK, JoinsSecond
  <2>4. \A x \in Task : pc'[x] = "store" => res'[x] \in Int
    BY <1>1, <1>2, <1>3 DEF ControlInv, TypeOK
  <2> QED
    BY <1>2, <2>1, <2>2, <2>3, <2>4 DEF ControlInv, TypeOK
<1>5. SplitOK'
  BY <1>1, <1>3 DEF ControlInv, SplitOK, Parenting
<1>6. \A x \in Task : Exists(x)' <=> Exists(x) \/ x = t
  BY <1>1, <1>3 DEF Exists
<1>7. JoinedExist'
  <2> SUFFICES ASSUME NEW y \in Thread, NEW x \in Task, WillJoin(y, x)' PROVE Exists(x)'
    BY DEF JoinedExist
  <2>1. y # t
    BY <1>1 DEF WillJoin, Joins, JoinsFirst, JoinsSecond
  <2>2. CASE y = th
    <3>1. CASE next = "fork2"
      BY <1>1, <1>6, <2>2, <3>1 DEF WillJoin, Joins, JoinsFirst, JoinsSecond
    <3>2. CASE next = "join1"
      <4>1. x = First(th) \/ (th # Main /\ x = Second(th))
        BY <1>1, <2>2, <3>2 DEF WillJoin, Joins, JoinsFirst, JoinsSecond
      <4> QED
        BY <1>6, <3>2, <4>1
    <3> QED
      BY <3>1, <3>2
  <2>3. CASE y # th
    <3>1. WillJoin(y, x)
      BY <1>1, <2>1, <2>3 DEF WillJoin, Joins
    <3> QED
      BY <1>6, <3>1 DEF ControlInv, JoinedExist
  <2> QED
    BY <2>2, <2>3
<1>8. CompletedOK' /\ ResultOK'
  BY <1>1, <1>2, <1>3, <1>6 DEF ControlInv, CompletedOK, ResultOK, Finished
<1>9. NoSleeperOnCompleted'
  BY <1>1, <1>2 DEF ControlInv, NoSleeperOnCompleted, Joins
<1> QED
  BY <1>1, <1>4, <1>5, <1>7, <1>8, <1>9 DEF ControlInv

LEMMA ForkFirstKeepsControl ==
  ASSUME ControlInv, NEW th \in Thread, ForkFirst(th) PROVE ControlInv'
<1>1. CASE th = Main
  <2>1. First(th) = Root /\ Fork(th, Root, "join1") /\ th # Root /\ Root \in Task
    BY <1>1, MainIsNoTask DEF ForkFirst, First
  <2> QED
    BY <1>1, <2>1, ForkKeepsControl DEF ForkFirst
<1>2. CASE th # Main
  <2>1. th \in Task /\ ~IsLeaf(th)
    BY <1>2 DEF Thread, ForkFirst, ControlInv, SplitOK, Parenting
  <2>2. First(th) \in Task /\ First(th) # th /\ Fork(th, First(th), "fork2")
    BY <1>2, <2>1, HalvesAre, HalvesAreApart DEF ForkFirst
  <2> QED
    BY <1>2, <2>2, ForkKeepsControl DEF ForkFirst
<1> QED
  BY <1>1, <1>2

LEMMA ForkSecondKeepsControl ==
  ASSUME ControlInv, NEW th \in Task, ForkSecond(th) PROVE ControlInv'
<1>1. th \in Thread /\ th # Main /\ ~IsLeaf(th)
  BY MainIsNoTask DEF Thread, ForkSecond, ControlInv, SplitOK, Parenting
<1>2. Second(th) \in Task /\ Second(th) # th /\ Fork(th, Second(th), "join1")
  BY <1>1, HalvesAre, HalvesAreApart DEF ForkSecond
<1>3. \A x \in Task : x = First(th) => Exists(x)
  BY <1>1 DEF ForkSecond, ControlInv, JoinedExist, WillJoin
<1> QED
  BY <1>1, <1>2, <1>3, ForkKeepsControl DEF ForkSecond

(* One thread moves on and leaves the flags alone. *)
LEMMA MoveKeepsControl ==
  ASSUME ControlInv, NEW th \in Thread, NEW next \in AllPc \ {"none"},
         pc' = [pc EXCEPT ![th] = next], UNCHANGED completed, pc[th] # "none",
         th \in Task => next \in Pc,
         th = Main => next \in {"fork1", "join1", "asleep1", "joined", "exited", "crashed"},
         result' \in [Task -> Int \cup {NoValue}],
         v1' \in [Thread -> Int \cup {NoValue}], res' \in [Thread -> Int \cup {NoValue}],
         \A x \in Thread \ {th} : v1'[x] = v1[x] /\ res'[x] = res[x],
         \A x \in Task \ {th} : result'[x] = result[x],
         next \in JoinsSecond \cup {"joined"} => v1'[th] \in Int,
         th \in Task /\ next = "store" => res'[th] \in Int,
         th \in Task /\ next \in Parenting => ~IsLeaf(th),
         \A t \in Task : WillJoin(th, t)' => Exists(t),
         th \in Task /\ completed[th] => next \in Finished,
         th \in Task /\ next \in Finished \cup {"complete"} => result'[th] \in Int,
         \A t \in Task : next \in {"asleep1", "asleep2"} /\ Joins(th, t)' => ~completed[t]
  PROVE  ControlInv'
<1>1. /\ pc' \in [Thread -> AllPc] /\ pc'[th] = next
      /\ \A x \in Thread : x # th => pc'[x] = pc[x]
  BY DEF ControlInv
<1>2. \A x \in Task : x \in Thread
  BY DEF Thread
<1>3. TypeOK'
  <2>1. \A x \in Task : pc'[x] \in Pc
    BY <1>1, <1>2 DEF ControlInv, TypeOK
  <2>2. pc'[Main] \in {"fork1", "join1", "asleep1", "joined", "exited", "crashed"}
    BY <1>1 DEF ControlInv, TypeOK, Thread
  <2>3. \A x \in Thread : pc'[x] \in JoinsSecond \cup {"joined"} => v1'[x] \in Int
    BY <1>1 DEF ControlInv, TypeOK
  <2>4. \A x \in Task : pc'[x] = "store" => res'[x] \in Int
    BY <1>1, <1>2 DEF ControlInv, TypeOK
  <2> QED
    BY <2>1, <2>2, <2>3, <2>4 DEF ControlInv, TypeOK
<1>4. SplitOK'
  BY <1>1, <1>2 DEF ControlInv, SplitOK
<1>5. \A x \in Task : Exists(x)' <=> Exists(x)
  BY <1>1, <1>2 DEF Exists
<1>6. JoinedExist'
  <2> SUFFICES ASSUME NEW y \in Thread, NEW x \in Task, WillJoin(y, x)' PROVE Exists(x)
    BY <1>5 DEF JoinedExist
  <2>1. CASE y # th
    <3>1. WillJoin(y, x)
      BY <1>1, <2>1 DEF WillJoin, Joins
    <3> QED
      BY <3>1 DEF ControlInv, JoinedExist
  <2> QED
    BY <2>1
<1>7. CompletedOK'
  BY <1>1, <1>2, <1>5 DEF ControlInv, CompletedOK
<1>8. ResultOK'
  BY <1>1, <1>2 DEF ControlInv, ResultOK
<1>9. NoSleeperOnCompleted'
  <2> SUFFICES ASSUME NEW y \in Thread, NEW x \in Task, pc'[y] \in {"asleep1", "asleep2"}, Joins(y, x)'
               PROVE  ~completed[x]
    BY DEF NoSleeperOnCompleted
  <2>1. CASE y # th
    BY <1>1, <2>1 DEF Joins, ControlInv, NoSleeperOnCompleted
  <2>2. CASE y = th
    BY <1>1, <2>2
  <2> QED
    BY <2>1, <2>2
<1> QED
  BY <1>1, <1>3, <1>4, <1>6, <1>7, <1>8, <1>9 DEF ControlInv

LEMMA JoinKeepsControl ==
  ASSUME ControlInv, NEW th \in Thread, JoinWaits(th) \/ JoinFirst(th) \/ (th \in Task /\ JoinSecond(th))
  PROVE  ControlInv'
<1>0. /\ \A x \in Task : x \in Thread /\ x # Main
      /\ result \in [Task -> Int \cup {NoValue}]
      /\ v1 \in [Thread -> Int \cup {NoValue}] /\ res \in [Thread -> Int \cup {NoValue}]
  BY MainIsNoTask DEF Thread, ControlInv, TypeOK
<1>1. CASE JoinWaits(th)
  <2>1. PICK t \in Task : /\ pc[th] \in {"join1", "join2"} /\ Joins(th, t) /\ ~completed[t]
                          /\ pc' = [pc EXCEPT ![th] = IF @ = "join1" THEN "asleep1" ELSE "asleep2"]
                          /\ UNCHANGED <<completed, result, v1, res>>
    BY <1>1 DEF JoinWaits
  <2>2. PICK next \in {"asleep1", "asleep2"} :
          /\ pc' = [pc EXCEPT ![th] = next]
          /\ next = IF pc[th] = "join1" THEN "asleep1" ELSE "asleep2"
    BY <2>1
  <2>3. th = Main => next = "asleep1"
    BY <2>1, <2>2 DEF ControlInv, TypeOK
  <2>4. pc'[th] = next
    BY <2>2 DEF ControlInv
  <2>5. \A x \in Task : Joins(th, x)' <=> Joins(th, x)
    BY <2>1, <2>2, <2>4 DEF Joins, JoinsFirst, JoinsSecond
  <2>6. \A x \in Task : WillJoin(th, x)' => WillJoin(th, x)
    BY <2>1, <2>2, <2>4, <2>5 DEF WillJoin, JoinsFirst, JoinsSecond
  <2>7. \A x \in Task : Joins(th, x) => x = t
    BY <2>1 DEF Joins, JoinsFirst, JoinsSecond
  <2>8. th \in Task => ~IsLeaf(th) /\ ~completed[th]
    BY <2>1 DEF ControlInv, SplitOK, Parenting, CompletedOK, Exists, Finished
  <2>9. next \in JoinsSecond => v1[th] \in Int
    BY <2>1, <2>2 DEF ControlInv, TypeOK, JoinsSecond
  <2>10. next \in (Pc \ {"none"}) /\ next \in AllPc \ {"none"} /\ next \notin Finished \cup {"complete", "store", "joined"}
    BY <2>2 DEF AllPc, Pc, Finished
  <2>11. \A x \in Task : Joins(th, x)' => ~completed[x]
    BY <2>1, <2>5, <2>7
  <2>12. \A x \in Task : WillJoin(th, x)' => Exists(x)
    BY <2>6 DEF ControlInv, JoinedExist
  <2>13. /\ UNCHANGED completed /\ result' = result /\ v1' = v1 /\ res' = res /\ pc[th] # "none"
        /\ pc' = [pc EXCEPT ![th] = next]
    BY <2>1, <2>2
  <2> HIDE <1>1
  <2> QED
    BY <1>0, <2>3, <2>8, <2>9, <2>10, <2>11, <2>12, <2>13, MoveKeepsControl
<1>2. CASE JoinFirst(th)
  <2>1. PICK next \in {"joined", "join2"} :
          /\ pc' = [pc EXCEPT ![th] = next]
          /\ next = IF th = Main THEN "joined" ELSE "join2"
    BY <1>2 DEF JoinFirst
  <2>2. /\ pc[th] = "join1" /\ pc'[th] = next /\ UNCHANGED <<completed, result, res>>
        /\ v1' = [v1 EXCEPT ![th] = result[First(th)]] /\ completed[First(th)]
    BY <1>2, <2>1 DEF JoinFirst, ControlInv
  <2>3. First(th) \in Task
    <3>1. CASE th = Main
      BY <3>1, MainIsNoTask DEF First
    <3>2. CASE th # Main
      BY <2>2, <3>2, HalvesAre DEF Thread, ControlInv, SplitOK, Parenting
    <3> QED
      BY <3>1, <3>2
  <2>4. result[First(th)] \in Int
    <3>1. WillJoin(th, First(th))
      BY <2>2 DEF WillJoin, Joins, JoinsFirst
    <3> QED
      BY <2>2, <2>3, <3>1 DEF ControlInv, JoinedExist, CompletedOK, ResultOK
  <2>5. \A x \in Task : WillJoin(th, x)' => WillJoin(th, x)
    BY <2>1, <2>2 DEF WillJoin, Joins, JoinsFirst, JoinsSecond
  <2>6. th \in Task => next = "join2" /\ ~IsLeaf(th) /\ ~completed[th]
    BY <1>0, <2>1, <2>2 DEF ControlInv, SplitOK, Parenting, CompletedOK, Exists, Finished
  <2>7. /\ v1'[th] \in Int /\ v1' \in [Thread -> Int \cup {NoValue}]
        /\ \A x \in Thread \ {th} : v1'[x] = v1[x]
    BY <1>0, <2>2, <2>4
  <2>8. next \in AllPc \ {"none"} /\ "join2" \in Pc /\ "join2" \notin Finished \cup {"complete", "store"}
    BY <2>1 DEF AllPc, Pc, Finished
  <2> QED
    BY <1>0, <2>1, <2>2, <2>5, <2>6, <2>7, <2>8, MoveKeepsControl DEF ControlInv, JoinedExist
<1>3. CASE th \in Task /\ JoinSecond(th)
  <2>1. /\ pc[th] = "join2" /\ pc' = [pc EXCEPT ![th] = "store"] /\ UNCHANGED <<completed, result, v1>>
        /\ res' = [res EXCEPT ![th] = v1[th] + result[Second(th)]] /\ completed[Second(th)]
    BY <1>3 DEF JoinSecond
  <2>2. Second(th) \in Task
    BY <1>3, <2>1, HalvesAre DEF ControlInv, SplitOK, Parenting
  <2>3. WillJoin(th, Second(th))
    BY <2>1 DEF WillJoin, Joins, JoinsSecond
  <2>4. v1[th] \in Int /\ result[Second(th)] \in Int
    BY <2>1, <2>2, <2>3 DEF ControlInv, TypeOK, JoinsSecond, JoinedExist, CompletedOK, ResultOK
  <2>5. /\ res'[th] \in Int /\ res' \in [Thread -> Int \cup {NoValue}]
        /\ \A x \in Thread \ {th} : res'[x] = res[x]
    BY <1>0, <2>1, <2>4
  <2>6. pc'[th] = "store" /\ \A x \in Task : ~WillJoin(th, x)' /\ ~Joins(th, x)'
    BY <2>1 DEF ControlInv, WillJoin, Joins, JoinsFirst, JoinsSecond
  <2>7. ~completed[th]
    BY <1>3, <2>1 DEF ControlInv, CompletedOK, Exists, Finished
  <2>8. /\ "store" \in AllPc \ {"none"} /\ "store" \in Pc
        /\ "store" \notin Finished \cup {"complete"} \cup JoinsSecond \cup {"joined"} \cup Parenting
    BY DEF AllPc, Pc, Finished, JoinsSecond, Parenting
  <2> QED
    BY <1>0, <1>3, <2>1, <2>5, <2>6, <2>7, <2>8, MoveKeepsControl
<1> QED
  BY <1>1, <1>2, <1>3

LEMMA RunKeepsControl ==
  ASSUME ControlInv, NEW t \in Task,
         Leaf(t) \/ Split(t) \/ MallocFailed(t) \/ Store(t) \/ Unlock(t) \/ Return(t)
  PROVE  ControlInv'
<1>0. /\ t \in Thread /\ t # Main /\ Main \in Thread
      /\ result \in [Task -> Int \cup {NoValue}] /\ pc \in [Thread -> AllPc]
      /\ v1 \in [Thread -> Int \cup {NoValue}] /\ res \in [Thread -> Int \cup {NoValue}]
  BY MainIsNoTask DEF Thread, ControlInv, TypeOK
<1>1. ASSUME NEW next \in {"store", "complete", "return", "ended"}, pc'[t] = next
      PROVE  /\ next \in AllPc \ {"none"} /\ next \in Pc /\ next \notin JoinsSecond \cup {"joined"}
             /\ next \notin Parenting \cup {"asleep1", "asleep2"}
             /\ \A x \in Task : ~WillJoin(t, x)'
  BY <1>1 DEF AllPc, Pc, JoinsSecond, JoinsFirst, Parenting, WillJoin, Joins
<1>2. pc[t] \in {"start", "store", "complete"} => ~completed[t]
  BY DEF ControlInv, CompletedOK, Exists, Finished
<1>3. CASE Leaf(t)
  <2>1. /\ pc[t] = "start" /\ res' = [res EXCEPT ![t] = Arr[t[1]]]
        /\ pc' = [pc EXCEPT ![t] = "store"] /\ UNCHANGED <<completed, result, v1>>
    BY <1>3 DEF Leaf
  <2>2. Arr[t[1]] \in Int
    BY FrameworkAssumption DEF Task
  <2>3. /\ pc'[t] = "store" /\ res'[t] \in Int /\ res' \in [Thread -> Int \cup {NoValue}]
        /\ \A x \in Thread \ {t} : res'[x] = res[x]
    BY <1>0, <2>1, <2>2
  <2>4. "store" \notin Finished \cup {"complete"}
    BY DEF Finished
  <2> HIDE <1>3
  <2> QED
    BY <1>0, <1>1, <1>2, <2>1, <2>3, <2>4, MoveKeepsControl
<1>4. CASE Split(t)
  <2>1. /\ pc[t] = "start" /\ ~IsLeaf(t) /\ pc' = [pc EXCEPT ![t] = "fork1"]
        /\ UNCHANGED <<completed, result, v1, res>> /\ pc'[t] = "fork1"
    BY <1>0, <1>4 DEF Split
  <2>2. /\ "fork1" \in AllPc \ {"none"} /\ "fork1" \in Pc
        /\ "fork1" \notin JoinsSecond \cup {"joined", "store", "asleep1", "asleep2"} \cup Finished \cup {"complete"}
        /\ \A x \in Task : ~WillJoin(t, x)'
    BY <2>1 DEF AllPc, Pc, JoinsSecond, JoinsFirst, Finished, WillJoin, Joins
  <2> HIDE <1>4
  <2> QED
    BY <1>0, <1>2, <2>1, <2>2, MoveKeepsControl
<1>5. CASE MallocFailed(t)
  <2>1. /\ pc[Main] # "none" /\ pc' = [pc EXCEPT ![Main] = "crashed"]
        /\ UNCHANGED <<completed, result, v1, res>> /\ pc'[Main] = "crashed"
    BY <1>0, <1>5 DEF MallocFailed, ControlInv, TypeOK
  <2>2. /\ "crashed" \in AllPc \ {"none"} /\ Main \notin Task
        /\ "crashed" \notin JoinsSecond \cup {"joined", "asleep1", "asleep2"}
        /\ \A x \in Task : ~WillJoin(Main, x)'
    BY <2>1, MainIsNoTask DEF AllPc, Pc, JoinsSecond, JoinsFirst, WillJoin, Joins
  <2> HIDE <1>5
  <2> QED
    BY <1>0, <2>1, <2>2, MoveKeepsControl
<1>6. CASE Store(t)
  <2>1. /\ pc[t] = "store" /\ result' = [result EXCEPT ![t] = res[t]] /\ pc'[t] = "complete"
        /\ pc' = [pc EXCEPT ![t] = "complete"] /\ UNCHANGED <<completed, v1, res>>
    BY <1>0, <1>6 DEF Store
  <2>2. res[t] \in Int
    BY <2>1 DEF ControlInv, TypeOK
  <2>3. /\ result'[t] \in Int /\ result' \in [Task -> Int \cup {NoValue}]
        /\ \A x \in Task \ {t} : result'[x] = result[x]
    BY <1>0, <2>1, <2>2
  <2> HIDE <1>6
  <2> QED
    BY <1>0, <1>1, <1>2, <2>1, <2>3, MoveKeepsControl
<1>7. ASSUME NEW next \in {"return", "ended"}, pc[t] \in Finished, pc' = [pc EXCEPT ![t] = next],
             UNCHANGED <<completed, result, v1, res>>
      PROVE  ControlInv'
  <2>1. pc'[t] = next /\ next \in Finished /\ result[t] \in Int /\ pc[t] # "none"
    BY <1>0, <1>7 DEF Finished, ControlInv, ResultOK
  <2> QED
    BY <1>0, <1>1, <1>7, <2>1, MoveKeepsControl
<1>8. CASE Unlock(t) \/ Return(t)
  BY <1>7, <1>8 DEF Unlock, Return, Finished
<1> QED
  BY <1>3, <1>4, <1>5, <1>6, <1>8

LEMMA ExitKeepsControl == ControlInv /\ Exit => ControlInv'
<1> SUFFICES ASSUME ControlInv, Exit PROVE ControlInv'
  OBVIOUS
<1>1. /\ Main \in Thread /\ Main \notin Task /\ pc \in [Thread -> AllPc]
      /\ result \in [Task -> Int \cup {NoValue}]
      /\ v1 \in [Thread -> Int \cup {NoValue}] /\ res \in [Thread -> Int \cup {NoValue}]
  BY MainIsNoTask DEF Thread, ControlInv, TypeOK
<1>2. /\ pc[Main] # "none" /\ pc' = [pc EXCEPT ![Main] = "exited"]
      /\ UNCHANGED <<completed, result, v1, res>> /\ pc'[Main] = "exited"
  BY <1>1 DEF Exit
<1>3. /\ "exited" \in AllPc \ {"none"} /\ "exited" \notin JoinsSecond \cup {"joined", "asleep1", "asleep2"}
      /\ \A x \in Task : ~WillJoin(Main, x)'
  BY <1>2 DEF AllPc, Pc, JoinsSecond, JoinsFirst, WillJoin, Joins
<1> HIDE DEF Exit
<1> QED
  BY <1>1, <1>2, <1>3, MoveKeepsControl

StillPc == AllPc \ (JoinsFirst \cup JoinsSecond \cup {"complete", "unlock"})

LEMMA StillPcIs ==
  StillPc = {"none", "missing", "start", "fork1", "fork2", "store", "return", "ended",
             "joined", "exited", "crashed"}
BY DEF StillPc, AllPc, Pc, JoinsFirst, JoinsSecond

(* What a wakeup, and the flag that may come with it, change. *)
LEMMA WakeStep ==
  ASSUME ControlInv, NEW t \in Task, Complete(t) \/ SpuriousWakeup(t)
  PROVE  /\ pc' \in [Thread -> AllPc] /\ completed' \in [Task -> BOOLEAN] /\ UNCHANGED <<result, v1, res>>
         /\ \A x \in Task : /\ x # t => completed'[x] = completed[x]
                            /\ completed'[x] => completed[x] \/ (x = t /\ pc'[t] = "unlock")
         /\ \A y \in Thread :
              /\ pc'[y] \in JoinsFirst <=> pc[y] \in JoinsFirst
              /\ pc'[y] \in JoinsSecond <=> pc[y] \in JoinsSecond
              /\ pc'[y] \in {"asleep1", "asleep2"} => pc'[y] = pc[y] /\ ~Joins(y, t)
              /\ \A x \in StillPc : pc'[y] = x <=> pc[y] = x
              /\ pc[y] = "unlock" => pc'[y] = "unlock"
              /\ pc[y] = "complete" => pc'[y] \in {"complete", "unlock"}
              /\ pc'[y] \in {"complete", "unlock"} => pc[y] \in {"complete", "unlock"}
         /\ \A y \in Thread, x \in Task : (Joins(y, x)' <=> Joins(y, x)) /\ (WillJoin(y, x)' <=> WillJoin(y, x))
<1>0. /\ \A x \in Task : x \in Thread /\ x # Main
      /\ Main \in Thread /\ completed \in [Task -> BOOLEAN] /\ pc \in [Thread -> AllPc]
  BY MainIsNoTask DEF Thread, ControlInv, TypeOK
<1>1. /\ Wake(t) \in [Thread -> AllPc]
      /\ \A y \in Thread :
           /\ Wake(t)[y] \in JoinsFirst <=> pc[y] \in JoinsFirst
           /\ Wake(t)[y] \in JoinsSecond <=> pc[y] \in JoinsSecond
           /\ \A x \in AllPc \ (JoinsFirst \cup JoinsSecond) : Wake(t)[y] = x <=> pc[y] = x
           /\ Wake(t)[y] \in {"asleep1", "asleep2"} => Wake(t)[y] = pc[y] /\ ~Joins(y, t)
  BY <1>0, WakeEffect, WakeKeeps
<1>2. UNCHANGED <<result, v1, res>>
  BY DEF Complete, SpuriousWakeup
<1>3. /\ pc' \in [Thread -> AllPc]
      /\ \A y \in Thread : \/ pc'[y] = Wake(t)[y]
                           \/ y = t /\ pc[t] = "complete" /\ pc'[t] = "unlock"
  <2>1. CASE SpuriousWakeup(t)
    BY <1>1, <2>1 DEF SpuriousWakeup
  <2>2. CASE Complete(t)
    <3>1. "unlock" \in AllPc /\ t \in Thread
      BY <1>0 DEF AllPc, Pc
    <3> QED
      BY <1>1, <2>2, <3>1 DEF Complete
  <2> QED
    BY <2>1, <2>2
<1>4. \A x \in Task : /\ completed'[x] \in BOOLEAN
                      /\ x # t => completed'[x] = completed[x]
                      /\ completed'[x] => completed[x] \/ (x = t /\ pc'[t] = "unlock")
  <2>1. CASE SpuriousWakeup(t)
    BY <1>0, <2>1 DEF SpuriousWakeup
  <2>2. CASE Complete(t)
    <3>1. pc'[t] = "unlock"
      BY <1>0, <1>1, <2>2 DEF Complete
    <3> QED
      BY <1>0, <2>2, <3>1 DEF Complete
  <2> QED
    BY <2>1, <2>2
<1>5. completed' \in [Task -> BOOLEAN]
  BY <1>0 DEF Complete, SpuriousWakeup
<1>6. \A y \in Thread :
        /\ pc'[y] \in JoinsFirst <=> pc[y] \in JoinsFirst
        /\ pc'[y] \in JoinsSecond <=> pc[y] \in JoinsSecond
        /\ pc'[y] \in {"asleep1", "asleep2"} => pc'[y] = pc[y] /\ ~Joins(y, t)
        /\ \A x \in StillPc : pc'[y] = x <=> pc[y] = x
        /\ pc'[y] = "unlock" <=> pc[y] = "unlock" \/ (y = t /\ pc[t] = "complete" /\ pc'[t] = "unlock")
        /\ pc'[y] = "complete" => pc[y] = "complete"
  <2> SUFFICES ASSUME NEW y \in Thread
               PROVE  /\ pc'[y] \in JoinsFirst <=> pc[y] \in JoinsFirst
                      /\ pc'[y] \in JoinsSecond <=> pc[y] \in JoinsSecond
                      /\ pc'[y] \in {"asleep1", "asleep2"} => pc'[y] = pc[y] /\ ~Joins(y, t)
                      /\ \A x \in StillPc : pc'[y] = x <=> pc[y] = x
                      /\ pc'[y] = "unlock" <=> pc[y] = "unlock" \/ (y = t /\ pc[t] = "complete" /\ pc'[t] = "unlock")
                      /\ pc'[y] = "complete" => pc[y] = "complete"
    OBVIOUS
  <2>1. CASE y = t /\ pc[t] = "complete" /\ pc'[t] = "unlock"
    BY <2>1, StillPcIs DEF JoinsFirst, JoinsSecond
  <2>2. CASE pc'[y] = Wake(t)[y] /\ ~(y = t /\ pc[t] = "complete" /\ pc'[t] = "unlock")
    <3>1. {"unlock", "complete"} \subseteq AllPc \ (JoinsFirst \cup JoinsSecond)
      BY DEF AllPc, Pc, JoinsFirst, JoinsSecond
    <3>2. StillPc \subseteq AllPc \ (JoinsFirst \cup JoinsSecond)
      BY DEF StillPc
    <3> QED
      BY <1>1, <2>2, <3>1, <3>2
  <2> QED
    BY <1>3, <2>1, <2>2
<1>7. \A y \in Thread, x \in Task : /\ Joins(y, x)' <=> Joins(y, x)
                                    /\ WillJoin(y, x)' <=> WillJoin(y, x)
  <2>1. "fork2" \in StillPc
    BY StillPcIs
  <2> QED
    BY <1>6, <2>1 DEF Joins, WillJoin
<1>8. \A y \in Thread : pc[y] = "complete" => pc'[y] \in {"complete", "unlock"}
  <2>1. "complete" \in AllPc \ (JoinsFirst \cup JoinsSecond)
    BY DEF AllPc, Pc, JoinsFirst, JoinsSecond
  <2> QED
    BY <1>1, <1>3, <2>1
<1> HIDE DEF Complete, SpuriousWakeup
<1> QED
  BY <1>2, <1>3, <1>4, <1>5, <1>6, <1>7, <1>8

(* A wakeup keeps the control invariant. *)
LEMMA WakeKeepsControl ==
  ASSUME ControlInv, NEW t \in Task, Complete(t) \/ SpuriousWakeup(t)
  PROVE  ControlInv'
<1>0. /\ \A x \in Task : x \in Thread /\ x # Main
      /\ Main \in Thread
  BY MainIsNoTask DEF Thread
<1>1. /\ pc' \in [Thread -> AllPc] /\ completed' \in [Task -> BOOLEAN] /\ UNCHANGED <<result, v1, res>>
      /\ \A x \in Task : /\ x # t => completed'[x] = completed[x]
                         /\ completed'[x] => completed[x] \/ (x = t /\ pc'[t] = "unlock")
      /\ \A y \in Thread :
           /\ pc'[y] \in JoinsFirst <=> pc[y] \in JoinsFirst
           /\ pc'[y] \in JoinsSecond <=> pc[y] \in JoinsSecond
           /\ pc'[y] \in {"asleep1", "asleep2"} => pc'[y] = pc[y] /\ ~Joins(y, t)
           /\ \A x \in StillPc : pc'[y] = x <=> pc[y] = x
           /\ pc[y] = "unlock" => pc'[y] = "unlock"
           /\ pc[y] = "complete" => pc'[y] \in {"complete", "unlock"}
           /\ pc'[y] \in {"complete", "unlock"} => pc[y] \in {"complete", "unlock"}
      /\ \A y \in Thread, x \in Task : (Joins(y, x)' <=> Joins(y, x)) /\ (WillJoin(y, x)' <=> WillJoin(y, x))
  BY WakeStep
<1>8. \A x \in Task : Exists(x)' <=> Exists(x)
  BY <1>0, <1>1, StillPcIs DEF Exists
<1>9. TypeOK'
  <2>1. \A x \in Task : pc'[x] \in Pc
    <3> SUFFICES ASSUME NEW x \in Task PROVE pc'[x] \in Pc
      OBVIOUS
    <3>1. pc'[x] \in AllPc /\ pc[x] \in Pc
      BY <1>0, <1>1 DEF ControlInv, TypeOK
    <3>2. {"joined", "exited", "crashed"} \subseteq StillPc
      BY StillPcIs
    <3>3. pc'[x] \notin {"joined", "exited", "crashed"}
      BY <1>0, <1>1, <3>1, <3>2 DEF Pc
    <3> QED
      BY <3>1, <3>3 DEF AllPc
  <2>2. pc'[Main] \in {"fork1", "join1", "asleep1", "joined", "exited", "crashed"}
    <3>1. pc[Main] \in {"fork1", "join1", "asleep1", "joined", "exited", "crashed"}
      BY DEF ControlInv, TypeOK
    <3>2. CASE pc[Main] \in JoinsFirst
      BY <1>0, <1>1, <3>2 DEF JoinsFirst
    <3>3. CASE pc[Main] \in {"fork1", "joined", "exited", "crashed"}
      <4>1. pc[Main] \in StillPc
        BY <3>3, StillPcIs
      <4> QED
        BY <1>0, <1>1, <3>3, <4>1
    <3> QED
      BY <3>1, <3>2, <3>3 DEF JoinsFirst
  <2>3. \A x \in Thread : pc'[x] \in JoinsSecond \cup {"joined"} => v1'[x] \in Int
    <3>1. "joined" \in StillPc
      BY StillPcIs
    <3> QED
      BY <1>1, <3>1 DEF ControlInv, TypeOK
  <2>4. \A x \in Task : pc'[x] = "store" => res'[x] \in Int
    <3>1. "store" \in StillPc
      BY StillPcIs
    <3> QED
      BY <1>0, <1>1, <3>1 DEF ControlInv, TypeOK
  <2> QED
    BY <1>1, <2>1, <2>2, <2>3, <2>4 DEF ControlInv, TypeOK
<1>10. SplitOK'
  <2> SUFFICES ASSUME NEW x \in Task, pc'[x] \in Parenting PROVE ~IsLeaf(x)
    BY DEF SplitOK
  <2>1. {"fork1", "fork2"} \subseteq StillPc
    BY StillPcIs
  <2>2. pc[x] \in Parenting
    BY <1>0, <1>1, <2>1 DEF Parenting, JoinsFirst, JoinsSecond
  <2> QED
    BY <2>2 DEF ControlInv, SplitOK
<1>11. JoinedExist'
  BY <1>1, <1>8 DEF ControlInv, JoinedExist
<1>12. \A x \in Task : pc'[x] \in Finished \cup {"complete"} <=> pc[x] \in Finished \cup {"complete"}
  <2>1. {"return", "ended"} \subseteq StillPc
    BY StillPcIs
  <2> QED
    BY <1>0, <1>1, <2>1 DEF Finished
<1>13. CompletedOK'
  <2> SUFFICES ASSUME NEW x \in Task, Exists(x), completed'[x] PROVE pc'[x] \in Finished
    BY <1>8 DEF CompletedOK
  <2>1. CASE completed[x]
    <3>1. pc[x] \in Finished
      BY <2>1 DEF ControlInv, CompletedOK
    <3>2. {"return", "ended"} \subseteq StillPc
      BY StillPcIs
    <3> QED
      BY <1>0, <1>1, <3>1, <3>2 DEF Finished
  <2> QED
    BY <1>1, <2>1 DEF Finished
<1>14. ResultOK'
  BY <1>1, <1>12 DEF ControlInv, ResultOK
<1>15. NoSleeperOnCompleted'
  <2> SUFFICES ASSUME NEW y \in Thread, NEW x \in Task, pc'[y] \in {"asleep1", "asleep2"}, Joins(y, x)'
               PROVE  ~completed'[x]
    BY DEF NoSleeperOnCompleted
  <2>1. pc[y] \in {"asleep1", "asleep2"} /\ Joins(y, x) /\ ~Joins(y, t)
    BY <1>1
  <2> QED
    BY <1>1, <2>1 DEF ControlInv, NoSleeperOnCompleted
<1> QED
  BY <1>1, <1>9, <1>10, <1>11, <1>13, <1>14, <1>15 DEF ControlInv

-----------------------------------------------------------------------------
(* The tree of tasks, and their frames *)

(* A step that is no fork. *)
Onward ==
  /\ \A x \in Task : /\ Exists(x)' <=> Exists(x)
                     /\ pc[x] \notin NoFirstYet => pc'[x] \notin NoFirstYet
                     /\ pc[x] \notin NoSecondYet => pc'[x] \notin NoSecondYet
                     /\ pc'[x] \in Working => pc[x] \in Working
  /\ pc'[Main] = "fork1" => pc[Main] = "fork1"
  /\ Running' => \A y \in Thread, x \in Task :
                   WillJoin(y, x) /\ pc[x] \in Working => WillJoin(y, x)'

LEMMA MoveIsOnward ==
  ASSUME ControlInv, NEW th \in Thread, NEW next \in AllPc \ {"none", "missing", "start", "fork1", "fork2"},
         pc' = [pc EXCEPT ![th] = next], pc[th] # "none", pc[th] # "missing",
         th \in Task /\ next \in Working => pc[th] \in Working,
         Running' => \A x \in Task : WillJoin(th, x) /\ pc[x] \in Working => WillJoin(th, x)'
  PROVE  Onward
<1>1. /\ pc'[th] = next /\ \A x \in Thread : x # th => pc'[x] = pc[x]
      /\ \A x \in Task : x \in Thread
  BY DEF ControlInv, Thread
<1>2. \A x \in Task : /\ Exists(x)' <=> Exists(x)
                      /\ pc[x] \notin NoFirstYet => pc'[x] \notin NoFirstYet
                      /\ pc[x] \notin NoSecondYet => pc'[x] \notin NoSecondYet
                      /\ pc'[x] \in Working => pc[x] \in Working
  BY <1>1 DEF Exists, NoFirstYet, NoSecondYet
<1>3. pc'[Main] = "fork1" => pc[Main] = "fork1"
  BY <1>1 DEF Thread
<1>4. ASSUME Running', NEW y \in Thread, NEW x \in Task, WillJoin(y, x), pc[x] \in Working
      PROVE  WillJoin(y, x)'
  <2>1. CASE y = th
    BY <1>4, <2>1
  <2>2. CASE y # th
    BY <1>1, <1>4, <2>2 DEF WillJoin, Joins
  <2> QED
    BY <2>1, <2>2
<1> QED
  BY <1>2, <1>3, <1>4 DEF Onward

LEMMA LaterPc ==
  /\ {"join1", "join2", "asleep1", "asleep2", "store", "complete", "unlock", "return", "ended",
      "joined", "exited", "crashed"} \subseteq AllPc \ {"none", "missing", "start", "fork1", "fork2"}
  /\ {"start", "fork1", "fork2", "join1", "join2", "asleep1", "asleep2", "store", "complete",
      "unlock"} = Working
BY DEF AllPc, Pc, Working

(* A join lets nobody pass who still works. *)
LEMMA JoinedIsDone ==
  ASSUME ControlInv, NEW th \in Thread, NEW t \in Task, WillJoin(th, t), completed[t], ~Locked(t)
  PROVE  pc[t] \notin Working
BY LaterPc DEF ControlInv, JoinedExist, CompletedOK, Finished, Locked

LEMMA JoinIsOnward ==
  ASSUME ControlInv, NEW th \in Thread, JoinWaits(th) \/ JoinFirst(th) \/ (th \in Task /\ JoinSecond(th))
  PROVE  Onward
<1>1. CASE JoinWaits(th)
  <2>1. PICK next \in {"asleep1", "asleep2"} :
          /\ pc' = [pc EXCEPT ![th] = next] /\ pc[th] \in {"join1", "join2"}
          /\ next = IF pc[th] = "join1" THEN "asleep1" ELSE "asleep2"
    BY <1>1 DEF JoinWaits
  <2>2. pc'[th] = next
    BY <2>1 DEF ControlInv
  <2>3. \A x \in Task : WillJoin(th, x) => WillJoin(th, x)'
    BY <2>1, <2>2 DEF WillJoin, Joins, JoinsFirst, JoinsSecond
  <2>4. next \in AllPc \ {"none", "missing", "start", "fork1", "fork2"} /\ pc[th] \in Working
    BY <2>1, LaterPc
  <2> QED
    BY <2>1, <2>3, <2>4, MoveIsOnward
<1>2. CASE JoinFirst(th)
  <2>1. PICK next \in {"joined", "join2"} :
          /\ pc' = [pc EXCEPT ![th] = next] /\ pc[th] = "join1"
          /\ next = IF th = Main THEN "joined" ELSE "join2"
    BY <1>2 DEF JoinFirst
  <2>2. pc'[th] = next /\ completed[First(th)] /\ ~Locked(First(th))
    BY <1>2, <2>1 DEF ControlInv, JoinFirst
  <2>3. ASSUME NEW x \in Task, WillJoin(th, x), pc[x] \in Working PROVE WillJoin(th, x)'
    <3>1. x # First(th)
      BY <2>2, <2>3, JoinedIsDone
    <3>2. x = Second(th) /\ th # Main
      BY <2>1, <2>3, <3>1 DEF WillJoin, Joins, JoinsFirst, JoinsSecond
    <3> QED
      BY <2>1, <2>2, <3>2 DEF WillJoin, Joins, JoinsSecond
  <2>4. next \in AllPc \ {"none", "missing", "start", "fork1", "fork2"} /\ pc[th] \in Working
    BY <2>1, LaterPc
  <2> QED
    BY <2>1, <2>3, <2>4, MoveIsOnward
<1>3. CASE th \in Task /\ JoinSecond(th)
  <2>1. /\ pc' = [pc EXCEPT ![th] = "store"] /\ pc[th] = "join2"
        /\ completed[Second(th)] /\ ~Locked(Second(th))
    BY <1>3 DEF JoinSecond
  <2>2. ASSUME NEW x \in Task, WillJoin(th, x), pc[x] \in Working PROVE FALSE
    <3>1. x = Second(th)
      BY <2>1, <2>2 DEF WillJoin, Joins, JoinsFirst, JoinsSecond
    <3> QED
      BY <2>1, <2>2, <3>1, JoinedIsDone
  <2>3. "store" \in AllPc \ {"none", "missing", "start", "fork1", "fork2"} /\ pc[th] \in Working
    BY <2>1, LaterPc
  <2> QED
    BY <2>1, <2>2, <2>3, MoveIsOnward
<1> QED
  BY <1>1, <1>2, <1>3

LEMMA RunIsOnward ==
  ASSUME ControlInv, NEW t \in Task, Leaf(t) \/ Store(t) \/ Unlock(t) \/ Return(t)
  PROVE  Onward
<1>1. PICK next \in {"store", "complete", "return", "ended"} :
        /\ pc' = [pc EXCEPT ![t] = next]
        /\ \/ pc[t] \in {"start", "store"} /\ next \in {"store", "complete"}
           \/ pc[t] \in {"unlock", "return"} /\ next \in {"return", "ended"}
  BY DEF Leaf, Store, Unlock, Return
<1>2. \A x \in Task : ~WillJoin(t, x)
  BY <1>1 DEF WillJoin, Joins, JoinsFirst, JoinsSecond
<1>3. /\ next \in AllPc \ {"none", "missing", "start", "fork1", "fork2"} /\ t \in Thread
      /\ pc[t] \notin {"none", "missing"} /\ next \in Working => pc[t] \in Working
  BY <1>1, LaterPc DEF Thread
<1> QED
  BY <1>1, <1>2, <1>3, MoveIsOnward

LEMMA SplitIsOnward == ASSUME ControlInv, NEW t \in Task, Split(t) PROVE Onward
<1>1. /\ pc[t] = "start" /\ pc'[t] = "fork1" /\ t # Main
      /\ \A x \in Thread : x # t => pc'[x] = pc[x]
      /\ \A x \in Task : x \in Thread
  BY MainIsNoTask DEF Split, ControlInv, Thread
<1>2. \A x \in Task : /\ Exists(x)' <=> Exists(x)
                      /\ pc[x] \notin NoFirstYet => pc'[x] \notin NoFirstYet
                      /\ pc[x] \notin NoSecondYet => pc'[x] \notin NoSecondYet
                      /\ pc'[x] \in Working => pc[x] \in Working
  BY <1>1, LaterPc DEF Exists, NoFirstYet, NoSecondYet
<1>3. pc'[Main] = pc[Main]
  BY <1>1 DEF Thread
<1>4. ASSUME NEW y \in Thread, NEW x \in Task, WillJoin(y, x) PROVE WillJoin(y, x)'
  <2>1. y # t
    BY <1>1, <1>4 DEF WillJoin, Joins, JoinsFirst, JoinsSecond
  <2> QED
    BY <1>1, <1>4, <2>1 DEF WillJoin, Joins
<1> QED
  BY <1>2, <1>3, <1>4 DEF Onward

(* The process ends: nothing is claimed of its frames any more. *)
LEMMA EndIsOnward ==
  ASSUME ControlInv, Exit \/ \E t \in Task : MallocFailed(t) PROVE Onward
<1>1. PICK next \in {"exited", "crashed"} : pc' = [pc EXCEPT ![Main] = next]
  BY DEF Exit, MallocFailed
<1>2. Main \in Thread /\ Main \notin Task /\ pc'[Main] = next /\ pc[Main] \notin {"none", "missing"}
  BY <1>1, MainIsNoTask DEF Thread, ControlInv, TypeOK
<1>3. ~Running'
  BY <1>2 DEF Running
<1>4. next \in AllPc \ {"none", "missing", "start", "fork1", "fork2"}
  BY <1>1, LaterPc
<1> QED
  BY <1>1, <1>2, <1>3, <1>4, MoveIsOnward

LEMMA WakeIsOnward ==
  ASSUME ControlInv, NEW t \in Task, Complete(t) \/ SpuriousWakeup(t) PROVE Onward
<1>0. \A x \in Task : x \in Thread
  BY DEF Thread
<1>1. /\ pc' \in [Thread -> AllPc]
      /\ \A y \in Thread :
           /\ pc'[y] \in JoinsFirst <=> pc[y] \in JoinsFirst
           /\ pc'[y] \in JoinsSecond <=> pc[y] \in JoinsSecond
           /\ \A x \in StillPc : pc'[y] = x <=> pc[y] = x
           /\ pc'[y] \in {"complete", "unlock"} => pc[y] \in {"complete", "unlock"}
      /\ \A y \in Thread, x \in Task : WillJoin(y, x)' <=> WillJoin(y, x)
  BY WakeStep
<1>2. \A x \in Task : /\ Exists(x)' <=> Exists(x)
                      /\ pc[x] \notin NoFirstYet => pc'[x] \notin NoFirstYet
                      /\ pc[x] \notin NoSecondYet => pc'[x] \notin NoSecondYet
  BY <1>0, <1>1, StillPcIs DEF Exists, NoFirstYet, NoSecondYet
<1>3. \A x \in Task : pc'[x] \in Working => pc[x] \in Working
  <2>1. {"start", "fork1", "fork2", "store"} \subseteq StillPc
    BY StillPcIs
  <2> QED
    BY <1>0, <1>1, <2>1, LaterPc DEF JoinsFirst, JoinsSecond
<1>4. pc'[Main] = "fork1" => pc[Main] = "fork1"
  BY <1>1, StillPcIs DEF Thread
<1> QED
  BY <1>1, <1>2, <1>3, <1>4 DEF Onward

LEMMA OnwardKeepsTree ==
  IndInv /\ Running /\ Onward => TreeInv' /\ FramesOutliveTasks'
<1> SUFFICES ASSUME IndInv, Running, Onward PROVE TreeInv' /\ FramesOutliveTasks'
  OBVIOUS
<1>1. TreeInv'
  BY DEF Onward, IndInv, TreeInv
<1>2. ASSUME Running', NEW t \in Task, pc'[t] \in Working PROVE \E th \in Thread : WillJoin(th, t)'
  <2>1. pc[t] \in Working
    BY <1>2 DEF Onward
  <2>2. PICK th \in Thread : WillJoin(th, t)
    BY <2>1 DEF IndInv, FramesOutliveTasks
  <2> QED
    BY <1>2, <2>1, <2>2 DEF Onward
<1> QED
  BY <1>1, <1>2 DEF FramesOutliveTasks

(* A range is forked once: no task that exists has it, nor a part of it. *)
LEMMA HalfIsNew ==
  ASSUME IndInv, NEW u \in Task, NEW t \in Task,
         (pc[u] = "fork1" /\ t = First(u)) \/ (pc[u] = "fork2" /\ t = Second(u))
  PROVE  ~Exists(t) /\ \A x \in Task : Exists(x) => ~Inside(x, t)
<1>1. Exists(u) /\ ~IsLeaf(u)
  BY DEF IndInv, ControlInv, SplitOK, Parenting, Exists
<1>2. \A x \in Task : Exists(x) => ~Inside(x, t)
  BY <1>1 DEF IndInv, TreeInv, NoFirstYet, NoSecondYet
<1>3. Inside(t, t)
  BY TaskRange DEF Inside
<1> QED
  BY <1>2, <1>3

LEMMA ForkKeepsTree ==
  ASSUME IndInv, Running, NEW u \in Task, NEW t \in Task, NEW next \in {"fork2", "join1"},
         \/ pc[u] = "fork1" /\ t = First(u) /\ next = "fork2"
         \/ pc[u] = "fork2" /\ t = Second(u) /\ next = "join1",
         Fork(u, t, next)
  PROVE  TreeInv' /\ FramesOutliveTasks'
<1>0. /\ \A x \in Task : x \in Thread /\ x # Main
      /\ Main \in Thread /\ ~IsLeaf(u) /\ Exists(u)
  BY MainIsNoTask DEF Thread, IndInv, ControlInv, SplitOK, Parenting, Exists
<1>1. u # t /\ next \in AllPc
  BY <1>0, HalvesAreApart DEF AllPc, Pc
<1>2. /\ pc'[u] = next /\ pc'[t] \in {"start", "missing"}
      /\ \A x \in Thread : x # u /\ x # t => pc'[x] = pc[x]
  BY <1>0, <1>1, ForkEffect DEF IndInv, ControlInv
<1>3. \A x \in Task : Exists(x) => ~Inside(x, t)
  BY HalfIsNew
<1>4. ~Exists(t)
  BY HalfIsNew
<1>5. \A x \in Task : Exists(x)' <=> Exists(x) \/ x = t
  BY <1>0, <1>1, <1>2 DEF Exists
<1>6. \A x \in Task : Exists(x) => Laminar(x, u)
  BY <1>0 DEF IndInv, TreeInv
<1>7. ASSUME NEW x \in Task, NEW y \in Task, Exists(x)', Exists(y)' PROVE Laminar(x, y)
  <2>1. ASSUME NEW v \in Task, Exists(v) PROVE Laminar(t, v) /\ Laminar(v, t)
    BY <1>0, <1>3, <1>6, <2>1, NewHalf
  <2>2. Laminar(t, t)
    BY DEF Laminar
  <2> QED
    BY <1>5, <1>7, <2>1, <2>2 DEF IndInv, TreeInv
<1>8. ASSUME NEW x \in Task, NEW y \in Task, Exists(x)', Exists(y)', ~IsLeaf(y)
      PROVE  /\ Inside(x, First(y)) => pc'[y] \notin NoFirstYet
             /\ Inside(x, Second(y)) => pc'[y] \notin NoSecondYet
  <2>1. CASE y = t
    <3>1. /\ Inside(x, First(t)) => Inside(x, t)
          /\ Inside(x, Second(t)) => Inside(x, t)
          /\ ~Inside(t, First(t)) /\ ~Inside(t, Second(t))
      BY <1>8, <2>1, HalvesAreApart
    <3> QED
      BY <1>3, <1>5, <1>8, <2>1, <3>1
  <2>2. CASE y = u
    <3>1. CASE x = t
      BY <1>0, <1>2, <2>2, <3>1, HalvesAreApart DEF NoFirstYet, NoSecondYet
    <3>2. CASE x # t
      <4>1. /\ Inside(x, First(u)) => pc[u] \notin NoFirstYet
            /\ Inside(x, Second(u)) => pc[u] \notin NoSecondYet
        BY <1>0, <1>5, <1>8, <3>2 DEF IndInv, TreeInv
      <4> QED
        BY <1>2, <2>2, <4>1 DEF NoFirstYet, NoSecondYet
    <3> QED
      BY <3>1, <3>2
  <2>3. CASE y # t /\ y # u
    <3>1. pc'[y] = pc[y] /\ Exists(y)
      BY <1>0, <1>2, <1>5, <1>8, <2>3
    <3>2. CASE x = t
      <4>1. /\ Inside(t, First(y)) => Inside(u, First(y))
            /\ Inside(t, Second(y)) => Inside(u, Second(y))
        BY <1>0, <1>3, <1>6, <1>8, <2>3, <3>1, NewHalf
      <4>2. /\ Inside(u, First(y)) => pc[y] \notin NoFirstYet
            /\ Inside(u, Second(y)) => pc[y] \notin NoSecondYet
        BY <1>0, <1>8, <3>1 DEF IndInv, TreeInv
      <4> QED
        BY <3>1, <3>2, <4>1, <4>2
    <3>3. CASE x # t
      BY <1>5, <1>8, <3>1, <3>3 DEF IndInv, TreeInv
    <3> QED
      BY <3>2, <3>3
  <2> QED
    BY <2>1, <2>2, <2>3
<1>9. pc'[Main] # "fork1"
  <2>1. pc'[Main] = pc[Main]
    BY <1>0, <1>2
  <2> QED
    BY <1>0, <2>1 DEF IndInv, TreeInv
<1>10. ASSUME NEW x \in Task, pc'[x] \in Working PROVE \E y \in Thread : WillJoin(y, x)'
  <2>1. CASE x = t
    <3>1. WillJoin(u, t)'
      BY <1>0, <1>2 DEF WillJoin, JoinsFirst
    <3> QED
      BY <1>0, <2>1, <3>1
  <2>2. CASE x # t
    <3>1. pc[x] \in Working
      BY <1>0, <1>2, <1>10, <2>2, LaterPc
    <3>2. PICK y \in Thread : WillJoin(y, x)
      BY <3>1 DEF IndInv, FramesOutliveTasks
    <3>3. y # t
      BY <1>4, <3>2 DEF Exists, WillJoin, Joins, JoinsFirst, JoinsSecond
    <3>4. CASE y = u
      <4>1. pc[u] = "fork2" /\ x = First(u) /\ next = "join1"
        BY <3>2, <3>4 DEF WillJoin, Joins, JoinsFirst, JoinsSecond
      <4>2. WillJoin(u, x)'
        BY <1>2, <4>1 DEF WillJoin, Joins, JoinsFirst
      <4> QED
        BY <3>4, <4>2
    <3>5. CASE y # u
      <4>1. WillJoin(y, x)'
        BY <1>2, <3>2, <3>3, <3>5 DEF WillJoin, Joins
      <4> QED
        BY <4>1
    <3> QED
      BY <3>4, <3>5
  <2> QED
    BY <2>1, <2>2
<1> QED
  BY <1>7, <1>8, <1>9, <1>10 DEF TreeInv, FramesOutliveTasks

LEMMA RootKeepsTree ==
  ASSUME IndInv, Running, ForkFirst(Main) PROVE TreeInv' /\ FramesOutliveTasks'
<1>0. /\ Main \in Thread /\ Root \in Task /\ Root # Main /\ First(Main) = Root
      /\ \A x \in Task : x \in Thread /\ x # Main
  BY MainIsNoTask DEF Thread, First
<1>1. pc[Main] = "fork1" /\ Fork(Main, Root, "join1") /\ "join1" \in AllPc
  BY <1>0 DEF ForkFirst, AllPc, Pc
<1>2. /\ pc'[Main] = "join1" /\ pc'[Root] \in {"start", "missing"}
      /\ \A x \in Thread : x # Main /\ x # Root => pc'[x] = pc[x]
  BY <1>0, <1>1, ForkEffect DEF IndInv, ControlInv
<1>3. \A x \in Task : ~Exists(x)
  BY <1>1 DEF IndInv, TreeInv
<1>4. \A x \in Task : Exists(x)' <=> x = Root
  BY <1>0, <1>2, <1>3 DEF Exists
<1>5. Laminar(Root, Root) /\ WillJoin(Main, Root)'
  BY <1>0, <1>2 DEF Laminar, WillJoin, Joins, JoinsFirst
<1>6. ~IsLeaf(Root) => ~Inside(Root, First(Root)) /\ ~Inside(Root, Second(Root))
  BY <1>0, HalvesAreApart
<1>7. \A x \in Task : pc'[x] \in Working => x = Root
  BY <1>0, <1>2, <1>3, LaterPc DEF Exists
<1>8. TreeInv'
  BY <1>2, <1>4, <1>5, <1>6 DEF TreeInv
<1>9. FramesOutliveTasks'
  BY <1>0, <1>5, <1>7 DEF FramesOutliveTasks
<1> QED
  BY <1>8, <1>9

-----------------------------------------------------------------------------
(* The theorems *)

LEMMA IndInvInit == Init => IndInv
<1> SUFFICES ASSUME Init PROVE IndInv
  OBVIOUS
<1>1. \A t \in Task : pc[t] = "none"
  BY MainIsNoTask DEF Init, Thread
<1>2. TreeInv /\ FramesOutliveTasks
  BY <1>1 DEF TreeInv, FramesOutliveTasks, Exists, Working
<1> QED
  BY <1>2, ControlInit DEF IndInv

LEMMA IndInvStep == IndInv /\ [Next]_vars => IndInv'
<1> SUFFICES ASSUME IndInv, [Next]_vars PROVE IndInv'
  OBVIOUS
<1>1. CASE UNCHANGED vars
  BY <1>1 DEF vars, IndInv, ControlInv, TypeOK, SplitOK, JoinedExist, CompletedOK, ResultOK,
     NoSleeperOnCompleted, TreeInv, FramesOutliveTasks, Exists, Running, WillJoin, Joins
<1>2. ASSUME ControlInv', TreeInv' /\ FramesOutliveTasks' PROVE IndInv'
  BY <1>2 DEF IndInv
<1>3. ASSUME Running, ControlInv', Onward PROVE IndInv'
  BY <1>2, <1>3, OnwardKeepsTree
<1>4. ControlInv /\ \A x \in Task : x \in Thread /\ x # Main
  BY MainIsNoTask DEF IndInv, Thread
<1>5. CASE Running /\ MainStep
  <2>1. Main \in Thread
    BY DEF Thread
  <2>2. CASE ForkFirst(Main)
    BY <1>2, <1>4, <1>5, <2>1, <2>2, ForkFirstKeepsControl, RootKeepsTree
  <2>3. CASE JoinFirst(Main) \/ JoinWaits(Main)
    BY <1>3, <1>4, <1>5, <2>1, <2>3, JoinKeepsControl, JoinIsOnward
  <2>4. CASE Exit
    BY <1>3, <1>4, <1>5, <2>4, ExitKeepsControl, EndIsOnward
  <2> QED
    BY <1>5, <2>2, <2>3, <2>4 DEF MainStep
<1>6. ASSUME Running, NEW t \in Task, TaskStep(t) \/ SpuriousWakeup(t) PROVE IndInv'
  <2>1. CASE ForkFirst(t)
    <3>1. pc[t] = "fork1" /\ Fork(t, First(t), "fork2") /\ ~IsLeaf(t)
      BY <1>4, <2>1 DEF ForkFirst, ControlInv, SplitOK, Parenting
    <3>2. First(t) \in Task
      BY <3>1, HalvesAre
    <3> QED
      BY <1>2, <1>4, <1>6, <2>1, <3>1, <3>2, ForkFirstKeepsControl, ForkKeepsTree
  <2>2. CASE ForkSecond(t)
    <3>1. pc[t] = "fork2" /\ Fork(t, Second(t), "join1") /\ ~IsLeaf(t)
      BY <1>4, <2>2 DEF ForkSecond, ControlInv, SplitOK, Parenting
    <3>2. Second(t) \in Task
      BY <3>1, HalvesAre
    <3> QED
      BY <1>2, <1>4, <1>6, <2>2, <3>1, <3>2, ForkSecondKeepsControl, ForkKeepsTree
  <2>3. CASE JoinFirst(t) \/ JoinSecond(t) \/ JoinWaits(t)
    BY <1>3, <1>4, <1>6, <2>3, JoinKeepsControl, JoinIsOnward
  <2>4. CASE Leaf(t) \/ Store(t) \/ Unlock(t) \/ Return(t)
    BY <1>3, <1>4, <1>6, <2>4, RunKeepsControl, RunIsOnward
  <2>5. CASE Split(t)
    BY <1>3, <1>4, <1>6, <2>5, RunKeepsControl, SplitIsOnward
  <2>6. CASE MallocFailed(t)
    BY <1>3, <1>4, <1>6, <2>6, RunKeepsControl, EndIsOnward
  <2>7. CASE Complete(t) \/ SpuriousWakeup(t)
    BY <1>3, <1>4, <1>6, <2>7, WakeKeepsControl, WakeIsOnward
  <2> QED
    BY <1>6, <2>1, <2>2, <2>3, <2>4, <2>5, <2>6, <2>7 DEF TaskStep
<1> QED
  BY <1>1, <1>5, <1>6 DEF Next

(* The inductive invariant: labels, flags and results agree, the ranges of  *)
(* the tasks that exist form a tree, and every task at work is to be joined.*)
THEOREM IndInvHolds == Spec => []IndInv
<1> QED
  BY IndInvInit, IndInvStep, PTL DEF Spec

(* Every variable keeps its type: every result that is added or returned is *)
(* a number that a task has stored (lines 28, 62, 72).                      *)
THEOREM TypeCorrect == Spec => []TypeOK
<1>1. IndInv => TypeOK
  BY DEF IndInv, ControlInv
<1> QED
  BY <1>1, IndInvHolds, PTL

(* Testing the flag and going to sleep is one step under the task's lock,   *)
(* and the flag is set and signalled in another: no sleeper is left behind  *)
(* on a completed task (lines 30-33, 49-53).                                *)
THEOREM NoSleeperLeftBehind == Spec => []NoSleeperOnCompleted
<1>1. IndInv => NoSleeperOnCompleted
  BY DEF IndInv, ControlInv
<1> QED
  BY <1>1, IndInvHolds, PTL

(* The stack frame that holds a task_t and its argument is not left while   *)
(* the task's thread uses them, but for the read in line 34 (lines 65-71).  *)
THEOREM FramesLastLongEnough == Spec => []FramesOutliveTasks
<1>1. IndInv => FramesOutliveTasks
  BY DEF IndInv
<1> QED
  BY <1>1, IndInvHolds, PTL

(* A fork makes a task with a range no task has had before.                 *)
NewRanges == /\ \A th \in Thread : ForkFirst(th) => pc[First(th)] = "none"
             /\ \A t \in Task : ForkSecond(t) => pc[Second(t)] = "none"

(* Every fork_task is called for a range of its own (lines 64-69), so       *)
(* naming a task by its range loses nothing.                                *)
THEOREM RangesForkedOnce == Spec => [][NewRanges]_vars
<1>1. IndInv => NewRanges
  <2> SUFFICES ASSUME IndInv PROVE NewRanges
    OBVIOUS
  <2>1. ASSUME NEW th \in Thread, ForkFirst(th) PROVE pc[First(th)] = "none"
    <3>1. CASE th = Main
      BY <2>1, <3>1, MainIsNoTask DEF ForkFirst, First, IndInv, TreeInv, Exists
    <3>2. CASE th # Main
      <4>1. th \in Task /\ pc[th] = "fork1" /\ ~IsLeaf(th)
        BY <2>1, <3>2 DEF ForkFirst, Thread, IndInv, ControlInv, SplitOK, Parenting
      <4>2. First(th) \in Task
        BY <4>1, HalvesAre
      <4> QED
        BY <4>1, <4>2, HalfIsNew DEF Exists
    <3> QED
      BY <3>1, <3>2
  <2>2. ASSUME NEW t \in Task, ForkSecond(t) PROVE pc[Second(t)] = "none"
    <3>1. pc[t] = "fork2" /\ ~IsLeaf(t)
      BY <2>2 DEF ForkSecond, IndInv, ControlInv, SplitOK, Parenting
    <3>2. Second(t) \in Task
      BY <3>1, HalvesAre
    <3> QED
      BY <3>1, <3>2, HalfIsNew DEF Exists
  <2> QED
    BY <2>1, <2>2 DEF NewRanges
<1> QED
  BY <1>1, IndInvHolds, PTL

-----------------------------------------------------------------------------
(* The sums the threads carry *)

Total(t) == SumFunctionOnSet(Arr, t[1] .. t[2])
Done == Finished \cup {"complete"}
Last == {"joined", "exited"}

SumInv ==
  /\ \A t \in Task : /\ pc[t] \in Done => result[t] = Total(t)
                     /\ pc[t] = "store" => res[t] = Total(t)
                     /\ pc[t] \in JoinsSecond => v1[t] = Total(First(t))
  /\ pc[Main] \in Last => v1[Main] = Total(Root)

LEMMA ArrayIsFinite == IsFiniteSet(0 .. (N - 1)) /\ Arr \in [0 .. (N - 1) -> Int]
BY FrameworkAssumption, FS_Interval

(* A step that lets nobody further on than he was, as far as SumInv is      *)
(* concerned, and changes no value.                                         *)
Valueless ==
  /\ UNCHANGED <<result, v1, res>>
  /\ \A t \in Task : /\ pc'[t] \in Done => pc[t] \in Done
                     /\ pc'[t] = "store" => pc[t] = "store"
                     /\ pc'[t] \in JoinsSecond => pc[t] \in JoinsSecond
  /\ pc'[Main] \in Last => pc[Main] \in Last

LEMMA ValuelessKeepsSums == SumInv /\ Valueless => SumInv'
BY DEF SumInv, Valueless

LEMMA ForkIsValueless ==
  ASSUME ControlInv, NEW th \in Thread, ForkFirst(th) \/ (th \in Task /\ ForkSecond(th))
  PROVE  Valueless
<1>1. PICK t, next : Fork(th, t, next) /\ next \in {"join1", "fork2"}
  BY DEF ForkFirst, ForkSecond
<1>2. PICK start \in {"start", "missing"} : pc' = [pc EXCEPT ![th] = next, ![t] = start]
  BY <1>1 DEF Fork
<1>3. \A x \in Thread : pc'[x] = pc[x] \/ pc'[x] \in {"join1", "fork2", "start", "missing"}
  BY <1>1, <1>2 DEF ControlInv
<1>4. /\ {"join1", "fork2", "start", "missing"} \cap (Done \cup {"store"} \cup JoinsSecond \cup Last) = {}
      /\ Main \in Thread /\ \A t_1 \in Task : t_1 \in Thread
  BY DEF Done, Finished, JoinsSecond, Last, Thread
<1> QED
  BY <1>1, <1>3, <1>4 DEF Valueless, Fork

LEMMA MoveIsValueless ==
  ASSUME ControlInv, NEW th \in Thread,
         \/ JoinWaits(th) \/ (th = Main /\ Exit)
         \/ th \in Task /\ (Split(th) \/ MallocFailed(th) \/ Unlock(th) \/ Return(th))
  PROVE  Valueless
<1>1. PICK x \in Thread, next \in AllPc :
        /\ pc' = [pc EXCEPT ![x] = next] /\ UNCHANGED <<result, v1, res>>
        /\ \/ next \in {"asleep1", "fork1", "crashed"}
           \/ next = "asleep2" /\ pc[x] = "join2"
           \/ next = "exited" /\ pc[x] = "joined"
           \/ next \in {"return", "ended"} /\ pc[x] \in {"unlock", "return"}
  <2>0. /\ Main \in Thread
        /\ {"asleep1", "asleep2", "fork1", "crashed", "exited", "return", "ended"} \subseteq AllPc
    BY DEF Thread, AllPc, Pc
  <2>1. CASE JoinWaits(th)
    BY <2>0, <2>1 DEF JoinWaits
  <2>2. CASE Exit
    BY <2>0, <2>2 DEF Exit
  <2>3. CASE Split(th)
    BY <2>0, <2>3 DEF Split
  <2>4. CASE MallocFailed(th)
    BY <2>0, <2>4 DEF MallocFailed
  <2>5. CASE Unlock(th) \/ Return(th)
    BY <2>0, <2>5 DEF Unlock, Return
  <2> QED
    BY <2>1, <2>2, <2>3, <2>4, <2>5
<1>2. pc'[x] = next /\ \A y \in Thread : y # x => pc'[y] = pc[y]
  BY <1>1 DEF ControlInv
<1>3. Main \in Thread /\ \A t \in Task : t \in Thread
  BY DEF Thread
<1> QED
  BY <1>1, <1>2, <1>3 DEF Valueless, Done, Finished, JoinsSecond, Last

LEMMA WakeIsValueless ==
  ASSUME ControlInv, NEW t \in Task, Complete(t) \/ SpuriousWakeup(t)
  PROVE  Valueless
<1>1. PICK w \in [Thread -> AllPc] : w = Wake(t)
  BY WakeEffect DEF ControlInv
<1>2. /\ \A th \in Thread : w[th] \in JoinsSecond <=> pc[th] \in JoinsSecond
      /\ \A th \in Thread, x \in AllPc \ (JoinsFirst \cup JoinsSecond) : w[th] = x <=> pc[th] = x
  BY <1>1, WakeKeeps DEF ControlInv
<1>3. /\ Done \cup Last \cup {"store"} \subseteq AllPc \ (JoinsFirst \cup JoinsSecond)
      /\ "complete" \in Done /\ "unlock" \in Done
      /\ "unlock" \notin JoinsSecond \cup Last \cup {"store"}
      /\ Main \in Thread /\ t \in Thread /\ t # Main /\ \A u \in Task : u \in Thread
  BY MainIsNoTask DEF Done, Last, Finished, JoinsFirst, JoinsSecond, AllPc, Pc, Thread
<1>4. /\ UNCHANGED <<result, v1, res>>
      /\ \A th \in Thread : pc'[th] = w[th] \/ (th = t /\ pc[t] \in Done /\ pc'[t] = "unlock")
  <2>1. CASE SpuriousWakeup(t)
    BY <1>1, <2>1 DEF SpuriousWakeup
  <2>2. CASE Complete(t)
    <3>1. pc' = [w EXCEPT ![t] = "unlock"] /\ pc[t] = "complete"
      BY <1>1, <2>2 DEF Complete
    <3> QED
      BY <1>1, <1>3, <2>2, <3>1 DEF Complete
  <2> QED
    BY <2>1, <2>2
<1>5. \A th \in Thread : /\ pc'[th] \in Done => pc[th] \in Done
                         /\ pc'[th] = "store" => pc[th] = "store"
                         /\ pc'[th] \in JoinsSecond => pc[th] \in JoinsSecond
                         /\ pc'[th] \in Last => pc[th] \in Last
  BY <1>2, <1>3, <1>4
<1> QED
  BY <1>3, <1>4, <1>5 DEF Valueless

(* What a join lets pass has its sum. *)
LEMMA JoinedHasSum ==
  ASSUME ControlInv, SumInv, NEW th \in Thread, NEW t \in Task, Joins(th, t), completed[t]
  PROVE  result[t] = Total(t)
<1>1. pc[t] \in Finished
  BY DEF ControlInv, JoinedExist, CompletedOK, WillJoin
<1> QED
  BY <1>1 DEF SumInv, Done

LEMMA JoinFirstKeepsSums ==
  ASSUME ControlInv, SumInv, NEW th \in Thread, JoinFirst(th)
  PROVE  SumInv'
<1>1. First(th) \in Task
  BY HalvesAre, MainIsNoTask DEF JoinFirst, First, Thread, ControlInv, SplitOK, Parenting
<1>2. result[First(th)] = Total(First(th))
  BY <1>1, JoinedHasSum DEF JoinFirst, Joins, JoinsFirst
<1>3. PICK next \in {"joined", "join2"} :
        /\ pc' = [pc EXCEPT ![th] = next] /\ v1' = [v1 EXCEPT ![th] = result[First(th)]]
        /\ next = (IF th = Main THEN "joined" ELSE "join2") /\ UNCHANGED <<result, res>>
  BY DEF JoinFirst
<1>4. /\ pc'[th] = next /\ \A x \in Thread : x # th => pc'[x] = pc[x]
      /\ v1'[th] = Total(First(th)) /\ \A x \in Thread : x # th => v1'[x] = v1[x]
  BY <1>2, <1>3 DEF ControlInv, TypeOK
<1>5. Main \in Thread /\ Main \notin Task /\ (\A t \in Task : t \in Thread) /\ First(Main) = Root
  BY MainIsNoTask DEF Thread, First
<1> QED
  BY <1>3, <1>4, <1>5 DEF SumInv, Done, Finished, JoinsSecond, Last

LEMMA JoinSecondKeepsSums ==
  ASSUME ControlInv, SumInv, NEW t \in Task, JoinSecond(t)
  PROVE  SumInv'
<1>1. pc[t] = "join2" /\ ~IsLeaf(t) /\ t \in Thread
  BY DEF JoinSecond, ControlInv, SplitOK, Parenting, Thread
<1>2. PICK m \in Int : /\ t[1] <= m /\ m < t[2]
                       /\ First(t)[1] = t[1] /\ First(t)[2] = m
                       /\ Second(t)[1] = m + 1 /\ Second(t)[2] = t[2]
  BY <1>1, HalvesAre
<1>3. v1[t] = Total(First(t))
  BY <1>1 DEF SumInv, JoinsSecond
<1>4. result[Second(t)] = Total(Second(t))
  BY <1>1, HalvesAre, JoinedHasSum DEF JoinSecond, Joins, JoinsSecond
<1>5. Total(t) = Total(First(t)) + Total(Second(t))
  <2>1. t[1] \in 0 .. (N - 1) /\ t[2] \in 0 .. (N - 1) /\ N \in Nat
    BY FrameworkAssumption DEF Task
  <2>2. /\ t[1] .. m \in SUBSET (0 .. (N - 1)) /\ (m + 1) .. t[2] \in SUBSET (0 .. (N - 1))
        /\ (t[1] .. m) \cap ((m + 1) .. t[2]) = {}
        /\ (t[1] .. m) \cup ((m + 1) .. t[2]) = t[1] .. t[2]
    BY <1>2, <2>1
  <2>3. SumFunctionOnSet(Arr, (t[1] .. m) \cup ((m + 1) .. t[2]))
          = SumFunctionOnSet(Arr, t[1] .. m) + SumFunctionOnSet(Arr, (m + 1) .. t[2])
    <3> DEFINE D == 0 .. (N - 1)
               S == t[1] .. m
               R == (m + 1) .. t[2]
    <3>1. /\ IsFiniteSet(D) /\ Arr \in [D -> Int]
          /\ S \in SUBSET D /\ R \in SUBSET D /\ S \cap R = {}
      BY <2>2, ArrayIsFinite
    <3> HIDE DEF D, S, R
    <3>2. SumFunctionOnSet(Arr, S \cup R) = SumFunctionOnSet(Arr, S) + SumFunctionOnSet(Arr, R)
      BY <3>1, SumUnion
    <3> QED
      BY <3>2 DEF S, R
  <2> QED
    BY <1>2, <2>2, <2>3 DEF Total
<1>6. /\ pc'[t] = "store" /\ \A x \in Thread : x # t => pc'[x] = pc[x]
      /\ res'[t] = Total(t) /\ \A x \in Thread : x # t => res'[x] = res[x]
      /\ UNCHANGED <<result, v1>>
  BY <1>1, <1>3, <1>4, <1>5 DEF JoinSecond, ControlInv, TypeOK
<1>7. Main \in Thread /\ Main # t /\ \A u \in Task : u \in Thread
  BY MainIsNoTask DEF Thread
<1> QED
  BY <1>6, <1>7 DEF SumInv, Done, Finished, JoinsSecond, Last

LEMMA RunKeepsSums ==
  ASSUME ControlInv, SumInv, NEW t \in Task, Leaf(t) \/ Store(t)
  PROVE  SumInv'
<1>0. t \in Thread /\ Main \in Thread /\ Main # t /\ \A u \in Task : u \in Thread
  BY MainIsNoTask DEF Thread
<1>1. CASE Leaf(t)
  <2>1. Arr[t[1]] = Total(t)
    <3>1. t[1] \in 0 .. (N - 1) /\ t[2] = t[1]
      BY <1>1 DEF Leaf, IsLeaf, Task
    <3>2. t[1] .. t[2] = {t[1]}
      BY <3>1, FrameworkAssumption
    <3>3. SumFunctionOnSet(Arr, {t[1]}) = Arr[t[1]]
      <4> DEFINE D == 0 .. (N - 1)
      <4>1. IsFiniteSet(D) /\ Arr \in [D -> Int] /\ t[1] \in D
        BY <3>1, ArrayIsFinite
      <4> HIDE DEF D
      <4> QED
        BY <4>1, SumOne
    <3> QED
      BY <3>2, <3>3 DEF Total
  <2>2. /\ pc'[t] = "store" /\ \A x \in Thread : x # t => pc'[x] = pc[x]
        /\ res'[t] = Total(t) /\ \A x \in Thread : x # t => res'[x] = res[x]
        /\ UNCHANGED <<result, v1>>
    BY <1>0, <1>1, <2>1 DEF Leaf, ControlInv, TypeOK
  <2> QED
    BY <1>0, <2>2 DEF SumInv, Done, Finished, JoinsSecond, Last
<1>2. CASE Store(t)
  <2>1. /\ pc'[t] = "complete" /\ \A x \in Thread : x # t => pc'[x] = pc[x]
        /\ result'[t] = Total(t) /\ \A x \in Task : x # t => result'[x] = result[x]
        /\ UNCHANGED <<res, v1>>
    BY <1>0, <1>2 DEF Store, ControlInv, TypeOK, SumInv
  <2> QED
    BY <1>0, <2>1 DEF SumInv, Done, Finished, JoinsSecond, Last
<1> QED
  BY <1>1, <1>2

LEMMA SumInvStep == ControlInv /\ SumInv /\ [Next]_vars => SumInv'
<1> SUFFICES ASSUME ControlInv, SumInv, [Next]_vars PROVE SumInv'
  OBVIOUS
<1>0. Main \in Thread /\ \A t \in Task : t \in Thread
  BY DEF Thread
<1>1. CASE UNCHANGED vars
  BY <1>1 DEF vars, SumInv
<1>2. CASE MainStep
  BY <1>0, <1>2, ForkIsValueless, MoveIsValueless, ValuelessKeepsSums, JoinFirstKeepsSums DEF MainStep
<1>3. ASSUME NEW t \in Task, TaskStep(t) \/ SpuriousWakeup(t) PROVE SumInv'
  <2>1. CASE ForkFirst(t) \/ ForkSecond(t)
    BY <1>0, <2>1, ForkIsValueless, ValuelessKeepsSums
  <2>2. CASE JoinWaits(t) \/ Split(t) \/ MallocFailed(t) \/ Unlock(t) \/ Return(t)
    BY <1>0, <2>2, MoveIsValueless, ValuelessKeepsSums
  <2>3. CASE Complete(t) \/ SpuriousWakeup(t)
    BY <2>3, WakeIsValueless, ValuelessKeepsSums
  <2>4. CASE JoinFirst(t)
    BY <1>0, <2>4, JoinFirstKeepsSums
  <2>5. CASE JoinSecond(t)
    BY <2>5, JoinSecondKeepsSums
  <2>6. CASE Leaf(t) \/ Store(t)
    BY <2>6, RunKeepsSums
  <2> QED
    BY <1>3, <2>1, <2>2, <2>3, <2>4, <2>5, <2>6 DEF TaskStep
<1> QED
  BY <1>1, <1>2, <1>3 DEF Next

(* A finished task holds the sum of its range, and main gets the sum of the *)
(* whole array, for every array and every order of the threads (lines       *)
(* 62-72, 113).                                                             *)
THEOREM SumsAreCorrect == Spec => []SumsCorrect
<1>1. Init => SumInv
  <2>1. Init => \A t \in Task : pc[t] = "none"
    BY MainIsNoTask DEF Init, Thread
  <2>2. Init => pc[Main] = "fork1"
    BY DEF Init, Thread
  <2> QED
    BY <2>1, <2>2 DEF SumInv, Done, Finished, JoinsSecond, Last
<1>2. IndInv => ControlInv
  BY DEF IndInv
<1>3. SumInv => SumsCorrect
  <2>1. Root[1] .. Root[2] = DOMAIN Arr
    BY FrameworkAssumption DEF Root
  <2>2. Total(Root) = SumFunction(Arr)
    BY <2>1 DEF Total, SumFunction
  <2> QED
    BY <2>2 DEF SumInv, SumsCorrect, Done, Finished, Last, Total
<1> QED
  BY <1>1, <1>2, <1>3, SumInvStep, IndInvHolds, PTL DEF Spec
=============================================================================
