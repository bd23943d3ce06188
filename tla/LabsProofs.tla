----------------------------- MODULE LabsProofs -----------------------------
(***************************************************************************)
(* The safety of the small programs, for every size of their buffers and   *)
(* queues, every number of items, additions, philosophers, requests and    *)
(* nodes, and every input.  Each program has an inductive invariant of its *)
(* own, and a behaviour of Labs runs one program.                          *)
(***************************************************************************)
EXTENDS Labs, SumTheorems, SequenceTheorems

LEMMA FreeIsNobody ==
  /\ Free \notin Int
  /\ Free # "main" /\ Free # "producer" /\ Free # "consumer" /\ Free # "flusher"
  /\ Free # "adder1" /\ Free # "adder2" /\ Free # "detector" /\ Free # "writer"
BY RuntimeAssumption DEF B!Threads, C!Threads, C!Adders

-----------------------------------------------------------------------------
(* Rings *)

(* Indices that wrap around once. *)
Wrap(c, s) == c % s

LEMMA Wraps ==
  ASSUME NEW s \in Nat \ {0}, NEW c \in Int, 0 <= c, c < 2 * s
  PROVE  /\ ((c < s => Wrap(c, s) = c) /\ (c >= s => Wrap(c, s) = c - s))
         /\ Wrap(c, s) \in 0 .. s - 1
<1>1. CASE c < s
  BY <1>1 DEF Wrap
<1>2. CASE ~(c < s)
  <2>1. \A r \in 0 .. (s - 1) : (r + s) % s = r
    OBVIOUS
  <2>2. c - s \in 0 .. (s - 1) /\ (c - s) + s = c
    BY <1>2
  <2> QED
    BY <1>2, <2>1, <2>2 DEF Wrap
<1> QED
  BY <1>1, <1>2

WrapsTo(c, s, w) == (c < s => w = c) /\ (c >= s => w = c - s)

LEMMA RingCell ==
  ASSUME NEW s \in Nat \ {0}, NEW c \in Int, 0 <= c, c < 2 * s
  PROVE  \E w \in 0 .. s - 1 : w = Wrap(c, s) /\ WrapsTo(c, s, w)
BY Wraps DEF WrapsTo

(* A ring of s cells: it is read at u, it is written at f, and its n       *)
(* items are the numbers after `first'.                                    *)
IsRing(s, b, u, f, n, first) ==
  f = Wrap(u + n, s) /\ \A k \in 1 .. n : b[Wrap(u + k - 1, s)] = first + k

HasItems(s, b, u, n, first) ==
  \A k \in 1 .. n :
    \E w \in 0 .. s - 1 : w = Wrap(u + k - 1, s) /\ WrapsTo(u + k - 1, s, w) /\ b[w] = first + k

(* The cells of the items, *)
LEMMA RingItem ==
  ASSUME NEW s \in Nat \ {0}, NEW u \in 0 .. s - 1, NEW n \in 0 .. s, NEW b, NEW f, NEW first,
         IsRing(s, b, u, f, n, first)
  PROVE  HasItems(s, b, u, n, first)
<1> SUFFICES ASSUME NEW k \in 1 .. n
             PROVE  \E w \in 0 .. s - 1 :
                      w = Wrap(u + k - 1, s) /\ WrapsTo(u + k - 1, s, w) /\ b[w] = first + k
  BY DEF HasItems
<1>1. PICK c \in Int : c = u + k - 1 /\ 0 <= c /\ c < 2 * s
  OBVIOUS
<1>2. PICK w \in 0 .. s - 1 : w = Wrap(c, s) /\ WrapsTo(c, s, w)
  BY Zenon, <1>1, RingCell
<1>3. b[w] = first + k
  BY Zenon, <1>1, <1>2 DEF IsRing
<1> QED
  BY Zenon, <1>1, <1>2, <1>3

(* and the cell behind them. *)
LEMMA RingEnd ==
  ASSUME NEW s \in Nat \ {0}, NEW u \in 0 .. s - 1, NEW n \in 0 .. s
  PROVE  \E w \in 0 .. s - 1 : w = Wrap(u + n, s) /\ WrapsTo(u + n, s, w)
<1>1. PICK c \in Int : c = u + n /\ 0 <= c /\ c < 2 * s
  OBVIOUS
<1>2. PICK w \in 0 .. s - 1 : w = Wrap(c, s) /\ WrapsTo(c, s, w)
  BY Zenon, <1>1, RingCell
<1> QED
  BY Zenon, <1>1, <1>2

(* A ring takes one more item behind the newest, *)
LEMMA RingPut ==
  ASSUME NEW s \in Nat \ {0}, NEW u \in 0 .. s - 1, NEW n \in 0 .. s - 1, NEW b \in [0 .. s - 1 -> Int],
         NEW first \in Nat, NEW f \in 0 .. s - 1, IsRing(s, b, u, f, n, first)
  PROVE  /\ Wrap(f + 1, s) \in 0 .. s - 1
         /\ IsRing(s, [b EXCEPT ![f] = first + n + 1], u, Wrap(f + 1, s), n + 1, first)
<1> n \in 0 .. s /\ 1 \in 0 .. s /\ n + 1 \in 0 .. s
  OBVIOUS
<1>10. HasItems(s, b, u, n, first)
  BY Zenon, RingItem
<1>1. WrapsTo(u + n, s, f)
  <2>1. f = Wrap(u + n, s)
    BY DEF IsRing
  <2> QED
    BY Zenon, <2>1, RingEnd
<1>3. PICK g \in 0 .. s - 1 : g = Wrap(f + 1, s) /\ WrapsTo(f + 1, s, g)
  BY Zenon, RingEnd
<1>4. WrapsTo(f + 1, s, g)
  BY <1>3
<1>5. PICK h \in 0 .. s - 1 : h = Wrap(u + (n + 1), s) /\ WrapsTo(u + (n + 1), s, h)
  BY Zenon, RingEnd
<1>6. WrapsTo(u + (n + 1), s, h)
  BY <1>5
<1>7. g = h
  BY <1>1, <1>4, <1>6 DEF WrapsTo
<1>8. ASSUME NEW k \in 1 .. n + 1
      PROVE  [b EXCEPT ![f] = first + n + 1][Wrap(u + k - 1, s)] = first + k
  <2>1. CASE k = n + 1
    <3>1. u + k - 1 = u + n
      BY <2>1
    <3>2. Wrap(u + k - 1, s) = f
      BY Zenon, <3>1 DEF IsRing
    <3> QED
      BY <2>1, <3>2
  <2>2. CASE k # n + 1
    <3>1. k \in 1 .. n
      BY <2>2
    <3>2. PICK w \in 0 .. s - 1 : w = Wrap(u + k - 1, s) /\ WrapsTo(u + k - 1, s, w) /\ b[w] = first + k
      BY Zenon, <1>10, <3>1 DEF HasItems
    <3>3. WrapsTo(u + k - 1, s, w)
      BY <3>2
    <3>4. w # f
      BY <1>1, <3>1, <3>3 DEF WrapsTo
    <3> QED
      BY <3>2, <3>4
  <2> QED
    BY <2>1, <2>2
<1>9. Wrap(f + 1, s) = Wrap(u + (n + 1), s)
  BY Zenon, <1>3, <1>5, <1>7
<1> QED
  BY Zenon, <1>3, <1>8, <1>9 DEF IsRing

(* and gives its oldest away. *)
LEMMA RingGet ==
  ASSUME NEW s \in Nat \ {0}, NEW u \in 0 .. s - 1, NEW n \in 1 .. s, NEW b \in [0 .. s - 1 -> Int],
         NEW first \in Nat, NEW f \in 0 .. s - 1, NEW x \in Int, IsRing(s, b, u, f, n, first)
  PROVE  /\ b[u] = first + 1
         /\ Wrap(u + 1, s) \in 0 .. s - 1
         /\ IsRing(s, [b EXCEPT ![u] = x], Wrap(u + 1, s), f, n - 1, first + 1)
<1> n \in 0 .. s /\ 1 \in 0 .. s /\ n - 1 \in 0 .. s
  OBVIOUS
<1>10. HasItems(s, b, u, n, first)
  BY Zenon, RingItem
<1>1. PICK v \in 0 .. s - 1 : v = Wrap(u + 1, s) /\ WrapsTo(u + 1, s, v)
  BY Zenon, RingEnd
<1>2. WrapsTo(u + 1, s, v)
  BY <1>1
<1>3. PICK g \in 0 .. s - 1 : g = Wrap(u + n, s) /\ WrapsTo(u + n, s, g)
  BY Zenon, RingEnd
<1>4. WrapsTo(u + n, s, g)
  BY <1>3
<1>5. PICK h \in 0 .. s - 1 : h = Wrap(v + (n - 1), s) /\ WrapsTo(v + (n - 1), s, h)
  BY Zenon, RingEnd
<1>6. WrapsTo(v + (n - 1), s, h)
  BY <1>5
<1>7. g = h
  BY <1>2, <1>4, <1>6 DEF WrapsTo
<1>8. b[u] = first + 1
  <2>1. PICK k \in 1 .. n : k = 1
    OBVIOUS
  <2>2. PICK w \in 0 .. s - 1 : w = Wrap(u + k - 1, s) /\ WrapsTo(u + k - 1, s, w) /\ b[w] = first + k
    BY Zenon, <1>10 DEF HasItems
  <2>3. WrapsTo(u + k - 1, s, w)
    BY <2>2
  <2>4. w = u
    BY <2>1, <2>3 DEF WrapsTo
  <2> QED
    BY <2>1, <2>2, <2>4
<1>9. ASSUME NEW k \in 1 .. n - 1
      PROVE  [b EXCEPT ![u] = x][Wrap(v + k - 1, s)] = first + 1 + k
  <2>1. PICK d \in 0 .. s : d = k - 1
    OBVIOUS
  <2>2. PICK w \in 0 .. s - 1 : w = Wrap(v + d, s) /\ WrapsTo(v + d, s, w)
    BY Zenon, RingEnd
  <2>3. WrapsTo(v + d, s, w)
    BY <2>2
  <2>4. PICK j \in 1 .. n : j = k + 1
    OBVIOUS
  <2>5. PICK z \in 0 .. s - 1 : z = Wrap(u + j - 1, s) /\ WrapsTo(u + j - 1, s, z) /\ b[z] = first + j
    BY Zenon, <1>10 DEF HasItems
  <2>6. WrapsTo(u + j - 1, s, z)
    BY <2>5
  <2>7. z = w /\ w # u
    BY <1>2, <2>1, <2>3, <2>4, <2>6 DEF WrapsTo
  <2>8. v + d = v + k - 1
    BY <2>1
  <2>9. w = Wrap(v + k - 1, s) /\ b[w] = first + j
    BY Zenon, <2>2, <2>5, <2>7, <2>8
  <2> QED
    BY <2>4, <2>7, <2>9
<1> QED
  BY Zenon, <1>1, <1>3, <1>5, <1>7, <1>8, <1>9 DEF IsRing

-----------------------------------------------------------------------------
(* pc: a ring between two semaphores *)

PcShape == mem = [buffer |-> mem.buffer, fill |-> mem.fill, use |-> mem.use, tmp |-> mem.tmp,
                  sem |-> mem.sem, lock |-> mem.lock, made |-> mem.made, taken |-> mem.taken]

PcThreads == {"main", "producer", "consumer"}
PcLabels == {"join", "exited", "sem", "lock", "put", "get", "unlock", "post", "done"}
PcType == /\ PcShape
          /\ pc \in [PcThreads -> PcLabels] /\ pc["main"] \in {"join", "exited"}
          /\ pc["producer"] \in {"sem", "lock", "put", "unlock", "post", "done"}
          /\ pc["consumer"] \in {"sem", "lock", "get", "unlock", "post"}
          /\ mem.buffer \in [0 .. SLOTS - 1 -> Int]
          /\ mem.fill \in 0 .. SLOTS - 1 /\ mem.use \in 0 .. SLOTS - 1 /\ mem.tmp \in Nat
          /\ mem.sem \in [{"empty", "full"} -> Nat]
          /\ mem.made \in Nat /\ mem.taken \in Seq(Nat)

(* A thread inside the mutex holds it. *)
PcMutex == /\ pc["producer"] \in {"put", "unlock"} <=> mem.lock = "producer"
           /\ pc["consumer"] \in {"get", "unlock"} <=> mem.lock = "consumer"

Busy(t) == IF pc[t] \in {"lock", "put", "get", "unlock", "post"} THEN 1 ELSE 0
JustPut == IF pc["producer"] \in {"unlock", "post"} THEN 1 ELSE 0
ToGet == IF pc["consumer"] \in {"lock", "get"} THEN 1 ELSE 0

(* Every slot is counted by a semaphore or in a thread's hands, and the    *)
(* ring holds what `full' counts and what is not yet or no longer counted. *)
PcCount ==
  /\ mem.sem["empty"] + mem.sem["full"] + Busy("producer") + Busy("consumer") = SLOTS
  /\ mem.made - Len(mem.taken) = mem.sem["full"] + JustPut + ToGet

(* The ring holds the items made and not taken, oldest first. *)
PcRing ==
  /\ mem.made - Len(mem.taken) \in Nat
  /\ IsRing(SLOTS, mem.buffer, mem.use, mem.fill, mem.made - Len(mem.taken), Len(mem.taken))
  /\ \A k \in 1 .. Len(mem.taken) : mem.taken[k] = k

PcInv == PcType /\ PcMutex /\ PcCount /\ PcRing

LEMMA PcNext ==
  ASSUME program = "pc", [Next]_vars, PcShape
  PROVE  \/ B!PcProducer("producer") \/ B!PcConsumer("consumer")
         \/ B!Join("main", {"producer", "consumer"}, "join", "exited")
         \/ UNCHANGED vars
<1>1. ~SpuriousWakeup
  BY Zenon DEF SpuriousWakeup, PcShape
<1> QED
  BY <1>1 DEF Next, B!Next, C!Next, M!Next, R!Next, L!Next, S!Next, K!Next, B!Step, C!Step, M!Step, M!SendFails,
     R!Manage, R!Dine, R!Detect, R!Main, L!Step, S!Step, vars,
     C!Programs, C!Threaded, B!PcProducer, B!PcConsumer

(* What the steps do to the fields of the memory. *)
LEMMA PcProducerMoves ==
  ASSUME PcShape, B!PcProducer("producer")
  PROVE  /\ PcShape' /\ UNCHANGED <<program, mem.use, mem.tmp, mem.taken>>
         /\ \/ /\ pc["producer"] = "sem" /\ pc' = [pc EXCEPT !["producer"] = "lock"]
               /\ mem.made < ITEMS /\ mem.sem["empty"] > 0
               /\ mem'.sem = [mem.sem EXCEPT !["empty"] = mem.sem["empty"] - 1]
               /\ UNCHANGED <<mem.buffer, mem.fill, mem.lock, mem.made>>
            \/ /\ pc["producer"] = "lock" /\ pc' = [pc EXCEPT !["producer"] = "put"]
               /\ mem.lock = Free /\ mem'.lock = "producer"
               /\ UNCHANGED <<mem.buffer, mem.fill, mem.sem, mem.made>>
            \/ /\ pc["producer"] = "put" /\ pc' = [pc EXCEPT !["producer"] = "unlock"]
               /\ mem'.buffer = [mem.buffer EXCEPT ![mem.fill] = mem.made + 1]
               /\ mem'.fill = Wrap(mem.fill + 1, SLOTS) /\ mem'.made = mem.made + 1
               /\ UNCHANGED <<mem.sem, mem.lock>>
            \/ /\ pc["producer"] = "unlock" /\ pc' = [pc EXCEPT !["producer"] = "post"]
               /\ mem'.lock = Free
               /\ UNCHANGED <<mem.buffer, mem.fill, mem.sem, mem.made>>
            \/ /\ pc["producer"] = "post" /\ pc' = [pc EXCEPT !["producer"] = "sem"]
               /\ mem'.sem = [mem.sem EXCEPT !["full"] = mem.sem["full"] + 1]
               /\ UNCHANGED <<mem.buffer, mem.fill, mem.lock, mem.made>>
            \/ /\ pc["producer"] = "sem" /\ pc' = [pc EXCEPT !["producer"] = "done"]
               /\ UNCHANGED mem
BY Zenon DEF PcShape, B!PcProducer, B!SemWait, B!Lock, B!Move, B!put, B!Unlock, B!SemPost, B!Goto, Wrap

LEMMA PcConsumerMoves ==
  ASSUME PcShape, B!PcConsumer("consumer")
  PROVE  /\ PcShape' /\ UNCHANGED <<program, mem.fill, mem.made>>
         /\ \/ /\ pc["consumer"] = "sem" /\ pc' = [pc EXCEPT !["consumer"] = "lock"]
               /\ mem.sem["full"] > 0
               /\ mem'.sem = [mem.sem EXCEPT !["full"] = mem.sem["full"] - 1]
               /\ UNCHANGED <<mem.buffer, mem.use, mem.tmp, mem.lock, mem.taken>>
            \/ /\ pc["consumer"] = "lock" /\ pc' = [pc EXCEPT !["consumer"] = "get"]
               /\ mem.lock = Free /\ mem'.lock = "consumer"
               /\ UNCHANGED <<mem.buffer, mem.use, mem.tmp, mem.sem, mem.taken>>
            \/ /\ pc["consumer"] = "get" /\ pc' = [pc EXCEPT !["consumer"] = "unlock"]
               /\ mem'.taken = Append(mem.taken, mem.buffer[mem.use])
               /\ mem'.tmp = mem.buffer[mem.use]
               /\ mem'.buffer = [mem.buffer EXCEPT ![mem.use] = -1]
               /\ mem'.use = Wrap(mem.use + 1, SLOTS)
               /\ UNCHANGED <<mem.sem, mem.lock>>
            \/ /\ pc["consumer"] = "unlock" /\ pc' = [pc EXCEPT !["consumer"] = "post"]
               /\ mem'.lock = Free
               /\ UNCHANGED <<mem.buffer, mem.use, mem.tmp, mem.sem, mem.taken>>
            \/ /\ pc["consumer"] = "post" /\ pc' = [pc EXCEPT !["consumer"] = "sem"]
               /\ mem'.sem = [mem.sem EXCEPT !["empty"] = mem.sem["empty"] + 1]
               /\ UNCHANGED <<mem.buffer, mem.use, mem.tmp, mem.lock, mem.taken>>
            \/ /\ pc["consumer"] = "sem" /\ pc' = [pc EXCEPT !["consumer"] = "done"]
               /\ mem.tmp = -1 /\ UNCHANGED mem
BY Zenon DEF PcShape, B!PcConsumer, B!SemWait, B!Lock, B!Move, B!get, B!Unlock, B!SemPost, B!Goto, Wrap

LEMMA PcProducerKeeps ==
  ASSUME PcInv, B!PcProducer("producer")
  PROVE  PcInv'
<1>0. PcType /\ PcMutex /\ PcCount /\ PcRing /\ Free # "producer" /\ Free # "consumer"
  BY FreeIsNobody DEF PcInv
<1>1. PcShape' /\ UNCHANGED <<program, mem.use, mem.tmp, mem.taken>>
  BY <1>0, PcProducerMoves DEF PcType
<1>2. CASE /\ pc["producer"] = "sem" /\ pc' = [pc EXCEPT !["producer"] = "lock"]
           /\ mem.made < ITEMS /\ mem.sem["empty"] > 0
           /\ mem'.sem = [mem.sem EXCEPT !["empty"] = mem.sem["empty"] - 1]
           /\ UNCHANGED <<mem.buffer, mem.fill, mem.lock, mem.made>>
  <2>0. PICK e \in Nat, f \in Nat : mem.sem["empty"] = e /\ mem.sem["full"] = f
    BY <1>0 DEF PcType
  <2>3. mem'.sem \in [{"empty", "full"} -> Nat] /\ mem'.sem["empty"] = e - 1 /\ mem'.sem["full"] = f
    BY <1>0, <1>2, <2>0 DEF PcType
  <2>4. PcType' /\ PcMutex'
    BY <1>0, <1>1, <1>2, <2>3 DEF PcType, PcMutex, PcThreads, PcLabels
  <2>8. pc["producer"] = "sem" /\ pc'["producer"] = "lock" /\ pc'["consumer"] = pc["consumer"]
    BY <1>0, <1>2 DEF PcType, PcThreads
  <2>7. /\ Busy("producer") = 0 /\ Busy("producer")' = 1 /\ JustPut = 0 /\ JustPut' = 0
       /\ Busy("consumer")' = Busy("consumer") /\ ToGet' = ToGet
       /\ Busy("consumer") \in 0 .. 1 /\ ToGet \in 0 .. 1
    BY <2>8 DEF Busy, JustPut, ToGet
  <2>5. PcCount'
    <3>1. mem'.made - Len(mem'.taken) = mem.made - Len(mem.taken)
      BY <1>1, <1>2
    <3>2. /\ e + f + 0 + Busy("consumer") = SLOTS /\ mem.made - Len(mem.taken) = f + 0 + ToGet
          /\ mem'.sem["empty"] + mem'.sem["full"] + Busy("producer")' + Busy("consumer")' = SLOTS
      BY <1>0, <2>0, <2>3, <2>7, BuffersAssumption DEF PcCount
    <3> QED
      BY <2>3, <2>7, <3>1, <3>2 DEF PcCount
  <2>1. PcType' /\ PcMutex' /\ PcCount'
    BY <2>4, <2>5
  <2>2. PcRing'
    BY <1>0, <1>1, <1>2 DEF PcRing
  <2> QED
    BY <2>1, <2>2 DEF PcInv
<1>3. CASE /\ pc["producer"] = "lock" /\ pc' = [pc EXCEPT !["producer"] = "put"]
           /\ mem.lock = Free /\ mem'.lock = "producer"
           /\ UNCHANGED <<mem.buffer, mem.fill, mem.sem, mem.made>>
  <2>8. pc["producer"] = "lock" /\ pc'["producer"] = "put" /\ pc'["consumer"] = pc["consumer"]
    BY <1>0, <1>3 DEF PcType, PcThreads
  <2>7. /\ Busy("producer") = 1 /\ Busy("producer")' = 1 /\ JustPut = 0 /\ JustPut' = 0
       /\ Busy("consumer")' = Busy("consumer") /\ ToGet' = ToGet
       /\ Busy("consumer") \in 0 .. 1 /\ ToGet \in 0 .. 1
    BY <2>8 DEF Busy, JustPut, ToGet
  <2>1. PcType' /\ PcMutex' /\ PcCount'
    BY <1>0, <1>1, <1>3, <2>7 DEF PcType, PcMutex, PcCount, PcThreads, PcLabels
  <2>2. PcRing'
    BY <1>0, <1>1, <1>3 DEF PcRing
  <2> QED
    BY <2>1, <2>2 DEF PcInv
<1>4. CASE /\ pc["producer"] = "put" /\ pc' = [pc EXCEPT !["producer"] = "unlock"]
           /\ mem'.buffer = [mem.buffer EXCEPT ![mem.fill] = mem.made + 1]
           /\ mem'.fill = Wrap(mem.fill + 1, SLOTS) /\ mem'.made = mem.made + 1
           /\ UNCHANGED <<mem.sem, mem.lock>>
  <2>1. PICK n \in 0 .. SLOTS - 1 : n = mem.made - Len(mem.taken)
    BY <1>0, <1>4, BuffersAssumption DEF PcType, PcCount, PcRing, Busy, JustPut, ToGet
  <2>2. PICK first \in Nat : first = Len(mem.taken) /\ mem.made = first + n /\ mem.made + 1 = first + n + 1
    <3>1. Len(mem.taken) \in Nat /\ mem.made \in Nat
      BY <1>0 DEF PcType
    <3> QED
      BY <2>1, <3>1
  <2>3. IsRing(SLOTS, mem.buffer, mem.use, mem.fill, n, first)
    BY Zenon, <1>0, <2>1, <2>2 DEF PcRing
  <2>4. /\ mem'.fill \in 0 .. SLOTS - 1
        /\ IsRing(SLOTS, mem'.buffer, mem.use, mem'.fill, n + 1, first)
    <3>1. /\ mem.use \in 0 .. SLOTS - 1 /\ mem.fill \in 0 .. SLOTS - 1
          /\ mem.buffer \in [0 .. SLOTS - 1 -> Int]
      BY <1>0 DEF PcType
    <3>2. /\ Wrap(mem.fill + 1, SLOTS) \in 0 .. SLOTS - 1
          /\ IsRing(SLOTS, [mem.buffer EXCEPT ![mem.fill] = first + n + 1], mem.use,
                    Wrap(mem.fill + 1, SLOTS), n + 1, first)
      BY Zenon, <2>3, <3>1, RingPut, BuffersAssumption
    <3> QED
      BY Zenon, <1>4, <2>2, <3>2
  <2>5. PcType' /\ PcMutex' /\ PcCount'
    <3>1. PcType'
      BY <1>0, <1>1, <1>4, <2>2, <2>4 DEF PcType, PcThreads, PcLabels
    <3>2. PcMutex'
      BY <1>0, <1>1, <1>4 DEF PcType, PcMutex
    <3>8. pc["producer"] = "put" /\ pc'["producer"] = "unlock" /\ pc'["consumer"] = pc["consumer"]
      BY <1>0, <1>4 DEF PcType, PcThreads
    <3>7. /\ Busy("producer") = 1 /\ Busy("producer")' = 1 /\ JustPut = 0 /\ JustPut' = 1
         /\ Busy("consumer")' = Busy("consumer") /\ ToGet' = ToGet
         /\ Busy("consumer") \in 0 .. 1 /\ ToGet \in 0 .. 1
      BY <3>8 DEF Busy, JustPut, ToGet
    <3>3. PcCount'
      <4>1. PICK e \in Nat, f \in Nat : mem.sem["empty"] = e /\ mem.sem["full"] = f
        BY <1>0 DEF PcType
      <4>2. mem'.sem = mem.sem /\ mem'.made = first + n + 1 /\ Len(mem'.taken) = first
        BY <1>1, <1>4, <2>2
      <4>3. e + f + Busy("producer") + Busy("consumer") = SLOTS /\ n = f + JustPut + ToGet
        BY <1>0, <2>1, <4>1 DEF PcCount
      <4> QED
        BY <3>7, <4>1, <4>2, <4>3 DEF PcCount
    <3> QED
      BY <3>1, <3>2, <3>3
  <2>6. n + 1 = mem'.made - Len(mem'.taken) /\ first = Len(mem'.taken)
    BY <1>1, <1>4, <2>1, <2>2
  <2>7. PcRing'
    <3>1. mem'.made - Len(mem'.taken) \in Nat /\ \A k \in 1 .. Len(mem'.taken) : mem'.taken[k] = k
      BY <1>0, <1>1, <2>6 DEF PcRing
    <3> QED
      BY Zenon, <1>1, <2>4, <2>6, <3>1 DEF PcRing
  <2> QED
    BY <2>5, <2>7 DEF PcInv
<1>5. CASE /\ pc["producer"] = "unlock" /\ pc' = [pc EXCEPT !["producer"] = "post"]
           /\ mem'.lock = Free
           /\ UNCHANGED <<mem.buffer, mem.fill, mem.sem, mem.made>>
  <2>8. pc["producer"] = "unlock" /\ pc'["producer"] = "post" /\ pc'["consumer"] = pc["consumer"]
    BY <1>0, <1>5 DEF PcType, PcThreads
  <2>7. /\ Busy("producer") = 1 /\ Busy("producer")' = 1 /\ JustPut = 1 /\ JustPut' = 1
       /\ Busy("consumer")' = Busy("consumer") /\ ToGet' = ToGet
       /\ Busy("consumer") \in 0 .. 1 /\ ToGet \in 0 .. 1
    BY <2>8 DEF Busy, JustPut, ToGet
  <2>1. PcType' /\ PcMutex' /\ PcCount'
    BY <1>0, <1>1, <1>5, <2>7 DEF PcType, PcMutex, PcCount, PcThreads, PcLabels
  <2>2. PcRing'
    BY <1>0, <1>1, <1>5 DEF PcRing
  <2> QED
    BY <2>1, <2>2 DEF PcInv
<1>6. CASE /\ pc["producer"] = "post" /\ pc' = [pc EXCEPT !["producer"] = "sem"]
           /\ mem'.sem = [mem.sem EXCEPT !["full"] = mem.sem["full"] + 1]
           /\ UNCHANGED <<mem.buffer, mem.fill, mem.lock, mem.made>>
  <2>0. PICK e \in Nat, f \in Nat : mem.sem["empty"] = e /\ mem.sem["full"] = f
    BY <1>0 DEF PcType
  <2>3. mem'.sem \in [{"empty", "full"} -> Nat] /\ mem'.sem["empty"] = e /\ mem'.sem["full"] = f + 1
    BY <1>0, <1>6, <2>0 DEF PcType
  <2>4. PcType' /\ PcMutex'
    BY <1>0, <1>1, <1>6, <2>3 DEF PcType, PcMutex, PcThreads, PcLabels
  <2>8. pc["producer"] = "post" /\ pc'["producer"] = "sem" /\ pc'["consumer"] = pc["consumer"]
    BY <1>0, <1>6 DEF PcType, PcThreads
  <2>7. /\ Busy("producer") = 1 /\ Busy("producer")' = 0 /\ JustPut = 1 /\ JustPut' = 0
       /\ Busy("consumer")' = Busy("consumer") /\ ToGet' = ToGet
       /\ Busy("consumer") \in 0 .. 1 /\ ToGet \in 0 .. 1
    BY <2>8 DEF Busy, JustPut, ToGet
  <2>5. PcCount'
    BY <1>0, <1>1, <1>6, <2>0, <2>3, <2>7 DEF PcType, PcCount
  <2>1. PcType' /\ PcMutex' /\ PcCount'
    BY <2>4, <2>5
  <2>2. PcRing'
    BY <1>0, <1>1, <1>6 DEF PcRing
  <2> QED
    BY <2>1, <2>2 DEF PcInv
<1>7. CASE /\ pc["producer"] = "sem" /\ pc' = [pc EXCEPT !["producer"] = "done"]
           /\ UNCHANGED mem
  <2>8. pc["producer"] = "sem" /\ pc'["producer"] = "done" /\ pc'["consumer"] = pc["consumer"]
    BY <1>0, <1>7 DEF PcType, PcThreads
  <2>7. /\ Busy("producer") = 0 /\ Busy("producer")' = 0 /\ JustPut = 0 /\ JustPut' = 0
       /\ Busy("consumer")' = Busy("consumer") /\ ToGet' = ToGet
       /\ Busy("consumer") \in 0 .. 1 /\ ToGet \in 0 .. 1
    BY <2>8 DEF Busy, JustPut, ToGet
  <2>1. PcType' /\ PcMutex' /\ PcCount'
    BY <1>0, <1>1, <1>7, <2>7 DEF PcType, PcMutex, PcCount, PcThreads, PcLabels
  <2>2. PcRing'
    BY <1>0, <1>1, <1>7 DEF PcRing
  <2> QED
    BY <2>1, <2>2 DEF PcInv
<1> QED
  BY <1>0, <1>2, <1>3, <1>4, <1>5, <1>6, <1>7, PcProducerMoves DEF PcType

LEMMA PcConsumerKeeps ==
  ASSUME PcInv, B!PcConsumer("consumer")
  PROVE  PcInv'
<1>0. PcType /\ PcMutex /\ PcCount /\ PcRing /\ Free # "producer" /\ Free # "consumer"
  BY FreeIsNobody DEF PcInv
<1>1. PcShape' /\ UNCHANGED <<program, mem.fill, mem.made>>
  BY <1>0, PcConsumerMoves DEF PcType
<1>2. CASE /\ pc["consumer"] = "sem" /\ pc' = [pc EXCEPT !["consumer"] = "lock"]
           /\ mem.sem["full"] > 0
           /\ mem'.sem = [mem.sem EXCEPT !["full"] = mem.sem["full"] - 1]
           /\ UNCHANGED <<mem.buffer, mem.use, mem.tmp, mem.lock, mem.taken>>
  <2>0. PICK e \in Nat, f \in Nat : mem.sem["empty"] = e /\ mem.sem["full"] = f
    BY <1>0 DEF PcType
  <2>3. mem'.sem \in [{"empty", "full"} -> Nat] /\ mem'.sem["empty"] = e /\ mem'.sem["full"] = f - 1
    BY <1>0, <1>2, <2>0 DEF PcType
  <2>4. PcType' /\ PcMutex'
    BY <1>0, <1>1, <1>2, <2>3 DEF PcType, PcMutex, PcThreads, PcLabels
  <2>8. pc["consumer"] = "sem" /\ pc'["consumer"] = "lock" /\ pc'["producer"] = pc["producer"]
    BY <1>0, <1>2 DEF PcType, PcThreads
  <2>7. /\ Busy("consumer") = 0 /\ Busy("consumer")' = 1 /\ ToGet = 0 /\ ToGet' = 1
       /\ Busy("producer")' = Busy("producer") /\ JustPut' = JustPut
       /\ Busy("producer") \in 0 .. 1 /\ JustPut \in 0 .. 1
    BY <2>8 DEF Busy, JustPut, ToGet
  <2>5. PcCount'
    <3>1. /\ e + f + Busy("producer") + Busy("consumer") = SLOTS
          /\ mem.made - Len(mem.taken) = f + JustPut + ToGet
      BY <1>0, <2>0 DEF PcCount
    <3>2. mem'.made - Len(mem'.taken) = mem.made - Len(mem.taken)
      BY <1>1, <1>2
    <3> QED
      BY <2>0, <2>3, <2>7, <3>1, <3>2 DEF PcCount
  <2>1. PcType' /\ PcMutex' /\ PcCount'
    BY <2>4, <2>5
  <2>2. PcRing'
    BY <1>0, <1>1, <1>2 DEF PcRing
  <2> QED
    BY <2>1, <2>2 DEF PcInv
<1>3. CASE /\ pc["consumer"] = "lock" /\ pc' = [pc EXCEPT !["consumer"] = "get"]
           /\ mem.lock = Free /\ mem'.lock = "consumer"
           /\ UNCHANGED <<mem.buffer, mem.use, mem.tmp, mem.sem, mem.taken>>
  <2>8. pc["consumer"] = "lock" /\ pc'["consumer"] = "get" /\ pc'["producer"] = pc["producer"]
    BY <1>0, <1>3 DEF PcType, PcThreads
  <2>7. /\ Busy("consumer") = 1 /\ Busy("consumer")' = 1 /\ ToGet = 1 /\ ToGet' = 1
       /\ Busy("producer")' = Busy("producer") /\ JustPut' = JustPut
       /\ Busy("producer") \in 0 .. 1 /\ JustPut \in 0 .. 1
    BY <2>8 DEF Busy, JustPut, ToGet
  <2>1. PcType' /\ PcMutex' /\ PcCount'
    BY <1>0, <1>1, <1>3, <2>7 DEF PcType, PcMutex, PcCount, PcThreads, PcLabels
  <2>2. PcRing'
    BY <1>0, <1>1, <1>3 DEF PcRing
  <2> QED
    BY <2>1, <2>2 DEF PcInv
<1>4. CASE /\ pc["consumer"] = "get" /\ pc' = [pc EXCEPT !["consumer"] = "unlock"]
           /\ mem'.taken = Append(mem.taken, mem.buffer[mem.use])
           /\ mem'.tmp = mem.buffer[mem.use]
           /\ mem'.buffer = [mem.buffer EXCEPT ![mem.use] = -1]
           /\ mem'.use = Wrap(mem.use + 1, SLOTS)
           /\ UNCHANGED <<mem.sem, mem.lock>>
  <2>1. PICK n \in 1 .. SLOTS : n = mem.made - Len(mem.taken)
    <3>1. PICK f \in Nat, e \in Nat : mem.sem["full"] = f /\ mem.sem["empty"] = e
      BY <1>0 DEF PcType
    <3>2. ToGet = 1 /\ JustPut \in 0 .. 1 /\ Busy("consumer") = 1 /\ Busy("producer") \in 0 .. 1 /\ JustPut <= Busy("producer")
      BY <1>4 DEF ToGet, JustPut, Busy
    <3> QED
      BY <1>0, <3>1, <3>2, BuffersAssumption DEF PcCount
  <2>2. PICK first \in Nat : first = Len(mem.taken) /\ mem.made = first + n
    <3>1. Len(mem.taken) \in Nat /\ mem.made \in Nat
      BY <1>0 DEF PcType
    <3> QED
      BY <2>1, <3>1
  <2>3. IsRing(SLOTS, mem.buffer, mem.use, mem.fill, n, first)
    BY Zenon, <1>0, <2>1, <2>2 DEF PcRing
  <2>4. /\ mem.use \in 0 .. SLOTS - 1 /\ mem.fill \in 0 .. SLOTS - 1
        /\ mem.buffer \in [0 .. SLOTS - 1 -> Int] /\ -1 \in Int
    BY <1>0 DEF PcType
  <2>5. /\ mem.buffer[mem.use] = first + 1 /\ mem'.use \in 0 .. SLOTS - 1
        /\ IsRing(SLOTS, mem'.buffer, mem'.use, mem.fill, n - 1, first + 1)
    <3>1. /\ mem.buffer[mem.use] = first + 1 /\ Wrap(mem.use + 1, SLOTS) \in 0 .. SLOTS - 1
          /\ IsRing(SLOTS, [mem.buffer EXCEPT ![mem.use] = -1], Wrap(mem.use + 1, SLOTS), mem.fill,
                    n - 1, first + 1)
      BY Zenon, <2>3, <2>4, RingGet, BuffersAssumption
    <3> QED
      BY Zenon, <1>4, <3>1
  <2>6. /\ mem'.taken = Append(mem.taken, first + 1) /\ mem'.taken \in Seq(Nat) /\ mem'.tmp \in Nat
        /\ Len(mem'.taken) = first + 1
    BY <1>0, <1>4, <2>2, <2>5 DEF PcType
  <2>9. PcType' /\ PcMutex' /\ PcCount'
    <3>1. PcType'
      BY SMTT(30), <1>0, <1>1, <1>4, <2>5, <2>6 DEF PcType, PcThreads, PcLabels
    <3>2. PcMutex'
      BY <1>0, <1>1, <1>4 DEF PcType, PcMutex
    <3>8. pc["consumer"] = "get" /\ pc'["consumer"] = "unlock" /\ pc'["producer"] = pc["producer"]
      BY <1>0, <1>4 DEF PcType, PcThreads
    <3>7. /\ Busy("consumer") = 1 /\ Busy("consumer")' = 1 /\ ToGet = 1 /\ ToGet' = 0
         /\ Busy("producer")' = Busy("producer") /\ JustPut' = JustPut
         /\ Busy("producer") \in 0 .. 1 /\ JustPut \in 0 .. 1
      BY <3>8 DEF Busy, JustPut, ToGet
    <3>3. PcCount'
      <4>1. PICK e \in Nat, f \in Nat : mem.sem["empty"] = e /\ mem.sem["full"] = f
        BY <1>0 DEF PcType
      <4>2. mem'.sem = mem.sem /\ mem'.made = first + n
        BY <1>1, <1>4, <2>2
      <4>3. e + f + Busy("producer") + Busy("consumer") = SLOTS /\ n = f + JustPut + ToGet
        BY <1>0, <2>1, <4>1 DEF PcCount
      <4>4. mem'.made - Len(mem'.taken) = n - 1
        <5>1. Len(mem'.taken) = first + 1 /\ mem'.made = first + n
          BY <2>6, <4>2
        <5> QED
          BY <5>1
      <4>5. mem'.sem["empty"] = e /\ mem'.sem["full"] = f
        BY <4>1, <4>2
      <4> QED
        BY <3>7, <4>3, <4>4, <4>5 DEF PcCount
    <3> QED
      BY <3>1, <3>2, <3>3
  <2>10. mem'.made - Len(mem'.taken) = n - 1 /\ n - 1 \in Nat
    BY <1>1, <2>2, <2>6
  <2>11. \A k \in 1 .. Len(mem'.taken) : mem'.taken[k] = k
    <3> SUFFICES ASSUME NEW k \in 1 .. first + 1 PROVE mem'.taken[k] = k
      BY <2>6
    <3>1. CASE k = first + 1
      BY <1>0, <2>2, <2>6, <3>1 DEF PcType
    <3>2. CASE k # first + 1
      <4>1. k \in 1 .. Len(mem.taken) /\ mem'.taken[k] = mem.taken[k]
        BY <1>0, <2>2, <2>6, <3>2 DEF PcType
      <4> QED
        BY <1>0, <4>1 DEF PcRing
    <3> QED
      BY <3>1, <3>2
  <2>12. PcRing'
    BY Zenon, <1>1, <2>5, <2>6, <2>10, <2>11 DEF PcRing
  <2> QED
    BY <2>9, <2>12 DEF PcInv
<1>5. CASE /\ pc["consumer"] = "unlock" /\ pc' = [pc EXCEPT !["consumer"] = "post"]
           /\ mem'.lock = Free
           /\ UNCHANGED <<mem.buffer, mem.use, mem.tmp, mem.sem, mem.taken>>
  <2>8. pc["consumer"] = "unlock" /\ pc'["consumer"] = "post" /\ pc'["producer"] = pc["producer"]
    BY <1>0, <1>5 DEF PcType, PcThreads
  <2>7. /\ Busy("consumer") = 1 /\ Busy("consumer")' = 1 /\ ToGet = 0 /\ ToGet' = 0
       /\ Busy("producer")' = Busy("producer") /\ JustPut' = JustPut
       /\ Busy("producer") \in 0 .. 1 /\ JustPut \in 0 .. 1
    BY <2>8 DEF Busy, JustPut, ToGet
  <2>1. PcType' /\ PcMutex' /\ PcCount'
    BY <1>0, <1>1, <1>5, <2>7 DEF PcType, PcMutex, PcCount, PcThreads, PcLabels
  <2>2. PcRing'
    BY <1>0, <1>1, <1>5 DEF PcRing
  <2> QED
    BY <2>1, <2>2 DEF PcInv
<1>6. CASE /\ pc["consumer"] = "post" /\ pc' = [pc EXCEPT !["consumer"] = "sem"]
           /\ mem'.sem = [mem.sem EXCEPT !["empty"] = mem.sem["empty"] + 1]
           /\ UNCHANGED <<mem.buffer, mem.use, mem.tmp, mem.lock, mem.taken>>
  <2>0. PICK e \in Nat, f \in Nat : mem.sem["empty"] = e /\ mem.sem["full"] = f
    BY <1>0 DEF PcType
  <2>3. mem'.sem \in [{"empty", "full"} -> Nat] /\ mem'.sem["empty"] = e + 1 /\ mem'.sem["full"] = f
    BY <1>0, <1>6, <2>0 DEF PcType
  <2>4. PcType' /\ PcMutex'
    BY <1>0, <1>1, <1>6, <2>3 DEF PcType, PcMutex, PcThreads, PcLabels
  <2>8. pc["consumer"] = "post" /\ pc'["consumer"] = "sem" /\ pc'["producer"] = pc["producer"]
    BY <1>0, <1>6 DEF PcType, PcThreads
  <2>7. /\ Busy("consumer") = 1 /\ Busy("consumer")' = 0 /\ ToGet = 0 /\ ToGet' = 0
       /\ Busy("producer")' = Busy("producer") /\ JustPut' = JustPut
       /\ Busy("producer") \in 0 .. 1 /\ JustPut \in 0 .. 1
    BY <2>8 DEF Busy, JustPut, ToGet
  <2>5. PcCount'
    <3>1. /\ e + f + Busy("producer") + Busy("consumer") = SLOTS
          /\ mem.made - Len(mem.taken) = f + JustPut + ToGet
      BY <1>0, <2>0 DEF PcCount
    <3>2. mem'.made - Len(mem'.taken) = mem.made - Len(mem.taken)
      BY <1>1, <1>6
    <3> QED
      BY <2>0, <2>3, <2>7, <3>1, <3>2 DEF PcCount
  <2>1. PcType' /\ PcMutex' /\ PcCount'
    BY <2>4, <2>5
  <2>2. PcRing'
    BY <1>0, <1>1, <1>6 DEF PcRing
  <2> QED
    BY <2>1, <2>2 DEF PcInv
<1>7. ~(mem.tmp = -1)
  BY <1>0 DEF PcType
<1> QED
  BY <1>0, <1>2, <1>3, <1>4, <1>5, <1>6, <1>7, PcConsumerMoves DEF PcType

LEMMA PcKeeps ==
  ASSUME program = "pc", PcInv, [Next]_vars
  PROVE  PcInv'
<1>1. CASE B!Join("main", {"producer", "consumer"}, "join", "exited")
  <2>1. mem' = mem /\ pc' = [pc EXCEPT !["main"] = "exited"]
    BY <1>1 DEF B!Join, B!Goto, B!Move
  <2>2. PcType /\ PcMutex /\ PcCount /\ PcRing
    BY DEF PcInv
  <2>3. pc'["producer"] = pc["producer"] /\ pc'["consumer"] = pc["consumer"]
    BY <2>1, <2>2 DEF PcType, PcThreads
  <2>4. PcType'
    BY <2>1, <2>2 DEF PcType, PcThreads, PcLabels, PcShape
  <2>5. PcMutex' /\ PcCount' /\ PcRing'
    BY Zenon, <2>1, <2>2, <2>3 DEF PcMutex, PcCount, PcRing, Busy, JustPut, ToGet
  <2> QED
    BY <2>4, <2>5 DEF PcInv
<1>2. CASE UNCHANGED vars
  BY Zenon, <1>2 DEF vars, PcInv, PcType, PcShape, PcMutex, PcCount, PcRing, Busy, JustPut, ToGet
<1> QED
  BY <1>1, <1>2, PcNext, PcProducerKeeps, PcConsumerKeeps DEF PcInv, PcType

LEMMA PcStarts ==
  ASSUME program = "pc", Init
  PROVE  PcInv
<1>1. /\ pc = [main |-> "join", producer |-> "sem", consumer |-> "sem"]
      /\ mem = [buffer |-> [k \in 0 .. SLOTS - 1 |-> 0], fill |-> 0, use |-> 0, tmp |-> 0,
            sem |-> [s \in B!Semaphores |-> IF s = "empty" THEN SLOTS ELSE 0], lock |-> Free,
            made |-> 0, taken |-> <<>>]
  BY DEF Init, B!Init, C!Init, M!Init, R!Init, L!Init, S!Init, K!Init, B!Start, C!Start, M!Start,
     R!Start, L!Start, S!Start, K!Start, C!Threaded
<1>2. /\ PcShape /\ mem.buffer = [k \in 0 .. SLOTS - 1 |-> 0] /\ mem.fill = 0 /\ mem.use = 0
      /\ mem.tmp = 0 /\ mem.sem = [s \in {"empty", "full"} |-> IF s = "empty" THEN SLOTS ELSE 0]
      /\ mem.lock = Free /\ mem.made = 0 /\ mem.taken = <<>>
  BY Zenon, <1>1 DEF PcShape, B!Semaphores
<1>3. mem.sem \in [{"empty", "full"} -> Nat] /\ mem.sem["empty"] = SLOTS /\ mem.sem["full"] = 0
  BY <1>2, BuffersAssumption
<1>4. PcType
  BY <1>1, <1>2, <1>3, BuffersAssumption DEF PcType, PcThreads, PcLabels
<1>5. PcMutex
  BY <1>1, <1>2, FreeIsNobody DEF PcMutex
<1>6. pc["producer"] = "sem" /\ pc["consumer"] = "sem"
  BY <1>1
<1>7. Busy("producer") = 0 /\ Busy("consumer") = 0 /\ JustPut = 0 /\ ToGet = 0
  BY <1>6 DEF Busy, JustPut, ToGet
<1>8. PcCount
  <2>1. mem.made - Len(mem.taken) = 0
    <3>1. mem.made = 0 /\ Len(mem.taken) = 0
      BY <1>2
    <3> QED
      BY <3>1
  <2> QED
    BY <1>3, <1>7, <2>1, BuffersAssumption DEF PcCount
<1>9. PcRing
  <2>1. mem.made - Len(mem.taken) = 0 /\ Len(mem.taken) = 0
    <3>1. mem.made = 0 /\ Len(mem.taken) = 0
      BY <1>2
    <3> QED
      BY <3>1
  <2>2. IsRing(SLOTS, mem.buffer, 0, 0, 0, 0)
    BY Wraps, BuffersAssumption DEF IsRing
  <2> QED
    BY <1>2, <2>1, <2>2 DEF PcRing
<1> QED
  BY <1>4, <1>5, <1>8, <1>9 DEF PcInv

LEMMA SameCardinality == \A T : B!Cardinality(T) = Cardinality(T)
BY Zenon DEF B!Cardinality, Cardinality

LEMMA PcSlotsKept ==
  ASSUME program = "pc", PcInv
  PROVE  B!SlotsKept
<1>0. PcType /\ PcMutex /\ PcCount /\ PcRing
  BY DEF PcInv
<1> DEFINE between == {t \in DOMAIN pc : B!BetweenSemaphores(t)}
<1>1. DOMAIN pc = PcThreads
  BY <1>0 DEF PcType
<1>2. between = {t \in {"producer", "consumer"} : B!BetweenSemaphores(t)}
  BY <1>0, <1>1 DEF PcType, PcThreads, B!BetweenSemaphores
<1>3. IsFiniteSet({}) /\ Cardinality({}) = 0 /\ Cardinality({"producer"}) = 1
      /\ Cardinality({"consumer"}) = 1 /\ Cardinality({"producer", "consumer"}) = 2
  <2>1. IsFiniteSet({}) /\ Cardinality({}) = 0
    BY FS_EmptySet
  <2>2. /\ IsFiniteSet({"producer"}) /\ Cardinality({"producer"}) = 1
        /\ Cardinality({"consumer"}) = 1
    BY Zenon, FS_Singleton
  <2>3. "consumer" \notin {"producer"} /\ {"producer"} \cup {"consumer"} = {"producer", "consumer"}
    OBVIOUS
  <2>4. Cardinality({"producer"} \cup {"consumer"}) = Cardinality({"producer"}) + 1
    BY <2>2, <2>3, FS_AddElement
  <2> QED
    BY <2>1, <2>2, <2>3, <2>4
<1>4. Cardinality(between) = Busy("producer") + Busy("consumer")
  <2>1. CASE Busy("producer") = 0 /\ Busy("consumer") = 0
    <3>1. between = {}
      BY <1>2, <2>1 DEF Busy, B!BetweenSemaphores
    <3> QED
      BY SMTT(30), <1>3, <2>1, <3>1
  <2>2. CASE Busy("producer") = 1 /\ Busy("consumer") = 0
    <3>1. between = {"producer"}
      BY <1>2, <2>2 DEF Busy, B!BetweenSemaphores
    <3> QED
      BY <1>3, <2>2, <3>1
  <2>3. CASE Busy("producer") = 0 /\ Busy("consumer") = 1
    <3>1. between = {"consumer"}
      BY <1>2, <2>3 DEF Busy, B!BetweenSemaphores
    <3> QED
      BY <1>3, <2>3, <3>1
  <2>4. CASE Busy("producer") = 1 /\ Busy("consumer") = 1
    <3>1. between = {"producer", "consumer"}
      BY <1>2, <2>4 DEF Busy, B!BetweenSemaphores
    <3> QED
      BY <1>3, <2>4, <3>1
  <2> QED
    BY <2>1, <2>2, <2>3, <2>4 DEF Busy
<1>5. mem.sem["empty"] + mem.sem["full"] + Cardinality(between) = SLOTS
  <2>1. PICK e \in Nat, f \in Nat : mem.sem["empty"] = e /\ mem.sem["full"] = f
    BY <1>0 DEF PcType
  <2>2. PICK x \in 0 .. 1, y \in 0 .. 1 : x = Busy("producer") /\ y = Busy("consumer")
    BY DEF Busy
  <2>3. e + f + x + y = SLOTS
    BY <1>0, <2>1, <2>2 DEF PcCount
  <2> HIDE DEF between
  <2> QED
    BY <1>4, <2>1, <2>2, <2>3
<1>6. mem.made - Len(mem.taken) <= SLOTS
  <2>1. PICK e \in Nat, f \in Nat : mem.sem["empty"] = e /\ mem.sem["full"] = f
    BY <1>0 DEF PcType
  <2>2. PICK x \in 0 .. 1, y \in 0 .. 1, j \in 0 .. 1, g \in 0 .. 1 :
          x = Busy("producer") /\ y = Busy("consumer") /\ j = JustPut /\ g = ToGet
    BY DEF Busy, JustPut, ToGet
  <2>3. j <= x /\ g <= y
    BY <2>2 DEF Busy, JustPut, ToGet
  <2>4. e + f + x + y = SLOTS /\ mem.made - Len(mem.taken) = f + j + g
    BY <1>0, <2>1, <2>2 DEF PcCount
  <2> QED
    BY <2>3, <2>4
<1>7. ASSUME NEW t \in DOMAIN pc, NEW u \in DOMAIN pc, B!InCriticalSection(t), B!InCriticalSection(u)
      PROVE  t = u
  <2>1. mem.lock = t /\ mem.lock = u
    BY <1>0, <1>1, <1>7 DEF PcMutex, PcType, PcThreads, B!InCriticalSection
  <2> QED
    BY <2>1
<1> QED
  <2>1. \A t, u \in DOMAIN pc : B!InCriticalSection(t) /\ B!InCriticalSection(u) => t = u
    BY Zenon, <1>7
  <2> QED
    BY Zenon, <1>5, <1>6, <2>1, SameCardinality DEF B!SlotsKept

(* What is a permutation, here the identity, of the numbers up to m. *)
LEMMA InOrderAll ==
  ASSUME NEW m \in Nat, NEW s, s \in Seq(Nat), Len(s) = m, \A k \in 1 .. m : s[k] = k
  PROVE  B!Items(s) = 1 .. m /\ \A k \in DOMAIN s : s[k] = k
<1>1. DOMAIN s = 1 .. m
  OBVIOUS
<1> QED
  BY <1>1 DEF B!Items

LEMMA PcNothingLost ==
  ASSUME program = "pc", PcInv
  PROVE  B!NothingLost
<1>0. PcType /\ PcMutex /\ PcCount /\ PcRing
  BY DEF PcInv
<1>1. PICK first \in Nat, n \in Nat :
        first = Len(mem.taken) /\ n = mem.made - Len(mem.taken) /\ mem.made = first + n
  <2>1. Len(mem.taken) \in Nat /\ mem.made \in Nat /\ mem.made - Len(mem.taken) \in Nat
    BY <1>0 DEF PcType, PcRing
  <2> QED
    BY <2>1
<1>2. n \in 0 .. SLOTS
  BY <1>1, PcSlotsKept DEF B!SlotsKept, B!Programs
<1>3. IsRing(SLOTS, mem.buffer, mem.use, mem.fill, n, first)
  BY Zenon, <1>0, <1>1 DEF PcRing
<1>4. \A k \in 1 .. n : mem.buffer[Wrap(mem.use + k - 1, SLOTS)] = first + k
  BY Zenon, <1>3 DEF IsRing
<1>5. B!Ring = [k \in 1 .. n |-> mem.buffer[Wrap(mem.use + k - 1, SLOTS)]]
  BY Zenon, <1>1 DEF B!Ring, Wrap
<1>6. B!Ring = [k \in 1 .. n |-> first + k]
  BY <1>4, <1>5
<1>7. PICK passed : passed = mem.taken \o B!Ring
  OBVIOUS
<1>8. passed \in Seq(Nat) /\ Len(passed) = first + n /\ \A k \in 1 .. first + n : passed[k] = k
  <2>1. B!Ring \in Seq(Nat) /\ Len(B!Ring) = n
    BY <1>6
  <2>2. mem.taken \in Seq(Nat) /\ \A k \in 1 .. first : mem.taken[k] = k
    BY <1>0, <1>1 DEF PcType, PcRing
  <2>3. passed \in Seq(Nat) /\ Len(passed) = first + n
    <3>1. Len(mem.taken) = first
      BY <1>1
    <3> QED
      BY Zenon, <1>7, <2>1, <2>2, <3>1, ConcatProperties
  <2>4. ASSUME NEW k \in 1 .. first + n PROVE passed[k] = k
    <3>1. CASE k \in 1 .. first
      BY <1>1, <1>7, <2>1, <2>2, <3>1
    <3>2. CASE k \notin 1 .. first
      <4>1. k - first \in 1 .. n /\ passed[k] = B!Ring[k - first]
        BY <1>1, <1>7, <2>1, <2>2, <3>2
      <4> QED
        BY <1>6, <4>1
    <3> QED
      BY <3>1, <3>2
  <2> QED
    BY <2>3, <2>4
<1>9. B!Items(passed) = 1 .. first + n /\ \A k \in DOMAIN passed : passed[k] = k
  BY <1>8, InOrderAll
<1> QED
  BY Zenon, <1>1, <1>7, <1>8, <1>9 DEF B!NothingLost

-----------------------------------------------------------------------------
(* Mutexes: a thread is at one of the labels in `crit' exactly when it holds the *)
(* lock.                                                                    *)

Excluded(p, crit, lock) == \A t \in DOMAIN p : p[t] \in crit <=> lock = t

LockMoves(lock, lock2, t, crit, from, to) ==
  \/ lock = Free /\ lock2 = t /\ to \in crit
  \/ from \in crit /\ lock2 = Free /\ to \notin crit
  \/ lock2 = lock /\ (to \in crit <=> from \in crit)

LEMMA ExcludedMoves ==
  ASSUME NEW p, NEW crit, NEW lock, Excluded(p, crit, lock), Free \notin DOMAIN p,
         NEW t \in DOMAIN p, NEW label, NEW lock2, LockMoves(lock, lock2, t, crit, p[t], label)
  PROVE  Excluded([p EXCEPT ![t] = label], crit, lock2)
BY DEF Excluded, LockMoves

-----------------------------------------------------------------------------
(* Sequences *)

LEMMA AppendFacts ==
  ASSUME NEW D, NEW s \in Seq(D), NEW x \in D, NEW n \in Nat, n = Len(s)
  PROVE  /\ Append(s, x) \in Seq(D) /\ Len(Append(s, x)) = n + 1
         /\ DOMAIN Append(s, x) = 1 .. n + 1 /\ DOMAIN s = 1 .. n
         /\ \A k \in 1 .. n : Append(s, x)[k] = s[k]
         /\ Append(s, x)[n + 1] = x
OBVIOUS

LEMMA ConcatFacts ==
  ASSUME NEW D, NEW s \in Seq(D), NEW t \in Seq(D), NEW n \in Nat, n = Len(s), NEW m \in Nat, m = Len(t)
  PROVE  /\ s \o t \in Seq(D) /\ Len(s \o t) = n + m
         /\ DOMAIN (s \o t) = 1 .. n + m /\ DOMAIN s = 1 .. n /\ DOMAIN t = 1 .. m
         /\ \A k \in 1 .. n : (s \o t)[k] = s[k]
         /\ \A k \in 1 .. m : (s \o t)[n + k] = t[k]
OBVIOUS

(* An item behind a sequence is an item behind its second half. *)
LEMMA ConcatAppend ==
  ASSUME NEW D, NEW s \in Seq(D), NEW t \in Seq(D), NEW x \in D
  PROVE  s \o Append(t, x) = Append(s \o t, x)
OBVIOUS

LEMMA ItemsOfAppend ==
  ASSUME NEW D, NEW s \in Seq(D), NEW x \in D
  PROVE  B!Items(Append(s, x)) = B!Items(s) \cup {x}
<1>1. PICK n \in Nat : n = Len(s)
  OBVIOUS
<1>2. /\ DOMAIN Append(s, x) = 1 .. n + 1 /\ DOMAIN s = 1 .. n
      /\ \A k \in 1 .. n : Append(s, x)[k] = s[k]
      /\ Append(s, x)[n + 1] = x
  BY <1>1, AppendFacts
<1>3. 1 .. n + 1 = (1 .. n) \cup {n + 1}
  OBVIOUS
<1> QED
  BY ZenonT(40), <1>2, <1>3 DEF B!Items

LEMMA ItemsOfConcat ==
  ASSUME NEW D, NEW s \in Seq(D), NEW t \in Seq(D)
  PROVE  B!Items(s \o t) = B!Items(s) \cup B!Items(t)
<1>1. PICK n \in Nat, m \in Nat : n = Len(s) /\ m = Len(t)
  OBVIOUS
<1>2. /\ DOMAIN (s \o t) = 1 .. n + m /\ DOMAIN s = 1 .. n /\ DOMAIN t = 1 .. m
      /\ \A k \in 1 .. n : (s \o t)[k] = s[k]
      /\ \A k \in 1 .. m : (s \o t)[n + k] = t[k]
  <2>1. n = Len(s) /\ m = Len(t)
    BY <1>1
  <2> QED
    BY <2>1, ConcatFacts
<1>3. \A k \in 1 .. n : k \in 1 .. n + m
  OBVIOUS
<1>4. \A k \in 1 .. m : n + k \in 1 .. n + m
  OBVIOUS
<1>5. \A k \in 1 .. n + m : k \in 1 .. n \/ \E j \in 1 .. m : k = n + j
  <2> TAKE k \in 1 .. n + m
  <2>1. CASE k <= n
    BY <2>1
  <2>2. CASE ~(k <= n)
    <3>1. k - n \in 1 .. m /\ k = n + (k - n)
      BY <2>2
    <3> QED
      BY <3>1
  <2> QED
    BY <2>1, <2>2
<1>6. B!Items(s \o t) \subseteq B!Items(s) \cup B!Items(t)
  <2> SUFFICES ASSUME NEW k \in 1 .. n + m PROVE (s \o t)[k] \in B!Items(s) \cup B!Items(t)
    BY Zenon, <1>2 DEF B!Items
  <2>1. CASE k \in 1 .. n
    BY Zenon, <1>2, <2>1 DEF B!Items
  <2>2. CASE \E j \in 1 .. m : k = n + j
    BY Zenon, <1>2, <2>2 DEF B!Items
  <2> QED
    BY Zenon, <1>5, <2>1, <2>2
<1>7. B!Items(s) \subseteq B!Items(s \o t)
  BY Zenon, <1>2, <1>3 DEF B!Items
<1>8. B!Items(t) \subseteq B!Items(s \o t)
  BY Zenon, <1>2, <1>4 DEF B!Items
<1> QED
  BY Zenon, <1>6, <1>7, <1>8

(* A sequence without its last item. *)
LEMMA FrontFacts ==
  ASSUME NEW D, NEW s \in Seq(D), s # <<>>, NEW n \in Nat, n + 1 = Len(s)
  PROVE  /\ SubSeq(s, 1, Len(s) - 1) \in Seq(D) /\ Len(SubSeq(s, 1, Len(s) - 1)) = n
         /\ s[n + 1] \in D /\ s = Append(SubSeq(s, 1, Len(s) - 1), s[Len(s)])
<1>1. Len(s) - 1 = n
  OBVIOUS
<1> QED
  BY <1>1

-----------------------------------------------------------------------------
(* wait_noti and logbuf: an array between two conditions *)

WnShape == mem = [buffer |-> mem.buffer, lock |-> mem.lock, waiting |-> mem.waiting,
                  spurious |-> mem.spurious, made |-> mem.made, taken |-> mem.taken]

WnPrograms == {"wait_noti", "logbuf"}
WnThreads == IF program = "logbuf" THEN {"main", "flusher"} ELSE {"main", "producer", "consumer"}
WnLabels == {"lock", "test", "signal", "unlock", "done", "join", "destroy", "hung", "exited"}
WnCritical == {"test", "signal", "unlock"}
WnType == /\ WnShape /\ pc \in [WnThreads -> WnLabels]
          /\ mem.buffer \in Seq(Nat) /\ Len(mem.buffer) <= SLOTS
          /\ mem.taken \in Seq(Nat) /\ mem.made \in Nat

(* The items up to m were taken or wait in the buffer, of the log in their *)
(* order.                                                                  *)
Handed(p, taken, buffer, m) ==
  /\ Len(taken) + Len(buffer) = m
  /\ p = "logbuf" => taken \o buffer = [k \in 1 .. m |-> k]
  /\ p # "logbuf" => B!Items(taken) \cup B!Items(buffer) = 1 .. m

WnInv == /\ WnType /\ Excluded(pc, WnCritical, mem.lock)
         /\ Handed(program, mem.taken, mem.buffer, mem.made)

(* One more item, *)
LEMMA HandedIn ==
  ASSUME NEW p, NEW taken \in Seq(Nat), NEW buffer \in Seq(Nat), NEW m \in Nat,
         Handed(p, taken, buffer, m)
  PROVE  Handed(p, taken, Append(buffer, m + 1), m + 1)
<1>1. PICK a \in Nat, b \in Nat : a = Len(taken) /\ b = Len(buffer) /\ a + b = m
  BY DEF Handed
<1>2. m + 1 \in Nat /\ Len(Append(buffer, m + 1)) = b + 1
  BY <1>1
<1>3. Len(taken) + Len(Append(buffer, m + 1)) = m + 1
  BY <1>1, <1>2
<1>4. ASSUME p = "logbuf"
      PROVE  taken \o Append(buffer, m + 1) = [k \in 1 .. m + 1 |-> k]
  <2>1. taken \o Append(buffer, m + 1) = Append(taken \o buffer, m + 1)
    BY <1>2, ConcatAppend
  <2>2. taken \o buffer = [k \in 1 .. m |-> k]
    BY Zenon, <1>4 DEF Handed
  <2>3. Append([k \in 1 .. m |-> k], m + 1) = [k \in 1 .. m + 1 |-> k]
    OBVIOUS
  <2> QED
    BY Zenon, <2>1, <2>2, <2>3
<1>5. ASSUME p # "logbuf"
      PROVE  B!Items(taken) \cup B!Items(Append(buffer, m + 1)) = 1 .. m + 1
  <2>1. B!Items(Append(buffer, m + 1)) = B!Items(buffer) \cup {m + 1}
    BY ZenonT(40), <1>2, ItemsOfAppend
  <2>2. B!Items(taken) \cup B!Items(buffer) = 1 .. m
    BY Zenon, <1>5 DEF Handed
  <2>3. 1 .. m + 1 = (1 .. m) \cup {m + 1}
    OBVIOUS
  <2> QED
    BY Zenon, <2>1, <2>2, <2>3
<1> QED
  BY Zenon, <1>3, <1>4, <1>5 DEF Handed

(* all of them handed on, *)
LEMMA HandedAll ==
  ASSUME NEW p, NEW taken \in Seq(Nat), NEW buffer \in Seq(Nat), NEW m \in Nat,
         Handed(p, taken, buffer, m), p = "logbuf"
  PROVE  Handed(p, taken \o buffer, <<>>, m) /\ taken \o buffer \in Seq(Nat)
<1>1. taken \o buffer \in Seq(Nat) /\ Len(taken \o buffer) = Len(taken) + Len(buffer)
  BY ConcatProperties
<1>2. PICK s \in Seq(Nat) : s = taken \o buffer
  BY <1>1
<1>3. s \o <<>> = s /\ Len(s) + Len(<<>>) = Len(s)
  OBVIOUS
<1> QED
  BY Zenon, <1>1, <1>2, <1>3 DEF Handed

(* and the newest one. *)
LEMMA HandedOne ==
  ASSUME NEW p, NEW taken \in Seq(Nat), NEW buffer \in Seq(Nat), NEW m \in Nat,
         Handed(p, taken, buffer, m), p # "logbuf", buffer # <<>>
  PROVE  /\ Handed(p, taken \o <<buffer[Len(buffer)]>>, SubSeq(buffer, 1, Len(buffer) - 1), m)
         /\ taken \o <<buffer[Len(buffer)]>> \in Seq(Nat)
         /\ SubSeq(buffer, 1, Len(buffer) - 1) \in Seq(Nat)
         /\ Len(SubSeq(buffer, 1, Len(buffer) - 1)) <= Len(buffer)
<1>1. PICK b \in Nat : b + 1 = Len(buffer)
  <2>1. Len(buffer) \in Nat /\ Len(buffer) # 0
    OBVIOUS
  <2>2. Len(buffer) - 1 \in Nat /\ Len(buffer) - 1 + 1 = Len(buffer)
    BY <2>1
  <2> QED
    BY <2>2
<1>2. PICK rest \in Seq(Nat), x \in Nat :
        /\ rest = SubSeq(buffer, 1, Len(buffer) - 1) /\ x = buffer[Len(buffer)]
        /\ Len(rest) = b /\ buffer = Append(rest, x)
  <2>1. /\ SubSeq(buffer, 1, Len(buffer) - 1) \in Seq(Nat) /\ Len(SubSeq(buffer, 1, Len(buffer) - 1)) = b
        /\ buffer[b + 1] \in Nat /\ buffer = Append(SubSeq(buffer, 1, Len(buffer) - 1), buffer[Len(buffer)])
    BY Zenon, <1>1, FrontFacts
  <2> QED
    BY Zenon, <1>1, <2>1
<1>3. /\ taken \o <<x>> \in Seq(Nat) /\ Len(taken \o <<x>>) = Len(taken) + 1
      /\ taken \o <<x>> = Append(taken, x)
  OBVIOUS
<1>4. B!Items(taken \o <<x>>) = B!Items(taken) \cup {x} /\ B!Items(buffer) = B!Items(rest) \cup {x}
  <2>1. B!Items(Append(taken, x)) = B!Items(taken) \cup {x}
    BY ItemsOfAppend
  <2>2. B!Items(Append(rest, x)) = B!Items(rest) \cup {x}
    BY ItemsOfAppend
  <2> QED
    BY Zenon, <1>2, <1>3, <2>1, <2>2
<1>5. Len(taken \o <<x>>) + Len(rest) = m /\ Len(rest) <= Len(buffer)
  <2>1. PICK a \in Nat : a = Len(taken) /\ a + Len(buffer) = m
    BY DEF Handed
  <2>2. Len(taken \o <<x>>) = a + 1
    BY <1>3, <2>1
  <2>3. Len(rest) = b /\ Len(buffer) = b + 1
    BY Zenon, <1>1, <1>2
  <2>4. a + (b + 1) = m
    BY <2>1, <2>3
  <2>5. (a + 1) + b = m /\ b <= b + 1
    BY <2>4
  <2> QED
    BY Zenon, <2>2, <2>3, <2>5
<1>6. B!Items(taken) \cup B!Items(buffer) = 1 .. m
  BY Zenon DEF Handed
<1>7. B!Items(taken \o <<x>>) \cup B!Items(rest) = 1 .. m
  BY Zenon, <1>4, <1>6
<1> QED
  BY Zenon, <1>2, <1>3, <1>5, <1>7 DEF Handed

LEMMA WnProducerMoves ==
  ASSUME WnShape, NEW t, NEW after, B!Producer(t, after)
  PROVE  /\ WnShape' /\ UNCHANGED <<program, mem.taken>>
         /\ \/ /\ pc[t] = "lock" /\ pc' = [pc EXCEPT ![t] = "test"]
               /\ mem.lock = Free /\ mem'.lock = t /\ UNCHANGED <<mem.buffer, mem.made>>
            \/ /\ pc[t] = "test" /\ pc' = [pc EXCEPT ![t] = "lock"]
               /\ mem'.lock = Free /\ UNCHANGED <<mem.buffer, mem.made>>
            \/ /\ pc[t] = "test" /\ pc' = [pc EXCEPT ![t] = "signal"]
               /\ Len(mem.buffer) # SLOTS /\ mem'.buffer = Append(mem.buffer, mem.made + 1)
               /\ mem'.made = mem.made + 1 /\ UNCHANGED mem.lock
            \/ /\ pc[t] = "signal" /\ pc' = [pc EXCEPT ![t] = "unlock"]
               /\ UNCHANGED <<mem.lock, mem.buffer, mem.made>>
            \/ /\ pc[t] = "unlock" /\ pc' = [pc EXCEPT ![t] = "lock"]
               /\ mem'.lock = Free /\ UNCHANGED <<mem.buffer, mem.made>>
            \/ /\ pc[t] = "lock" /\ pc' = [pc EXCEPT ![t] = after]
               /\ UNCHANGED <<mem.lock, mem.buffer, mem.made>>
BY Zenon DEF WnShape, B!Producer, B!Relock, B!Lock, B!Move, B!Goto, B!Wait, B!Signal, B!Unlock,
   B!Full, B!store

LEMMA WnConsumerMoves ==
  ASSUME WnShape, NEW t, B!Consumer(t)
  PROVE  /\ WnShape' /\ UNCHANGED <<program, mem.made>>
         /\ \/ /\ pc[t] = "lock" /\ pc' = [pc EXCEPT ![t] = "test"]
               /\ mem.lock = Free /\ mem'.lock = t /\ UNCHANGED <<mem.buffer, mem.taken>>
            \/ /\ pc[t] = "test" /\ pc' = [pc EXCEPT ![t] = "lock"]
               /\ mem'.lock = Free /\ UNCHANGED <<mem.buffer, mem.taken>>
            \/ /\ pc[t] = "test" /\ pc' = [pc EXCEPT ![t] = "signal"]
               /\ mem.buffer # <<>> /\ mem'.buffer = B!Left /\ mem'.taken = mem.taken \o B!Taken
               /\ UNCHANGED mem.lock
            \/ /\ pc[t] = "signal" /\ pc' = [pc EXCEPT ![t] = "unlock"]
               /\ UNCHANGED <<mem.lock, mem.buffer, mem.taken>>
            \/ /\ pc[t] = "unlock"
               /\ \E label \in {"lock", "done"} : pc' = [pc EXCEPT ![t] = label]
               /\ mem'.lock = Free /\ UNCHANGED <<mem.buffer, mem.taken>>
BY Zenon DEF WnShape, B!Consumer, B!Relock, B!Lock, B!Move, B!Goto, B!Wait, B!Signal, B!Unlock, B!Empty

(* A step of one thread that hands nothing on. *)
LEMMA WnQuietStep ==
  ASSUME WnInv, Free \notin WnThreads, WnShape',
         UNCHANGED <<program, mem.buffer, mem.taken, mem.made>>,
         NEW t \in WnThreads, NEW label \in WnLabels, pc' = [pc EXCEPT ![t] = label],
         LockMoves(mem.lock, mem'.lock, t, WnCritical, pc[t], label)
  PROVE  WnInv'
<1>1. WnType /\ Excluded(pc, WnCritical, mem.lock) /\ Handed(program, mem.taken, mem.buffer, mem.made)
  BY DEF WnInv
<1>2. pc \in [WnThreads -> WnLabels] /\ DOMAIN pc = WnThreads
  BY <1>1 DEF WnType
<1>3. Excluded(pc', WnCritical, mem'.lock)
  <2>1. Free \notin DOMAIN pc /\ t \in DOMAIN pc
    BY <1>2
  <2> QED
    BY Zenon, <1>1, <2>1, ExcludedMoves
<1>4. WnThreads' = WnThreads
  BY Zenon DEF WnThreads
<1>5. pc' \in [WnThreads -> WnLabels]
  BY <1>2
<1>6. WnType'
  BY Zenon, <1>1, <1>4, <1>5 DEF WnType
<1>7. Handed(program', mem'.taken, mem'.buffer, mem'.made)
  BY Zenon, <1>1
<1> QED
  BY <1>3, <1>6, <1>7 DEF WnInv

LEMMA WnNobody == program \in WnPrograms => Free \notin WnThreads
BY FreeIsNobody DEF WnThreads, WnPrograms

LEMMA WnProducerKeeps ==
  ASSUME WnInv, NEW t \in WnThreads, NEW after \in WnLabels \ WnCritical, B!Producer(t, after),
         Free \notin WnThreads
  PROVE  WnInv'
<1>1. WnType /\ Excluded(pc, WnCritical, mem.lock) /\ Handed(program, mem.taken, mem.buffer, mem.made)
  BY DEF WnInv
<1>2. WnShape' /\ UNCHANGED <<program, mem.taken>>
  BY <1>1, WnProducerMoves DEF WnType
<1>3. CASE /\ pc[t] = "test" /\ pc' = [pc EXCEPT ![t] = "signal"]
           /\ Len(mem.buffer) # SLOTS /\ mem'.buffer = Append(mem.buffer, mem.made + 1)
           /\ mem'.made = mem.made + 1 /\ UNCHANGED mem.lock
  <2>1. mem.taken \in Seq(Nat) /\ mem.buffer \in Seq(Nat) /\ mem.made \in Nat /\ Len(mem.buffer) <= SLOTS
    BY <1>1 DEF WnType
  <2>2. Handed(program, mem.taken, Append(mem.buffer, mem.made + 1), mem.made + 1)
    BY Zenon, <1>1, <2>1, HandedIn
  <2>3. /\ Append(mem.buffer, mem.made + 1) \in Seq(Nat) /\ mem.made + 1 \in Nat
        /\ Len(Append(mem.buffer, mem.made + 1)) <= SLOTS
    <3>1. PICK b \in Seq(Nat), m \in Nat : b = mem.buffer /\ m = mem.made
      BY <2>1
    <3>2. Append(b, m + 1) \in Seq(Nat) /\ m + 1 \in Nat /\ Len(Append(b, m + 1)) = Len(b) + 1
          /\ Len(b) \in Nat
      OBVIOUS
    <3>3. Len(b) <= SLOTS /\ Len(b) # SLOTS
      BY <1>3, <2>1, <3>1
    <3>4. Len(b) + 1 <= SLOTS
      BY <3>2, <3>3, BuffersAssumption
    <3> QED
      BY Zenon, <3>1, <3>2, <3>4
  <2>4. pc \in [WnThreads -> WnLabels] /\ DOMAIN pc = WnThreads
    BY <1>1 DEF WnType
  <2>5. Excluded(pc', WnCritical, mem'.lock)
    <3>1. LockMoves(mem.lock, mem'.lock, t, WnCritical, pc[t], "signal")
      BY <1>3 DEF WnCritical, LockMoves
    <3> QED
      BY Zenon, <1>1, <1>3, <2>4, <3>1, ExcludedMoves
  <2>6. pc' \in [WnThreads -> WnLabels]
    BY <1>3, <2>4 DEF WnLabels
  <2>7. WnThreads' = WnThreads
    BY Zenon, <1>2 DEF WnThreads
  <2>8. WnType'
    BY Zenon, <1>2, <1>3, <2>1, <2>3, <2>6, <2>7 DEF WnType
  <2>9. Handed(program', mem'.taken, mem'.buffer, mem'.made)
    BY Zenon, <1>2, <1>3, <2>2
  <2> QED
    BY <2>5, <2>8, <2>9 DEF WnInv
<1>4. ASSUME NEW label \in WnLabels, pc' = [pc EXCEPT ![t] = label],
             UNCHANGED <<mem.buffer, mem.made>>,
             LockMoves(mem.lock, mem'.lock, t, WnCritical, pc[t], label)
      PROVE  WnInv'
  <2>1. UNCHANGED <<program, mem.buffer, mem.taken, mem.made>>
    BY <1>2, <1>4
  <2> QED
    BY Zenon, <1>2, <1>4, <2>1, WnQuietStep
<1>5. /\ {"lock", "test", "signal", "unlock"} \subseteq WnLabels
      /\ "test" \in WnCritical /\ "signal" \in WnCritical /\ "unlock" \in WnCritical
      /\ "lock" \notin WnCritical /\ after \in WnLabels /\ after \notin WnCritical
  BY DEF WnLabels, WnCritical
<1>6. CASE /\ pc[t] = "lock" /\ pc' = [pc EXCEPT ![t] = "test"]
           /\ mem.lock = Free /\ mem'.lock = t /\ UNCHANGED <<mem.buffer, mem.made>>
  BY <1>4, <1>5, <1>6 DEF LockMoves
<1>7. CASE /\ pc[t] = "test" /\ pc' = [pc EXCEPT ![t] = "lock"]
           /\ mem'.lock = Free /\ UNCHANGED <<mem.buffer, mem.made>>
  BY <1>4, <1>5, <1>7 DEF LockMoves
<1>8. CASE /\ pc[t] = "signal" /\ pc' = [pc EXCEPT ![t] = "unlock"]
           /\ UNCHANGED <<mem.lock, mem.buffer, mem.made>>
  BY <1>4, <1>5, <1>8 DEF LockMoves
<1>9. CASE /\ pc[t] = "unlock" /\ pc' = [pc EXCEPT ![t] = "lock"]
           /\ mem'.lock = Free /\ UNCHANGED <<mem.buffer, mem.made>>
  BY <1>4, <1>5, <1>9 DEF LockMoves
<1>10. CASE /\ pc[t] = "lock" /\ pc' = [pc EXCEPT ![t] = after]
            /\ UNCHANGED <<mem.lock, mem.buffer, mem.made>>
  BY <1>4, <1>5, <1>10 DEF LockMoves
<1> QED
  BY <1>1, <1>3, <1>6, <1>7, <1>8, <1>9, <1>10, WnProducerMoves DEF WnType

LEMMA WnConsumerKeeps ==
  ASSUME WnInv, NEW t \in WnThreads, B!Consumer(t), Free \notin WnThreads
  PROVE  WnInv'
<1>1. WnType /\ Excluded(pc, WnCritical, mem.lock) /\ Handed(program, mem.taken, mem.buffer, mem.made)
  BY DEF WnInv
<1>2. WnShape' /\ UNCHANGED <<program, mem.made>>
  BY <1>1, WnConsumerMoves DEF WnType
<1>3. CASE /\ pc[t] = "test" /\ pc' = [pc EXCEPT ![t] = "signal"]
           /\ mem.buffer # <<>> /\ mem'.buffer = B!Left /\ mem'.taken = mem.taken \o B!Taken
           /\ UNCHANGED mem.lock
  <2>1. mem.taken \in Seq(Nat) /\ mem.buffer \in Seq(Nat) /\ mem.made \in Nat /\ Len(mem.buffer) <= SLOTS
    BY <1>1 DEF WnType
  <2>2. /\ Handed(program, mem'.taken, mem'.buffer, mem.made) /\ mem'.taken \in Seq(Nat)
        /\ mem'.buffer \in Seq(Nat) /\ Len(mem'.buffer) <= SLOTS
    <3>1. CASE program = "logbuf"
      <4>1. mem'.buffer = <<>> /\ mem'.taken = mem.taken \o mem.buffer
        BY Zenon, <1>3, <3>1 DEF B!Left, B!Taken
      <4>2. /\ Handed(program, mem.taken \o mem.buffer, <<>>, mem.made)
            /\ mem.taken \o mem.buffer \in Seq(Nat)
        BY Zenon, <1>1, <2>1, <3>1, HandedAll
      <4>3. <<>> \in Seq(Nat) /\ Len(<<>>) <= SLOTS
        BY BuffersAssumption
      <4> QED
        BY Zenon, <4>1, <4>2, <4>3
    <3>2. CASE program # "logbuf"
      <4> DEFINE x == mem.buffer[Len(mem.buffer)]  rest == SubSeq(mem.buffer, 1, Len(mem.buffer) - 1)
      <4>1. mem'.buffer = rest /\ mem'.taken = mem.taken \o <<x>>
        BY Zenon, <1>3, <3>2 DEF B!Left, B!Taken
      <4>2. /\ Handed(program, mem.taken \o <<x>>, rest, mem.made) /\ mem.taken \o <<x>> \in Seq(Nat)
            /\ rest \in Seq(Nat) /\ Len(rest) <= Len(mem.buffer)
        BY Zenon, <1>1, <1>3, <2>1, <3>2, HandedOne
      <4> HIDE DEF x, rest
      <4>3. Len(rest) \in Nat /\ Len(mem.buffer) \in Nat
        BY <2>1, <4>2
      <4>4. Len(rest) <= SLOTS
        BY <2>1, <4>2, <4>3, BuffersAssumption
      <4> QED
        BY Zenon, <4>1, <4>2, <4>4
    <3> QED
      BY <3>1, <3>2
  <2>4. pc \in [WnThreads -> WnLabels] /\ DOMAIN pc = WnThreads
    BY <1>1 DEF WnType
  <2>5. Excluded(pc', WnCritical, mem'.lock)
    <3>1. LockMoves(mem.lock, mem'.lock, t, WnCritical, pc[t], "signal")
      BY <1>3 DEF WnCritical, LockMoves
    <3> QED
      BY Zenon, <1>1, <1>3, <2>4, <3>1, ExcludedMoves
  <2>6. pc' \in [WnThreads -> WnLabels]
    BY <1>3, <2>4 DEF WnLabels
  <2>7. WnThreads' = WnThreads
    BY Zenon, <1>2 DEF WnThreads
  <2>8. WnType'
    BY Zenon, <1>2, <2>1, <2>2, <2>6, <2>7 DEF WnType
  <2>9. Handed(program', mem'.taken, mem'.buffer, mem'.made)
    BY Zenon, <1>2, <2>2
  <2> QED
    BY <2>5, <2>8, <2>9 DEF WnInv
<1>4. ASSUME NEW label \in WnLabels, pc' = [pc EXCEPT ![t] = label],
             UNCHANGED <<mem.buffer, mem.taken>>,
             LockMoves(mem.lock, mem'.lock, t, WnCritical, pc[t], label)
      PROVE  WnInv'
  <2>1. UNCHANGED <<program, mem.buffer, mem.taken, mem.made>>
    BY <1>2, <1>4
  <2> QED
    BY Zenon, <1>2, <1>4, <2>1, WnQuietStep
<1>5. /\ {"lock", "test", "signal", "unlock", "done"} \subseteq WnLabels
      /\ "test" \in WnCritical /\ "signal" \in WnCritical /\ "unlock" \in WnCritical
      /\ "lock" \notin WnCritical /\ "done" \notin WnCritical
  BY DEF WnLabels, WnCritical
<1>6. CASE /\ pc[t] = "lock" /\ pc' = [pc EXCEPT ![t] = "test"]
           /\ mem.lock = Free /\ mem'.lock = t /\ UNCHANGED <<mem.buffer, mem.taken>>
  BY <1>4, <1>5, <1>6 DEF LockMoves
<1>7. CASE /\ pc[t] = "test" /\ pc' = [pc EXCEPT ![t] = "lock"]
           /\ mem'.lock = Free /\ UNCHANGED <<mem.buffer, mem.taken>>
  BY <1>4, <1>5, <1>7 DEF LockMoves
<1>8. CASE /\ pc[t] = "signal" /\ pc' = [pc EXCEPT ![t] = "unlock"]
           /\ UNCHANGED <<mem.lock, mem.buffer, mem.taken>>
  BY <1>4, <1>5, <1>8 DEF LockMoves
<1>9. CASE /\ pc[t] = "unlock"
           /\ \E label \in {"lock", "done"} : pc' = [pc EXCEPT ![t] = label]
           /\ mem'.lock = Free /\ UNCHANGED <<mem.buffer, mem.taken>>
  BY <1>4, <1>5, <1>9 DEF LockMoves
<1> QED
  BY Zenon, <1>1, <1>3, <1>6, <1>7, <1>8, <1>9, WnConsumerMoves DEF WnType

LEMMA WnNext ==
  ASSUME program \in WnPrograms, [Next]_vars
  PROVE  \/ /\ program = "wait_noti"
            /\ \/ B!Producer("producer", "done") \/ B!Consumer("consumer")
               \/ B!Join("main", {"producer", "consumer"}, "join", "exited")
         \/ /\ program = "logbuf"
            /\ B!Producer("main", "destroy") \/ B!Consumer("flusher") \/ B!Destroy("main")
         \/ SpuriousWakeup \/ UNCHANGED vars
BY DEF WnPrograms, Next, B!Next, C!Next, M!Next, R!Next, L!Next, S!Next, K!Next, B!Step, C!Step, M!Step, M!SendFails,
   R!Manage, R!Dine, R!Detect, R!Main, L!Step, S!Step, vars,
   C!Programs, C!Threaded, B!PcProducer, B!PcConsumer

LEMMA WnKeeps ==
  ASSUME program \in WnPrograms, WnInv, [Next]_vars
  PROVE  WnInv'
<1>1. Free \notin WnThreads
  BY WnNobody
<1>2. /\ WnType /\ Excluded(pc, WnCritical, mem.lock) /\ Handed(program, mem.taken, mem.buffer, mem.made)
      /\ WnShape
  BY DEF WnInv, WnType
<1>3. /\ "done" \in WnLabels \ WnCritical /\ "destroy" \in WnLabels \ WnCritical
      /\ "exited" \in WnLabels \ WnCritical /\ "hung" \in WnLabels \ WnCritical
      /\ "main" \in WnThreads
      /\ program = "wait_noti" => "producer" \in WnThreads /\ "consumer" \in WnThreads
      /\ program = "logbuf" => "flusher" \in WnThreads
  BY DEF WnLabels, WnCritical, WnThreads
<1>4. CASE UNCHANGED vars
  BY Zenon, <1>4 DEF vars, WnInv, WnType, WnShape, WnThreads
<1>5. CASE SpuriousWakeup
  <2>1. WnShape' /\ UNCHANGED <<program, pc, mem.buffer, mem.lock, mem.made, mem.taken>>
    BY Zenon, <1>2, <1>5 DEF SpuriousWakeup, WnShape
  <2> QED
    BY Zenon, <1>2, <2>1 DEF WnInv, WnType, WnThreads
<1>6. ASSUME NEW from \in WnLabels \ WnCritical, NEW to \in WnLabels \ WnCritical, B!Goto("main", from, to)
      PROVE  WnInv'
  <2>1. mem' = mem /\ program' = program /\ pc' = [pc EXCEPT !["main"] = to] /\ pc["main"] = from
    BY Zenon, <1>6 DEF B!Goto, B!Move
  <2>2. WnShape' /\ UNCHANGED <<program, mem.buffer, mem.taken, mem.made>>
    BY Zenon, <1>2, <2>1 DEF WnShape
  <2>3. LockMoves(mem.lock, mem'.lock, "main", WnCritical, pc["main"], to)
    BY <1>6, <2>1 DEF LockMoves
  <2> QED
    BY Zenon, <1>1, <1>3, <1>6, <2>1, <2>2, <2>3, WnQuietStep
<1>7. CASE program = "wait_noti" /\ B!Join("main", {"producer", "consumer"}, "join", "exited")
  <2>1. "join" \in WnLabels \ WnCritical
    BY DEF WnLabels, WnCritical
  <2> QED
    BY Zenon, <1>3, <1>6, <1>7, <2>1 DEF B!Join
<1>8. CASE program = "logbuf" /\ B!Destroy("main")
  BY Zenon, <1>3, <1>6, <1>8 DEF B!Destroy
<1>9. CASE program = "wait_noti" /\ (B!Producer("producer", "done") \/ B!Consumer("consumer"))
  BY Zenon, <1>1, <1>3, <1>9, WnProducerKeeps, WnConsumerKeeps
<1>10. CASE program = "logbuf" /\ (B!Producer("main", "destroy") \/ B!Consumer("flusher"))
  BY Zenon, <1>1, <1>3, <1>10, WnProducerKeeps, WnConsumerKeeps
<1> QED
  <2>1. \/ /\ program = "wait_noti"
           /\ \/ B!Producer("producer", "done") \/ B!Consumer("consumer")
              \/ B!Join("main", {"producer", "consumer"}, "join", "exited")
        \/ /\ program = "logbuf"
           /\ B!Producer("main", "destroy") \/ B!Consumer("flusher") \/ B!Destroy("main")
        \/ SpuriousWakeup \/ UNCHANGED vars
    BY WnNext
  <2> QED
    BY Zenon, <1>4, <1>5, <1>7, <1>8, <1>9, <1>10, <2>1

LEMMA WnStarts ==
  ASSUME program \in WnPrograms, Init
  PROVE  WnInv
<1>1. /\ mem = [buffer |-> <<>>, lock |-> Free, waiting |-> B!NoneWaiting, spurious |-> 0,
                made |-> 0, taken |-> <<>>]
      /\ \/ program = "wait_noti" /\ pc = [main |-> "join", producer |-> "lock", consumer |-> "lock"]
         \/ program = "logbuf" /\ pc = [main |-> "lock", flusher |-> "lock"]
  BY DEF WnPrograms, Init, B!Init, C!Init, M!Init, R!Init, L!Init, S!Init, K!Init, B!Start, C!Start,
     M!Start, R!Start, L!Start, S!Start, K!Start, C!Threaded
<1>2. WnShape /\ mem.buffer = <<>> /\ mem.taken = <<>> /\ mem.made = 0 /\ mem.lock = Free
  BY Zenon, <1>1 DEF WnShape
<1>3. pc \in [WnThreads -> WnLabels] /\ \A t \in DOMAIN pc : pc[t] \notin WnCritical
  BY <1>1 DEF WnThreads, WnLabels, WnCritical
<1>4. WnType
  BY <1>2, <1>3, BuffersAssumption DEF WnType
<1>5. Excluded(pc, WnCritical, mem.lock)
  <2>1. Free \notin WnThreads /\ DOMAIN pc = WnThreads
    BY <1>1, <1>3, WnNobody DEF WnPrograms
  <2> QED
    BY <1>2, <1>3, <2>1 DEF Excluded
<1>6. Handed(program, mem.taken, mem.buffer, mem.made)
  <2>1. /\ Len(<<>>) + Len(<<>>) = 0 /\ <<>> \o <<>> = [k \in 1 .. 0 |-> k]
        /\ B!Items(<<>>) \cup B!Items(<<>>) = 1 .. 0
    BY DEF B!Items
  <2> QED
    BY Zenon, <1>2, <2>1 DEF Handed
<1> QED
  BY <1>4, <1>5, <1>6 DEF WnInv

LEMMA WnSlotsKept ==
  ASSUME program \in WnPrograms, WnInv
  PROVE  B!SlotsKept
<1>1. WnType /\ Excluded(pc, WnCritical, mem.lock) /\ Handed(program, mem.taken, mem.buffer, mem.made)
  BY DEF WnInv
<1>2. mem.made - Len(mem.taken) <= SLOTS
  <2>1. PICK a \in Nat, b \in Nat : a = Len(mem.taken) /\ b = Len(mem.buffer)
    BY <1>1 DEF WnType
  <2>2. a + b = mem.made /\ b <= SLOTS
    BY <1>1, <2>1 DEF Handed, WnType
  <2>3. mem.made - a <= SLOTS
    BY <2>2, BuffersAssumption
  <2> QED
    BY <2>1, <2>3
<1>3. ASSUME NEW t \in DOMAIN pc, B!InCriticalSection(t) PROVE mem.lock = t
  BY <1>1, <1>3 DEF Excluded, WnType, WnLabels, WnCritical, B!InCriticalSection
<1>4. \A t, u \in DOMAIN pc : B!InCriticalSection(t) /\ B!InCriticalSection(u) => t = u
  BY <1>3
<1>5. program # "pc"
  BY DEF WnPrograms
<1> QED
  BY Zenon, <1>2, <1>4, <1>5 DEF B!SlotsKept

LEMMA WnNothingLost ==
  ASSUME program \in WnPrograms, WnInv
  PROVE  B!NothingLost
<1>1. WnType /\ Handed(program, mem.taken, mem.buffer, mem.made)
  BY DEF WnInv
<1>2. mem.taken \in Seq(Nat) /\ mem.buffer \in Seq(Nat) /\ mem.made \in Nat
  BY <1>1 DEF WnType
<1>3. PICK passed \in Seq(Nat) : /\ passed = mem.taken \o mem.buffer
                                 /\ Len(passed) = Len(mem.taken) + Len(mem.buffer)
  BY <1>2, ConcatProperties
<1>4. Len(passed) = mem.made
  BY Zenon, <1>1, <1>3 DEF Handed
<1>5. CASE program = "logbuf"
  <2>1. passed = [k \in 1 .. mem.made |-> k]
    BY Zenon, <1>1, <1>3, <1>5 DEF Handed
  <2>2. \A k \in 1 .. mem.made : passed[k] = k
    BY <2>1
  <2>3. B!Items(passed) = 1 .. mem.made /\ \A k \in DOMAIN passed : passed[k] = k
    BY <1>2, <1>4, <2>2, InOrderAll
  <2> QED
    BY Zenon, <1>3, <1>4, <1>5, <2>3 DEF B!NothingLost
<1>6. CASE program = "wait_noti"
  <2>1. B!Items(passed) = B!Items(mem.taken) \cup B!Items(mem.buffer)
    BY <1>2, <1>3, ItemsOfConcat
  <2>2. B!Items(passed) = 1 .. mem.made
    BY Zenon, <1>1, <1>6, <2>1 DEF Handed
  <2> QED
    BY Zenon, <1>3, <1>4, <1>6, <2>2 DEF B!NothingLost
<1> QED
  BY <1>5, <1>6 DEF WnPrograms

-----------------------------------------------------------------------------
(* calc: the last result in a file *)

CalcShape == mem = [ans |-> mem.ans, shown |-> mem.shown, kept |-> mem.kept, lines |-> mem.lines]
CalcInv == CalcShape /\ K!AnsIsLastResult

LEMMA CalcNext ==
  ASSUME program = "calc", [Next]_vars, CalcShape
  PROVE  K!Step \/ UNCHANGED vars
<1>1. ~SpuriousWakeup
  BY Zenon DEF SpuriousWakeup, CalcShape
<1> QED
  BY <1>1 DEF Next, B!Next, C!Next, M!Next, R!Next, L!Next, S!Next, K!Next, B!Step, C!Step, M!Step, M!SendFails,
     R!Manage, R!Dine, R!Detect, R!Main, L!Step, S!Step, vars,
     C!Programs, C!Threaded, B!PcProducer, B!PcConsumer

LEMMA CalcKeeps ==
  ASSUME program = "calc", CalcInv, [Next]_vars
  PROVE  CalcInv'
<1>1. CalcShape /\ (mem.kept => mem.ans = mem.shown)
  BY Zenon DEF CalcInv, K!AnsIsLastResult
<1>2. CASE UNCHANGED vars
  BY Zenon, <1>2 DEF vars, CalcInv, CalcShape, K!AnsIsLastResult
<1>3. CASE K!Leave
  BY Zenon, <1>1, <1>3 DEF CalcInv, CalcShape, K!AnsIsLastResult, K!Leave, K!Goto, K!Move
<1>4. CASE K!SyntaxError
  BY Zenon, <1>1, <1>4 DEF CalcInv, CalcShape, K!AnsIsLastResult, K!SyntaxError, K!Move
<1>5. ASSUME NEW s \in K!Operands, NEW op \in K!Operators, NEW u \in K!Operands,
             K!CalculateFails(s, op, u) \/ K!CalculateCrashes(s, op, u)
      PROVE  CalcInv'
  BY Zenon, <1>1, <1>5 DEF CalcInv, CalcShape, K!AnsIsLastResult, K!CalculateFails, K!CalculateCrashes, K!Move
<1>6. ASSUME NEW s \in K!Operands, NEW op \in K!Operators, NEW u \in K!Operands, K!Calculate(s, op, u)
      PROVE  CalcInv'
  <2>1. PICK r \in K!Results(K!Value(s), op, K!Value(u)), saved \in BOOLEAN :
            K!Move("main", "read", "read",
                 [mem EXCEPT !.lines = @ + 1, !.shown = r, !.kept = saved,
                             !.ans = IF saved THEN r ELSE @])
    <3>1. \E r \in K!Results(K!Value(s), op, K!Value(u)), saved \in BOOLEAN :
            K!Move("main", "read", "read",
                 [mem EXCEPT !.lines = @ + 1, !.shown = r, !.kept = saved,
                             !.ans = IF saved THEN r ELSE @])
      BY <1>6 DEF K!Calculate
    <3> QED
      BY Zenon, <3>1
  <2>2. /\ CalcShape' /\ mem'.kept = saved /\ mem'.shown = r
        /\ mem'.ans = IF saved THEN r ELSE mem.ans
    BY Zenon, <1>1, <2>1 DEF CalcShape, K!Move
  <2> QED
    BY Zenon, <2>2 DEF CalcInv, K!AnsIsLastResult
<1> QED
  BY Zenon, <1>1, <1>2, <1>3, <1>4, <1>5, <1>6, CalcNext DEF K!Step

LEMMA CalcStarts ==
  ASSUME program = "calc", Init
  PROVE  CalcInv
<1>1. mem = [ans |-> 0, shown |-> 0, kept |-> TRUE, lines |-> 0]
  BY DEF Init, B!Init, C!Init, M!Init, R!Init, L!Init, S!Init, K!Init, B!Start, C!Start,
     M!Start, R!Start, L!Start, S!Start, K!Start, C!Threaded
<1> QED
  BY Zenon, <1>1 DEF CalcInv, CalcShape, K!AnsIsLastResult

-----------------------------------------------------------------------------
(* mmap_sharing: a file that is truncated, extended and written *)

MmapShape == mem = [file |-> mem.file, text |-> mem.text, shown |-> mem.shown, late |-> mem.late]
MmapType == /\ MmapShape
            /\ pc \in [{"w", "r"} -> {"open", "extend", "map", "write", "rest", "print", "done",
                                      "killed", "failed"}]

(* The writer ends with the whole text, a reader that is late comes after  *)
(* that, and the file is empty only after the truncation.                  *)
MmapInv == /\ MmapType
           /\ pc["w"] = "done" => mem.text \in {"new", "garbage"}
           /\ mem.late => pc["w"] = "done"
           /\ mem.late \in BOOLEAN
           /\ mem.file = "empty" \/ pc["r"] = "killed" => pc["w"] # "open"
           /\ pc["r"] = "done" /\ mem.late => mem.shown \in {"new", "garbage"}

LEMMA MmapNext ==
  ASSUME program = "mmap_sharing", [Next]_vars, MmapShape
  PROVE  S!ModeW("w") \/ S!ModeR("r") \/ UNCHANGED vars
<1>1. ~SpuriousWakeup
  BY Zenon DEF SpuriousWakeup, MmapShape
<1> QED
  BY <1>1 DEF Next, B!Next, C!Next, M!Next, R!Next, L!Next, S!Next, K!Next, B!Step, C!Step, M!Step, M!SendFails,
     R!Manage, R!Dine, R!Detect, R!Main, L!Step, S!Step, vars,
     C!Programs, C!Threaded, B!PcProducer, B!PcConsumer

LEMMA MmapWriterMoves ==
  ASSUME MmapShape, S!ModeW("w")
  PROVE  /\ MmapShape' /\ UNCHANGED <<mem.shown, mem.late>>
         /\ \/ /\ pc["w"] = "open" /\ pc' = [pc EXCEPT !["w"] = "extend"]
            \/ /\ pc["w"] = "extend" /\ pc' = [pc EXCEPT !["w"] = "map"]
            \/ /\ pc["w"] = "map" /\ pc' = [pc EXCEPT !["w"] = "write"] /\ UNCHANGED mem.file
            \/ /\ pc["w"] = "write" /\ pc' = [pc EXCEPT !["w"] = "rest"] /\ UNCHANGED mem.file
            \/ /\ pc["w"] = "rest" /\ pc' = [pc EXCEPT !["w"] = "done"] /\ UNCHANGED mem.file
               /\ mem'.text \in {"new", "garbage"}
            \/ /\ pc["w"] \in {"open", "extend", "map"} /\ pc' = [pc EXCEPT !["w"] = "failed"]
               /\ UNCHANGED mem.file
BY Zenon DEF MmapShape, S!ModeW, S!Move, S!Goto, S!WriteText, S!Fail

LEMMA MmapReaderMoves ==
  ASSUME MmapShape, S!ModeR("r")
  PROVE  /\ MmapShape' /\ UNCHANGED <<mem.file, mem.text>>
         /\ \/ /\ pc["r"] = "open" /\ pc' = [pc EXCEPT !["r"] = "map"]
               /\ mem'.late = (pc["w"] = "done")
            \/ /\ pc["r"] = "map" /\ pc' = [pc EXCEPT !["r"] = "print"] /\ UNCHANGED <<mem.shown, mem.late>>
            \/ /\ pc["r"] = "print" /\ pc' = [pc EXCEPT !["r"] = "done"]
               /\ mem'.shown = mem.text /\ UNCHANGED mem.late
            \/ /\ pc["r"] = "print" /\ pc' = [pc EXCEPT !["r"] = "killed"] /\ mem.file = "empty"
               /\ UNCHANGED <<mem.shown, mem.late>>
            \/ /\ pc["r"] \in {"open", "map"} /\ pc' = [pc EXCEPT !["r"] = "failed"]
               /\ UNCHANGED <<mem.shown, mem.late>>
BY Zenon DEF MmapShape, S!ModeR, S!Move, S!Goto, S!Fail

LEMMA MmapKeeps ==
  ASSUME program = "mmap_sharing", MmapInv, [Next]_vars
  PROVE  MmapInv'
<1>1. CASE UNCHANGED vars
  BY Zenon, <1>1 DEF vars, MmapInv, MmapType, MmapShape
<1>2. CASE S!ModeW("w")
  BY <1>2, MmapWriterMoves DEF MmapInv, MmapType
<1>3. CASE S!ModeR("r")
  <2>1. MmapShape' /\ UNCHANGED <<mem.file, mem.text>>
    BY Zenon, <1>3, MmapReaderMoves DEF MmapInv, MmapType
  <2>2. CASE pc["r"] = "open" /\ pc' = [pc EXCEPT !["r"] = "map"] /\ mem'.late = (pc["w"] = "done")
    BY <2>1, <2>2 DEF MmapInv, MmapType
  <2>3. CASE /\ pc["r"] = "print" /\ pc' = [pc EXCEPT !["r"] = "done"]
             /\ mem'.shown = mem.text /\ UNCHANGED mem.late
    BY <2>1, <2>3 DEF MmapInv, MmapType
  <2>4. CASE /\ pc["r"] = "print" /\ pc' = [pc EXCEPT !["r"] = "killed"] /\ mem.file = "empty"
             /\ UNCHANGED <<mem.shown, mem.late>>
    BY <2>1, <2>4 DEF MmapInv, MmapType
  <2>5. CASE /\ pc["r"] \in {"open", "map"} /\ UNCHANGED <<mem.shown, mem.late>>
             /\ pc' = [pc EXCEPT !["r"] = "print"] \/ pc' = [pc EXCEPT !["r"] = "failed"]
    BY <2>1, <2>5 DEF MmapInv, MmapType
  <2> QED
    BY <1>3, <2>2, <2>3, <2>4, <2>5, MmapReaderMoves DEF MmapInv, MmapType
<1> QED
  BY <1>1, <1>2, <1>3, MmapNext DEF MmapInv, MmapType

LEMMA MmapStarts ==
  ASSUME program = "mmap_sharing", Init
  PROVE  MmapInv
<1>1. PICK file \in {"none", "full"} :
        /\ pc = [t \in {"w", "r"} |-> "open"]
        /\ mem = [file |-> file, text |-> IF file = "none" THEN "" ELSE "old",
                  shown |-> "nothing", late |-> FALSE]
  BY DEF Init, B!Init, C!Init, M!Init, R!Init, L!Init, S!Init, K!Init, B!Start, C!Start,
     M!Start, R!Start, L!Start, S!Start, K!Start, C!Threaded, S!Threads
<1>2. MmapShape /\ mem.file = file /\ mem.late = FALSE
  BY Zenon, <1>1 DEF MmapShape
<1> QED
  BY <1>1, <1>2 DEF MmapInv, MmapType

-----------------------------------------------------------------------------
(* shm: a segment that is made by the first, and again after its removal *)

ShmShape == mem = [created |-> mem.created, key |-> mem.key, used |-> mem.used,
                   text |-> mem.text, shown |-> mem.shown]
ShmType == /\ ShmShape
           /\ pc \in [{"w", "r"} -> {"get", "use", "remove", "done", "failed"}]
           /\ mem.used \in [{"w", "r"} -> 0 .. 2] /\ mem.text \in [1 .. 2 -> {"", "hello world"}]
           /\ pc["r"] # "remove"

(* Before the writer removes it there is one segment at most; afterwards   *)
(* there is none, or a second one that the reader has made.  The text is   *)
(* in the writer's.                                                        *)
ShmSegments ==
  \/ /\ pc["w"] \notin {"use", "remove", "done"} /\ mem.created = 0 /\ mem.key = 0
  \/ /\ pc["w"] # "done" /\ mem.created = 1 /\ mem.key = 1
  \/ /\ pc["w"] = "done" /\ mem.created = 1 /\ mem.key = 0
  \/ /\ pc["w"] = "done" /\ mem.created = 2 /\ mem.key = 2
     /\ pc["r"] # "get" /\ mem.used["r"] # 1
ShmInv ==
  /\ ShmType
  /\ ShmSegments
  /\ pc["w"] \in {"use", "remove", "done"} => mem.used["w"] = 1
  /\ pc["r"] = "get" => mem.used["r"] = 0
  /\ pc["r"] = "use" => mem.used["r"] \in 1 .. 2
  /\ mem.text[2] = ""
  /\ mem.text[1] = "" \/ mem.used["w"] = 1
  /\ mem.shown = "hello world" => mem.used["r"] = 1 /\ mem.used["w"] = 1

LEMMA ShmNext ==
  ASSUME program = "shm", [Next]_vars, ShmShape
  PROVE  S!Writer("w") \/ S!Reader("r") \/ UNCHANGED vars
<1>1. ~SpuriousWakeup
  BY Zenon DEF SpuriousWakeup, ShmShape
<1> QED
  BY <1>1 DEF Next, B!Next, C!Next, M!Next, R!Next, L!Next, S!Next, K!Next, B!Step, C!Step, M!Step, M!SendFails,
     R!Manage, R!Dine, R!Detect, R!Main, L!Step, S!Step, vars,
     C!Programs, C!Threaded, B!PcProducer, B!PcConsumer

LEMMA ShmSegmentIs ==
  ASSUME ShmShape
  PROVE  /\ mem.key # 0 => S!Segment = mem
         /\ mem.key = 0 => S!Segment = [created |-> mem.created + 1, key |-> mem.created + 1,
                                       used |-> mem.used, text |-> mem.text, shown |-> mem.shown]
BY DEF ShmShape, S!Segment

(* What a process that gets the segment does: it is left with a segment,   *)
(* which it uses or not, or has failed before.                             *)
LEMMA ShmGetMoves ==
  ASSUME ShmShape, NEW t, S!Get(t)
  PROVE  /\ ShmShape' /\ UNCHANGED <<mem.text, mem.shown>> /\ pc[t] = "get"
         /\ \/ /\ mem.key # 0 /\ UNCHANGED <<mem.created, mem.key>>
            \/ /\ mem.key = 0 /\ mem'.created = mem.created + 1 /\ mem'.key = mem.created + 1
            \/ /\ pc' = [pc EXCEPT ![t] = "failed"] /\ UNCHANGED <<mem.created, mem.key>>
         /\ \/ /\ pc' = [pc EXCEPT ![t] = "use"] /\ mem'.used = [mem.used EXCEPT ![t] = mem'.key]
            \/ /\ pc' = [pc EXCEPT ![t] = "failed"] /\ UNCHANGED mem.used
<1>1. CASE S!Move(t, "get", "use", [S!Segment EXCEPT !.used[t] = S!Segment.key])
  <2>1. CASE mem.key # 0
    BY <1>1, <2>1, ShmSegmentIs DEF ShmShape, S!Move
  <2>2. CASE mem.key = 0
    BY <1>1, <2>2, ShmSegmentIs DEF ShmShape, S!Move
  <2> QED
    BY <2>1, <2>2
<1>2. CASE S!Move(t, "get", "failed", S!Segment)
  <2>1. CASE mem.key # 0
    BY <1>2, <2>1, ShmSegmentIs DEF ShmShape, S!Move
  <2>2. CASE mem.key = 0
    BY <1>2, <2>2, ShmSegmentIs DEF ShmShape, S!Move
  <2> QED
    BY <2>1, <2>2
<1>3. CASE S!Fail(t, "get")
  BY Zenon, <1>3 DEF ShmShape, S!Fail, S!Goto, S!Move
<1> QED
  BY Zenon, <1>1, <1>2, <1>3 DEF S!Get

LEMMA ShmUseMoves ==
  ASSUME ShmShape
  PROVE  /\ S!Writer("w") =>
              \/ S!Get("w")
              \/ /\ pc["w"] = "use" /\ pc' = [pc EXCEPT !["w"] = "remove"]
                 /\ mem'.text = [mem.text EXCEPT ![mem.used["w"]] = "hello world"]
                 /\ ShmShape' /\ UNCHANGED <<mem.created, mem.key, mem.used, mem.shown>>
              \/ /\ pc["w"] = "remove" /\ pc' = [pc EXCEPT !["w"] = "done"]
                 /\ mem'.key = 0
                 /\ ShmShape' /\ UNCHANGED <<mem.created, mem.used, mem.text, mem.shown>>
              \/ /\ pc["w"] = "remove" /\ pc' = [pc EXCEPT !["w"] = "failed"]
                 /\ UNCHANGED mem
         /\ S!Reader("r") =>
              \/ S!Get("r")
              \/ /\ pc["r"] = "use" /\ \E l \in {"done", "failed"} : pc' = [pc EXCEPT !["r"] = l]
                 /\ mem'.shown = mem.text[mem.used["r"]]
                 /\ ShmShape' /\ UNCHANGED <<mem.created, mem.key, mem.used, mem.text>>
BY Zenon DEF ShmShape, S!Writer, S!Reader, S!Move, S!Fail, S!Goto

LEMMA Excepted ==
  ASSUME NEW D, NEW V, NEW f \in [D -> V], NEW x \in D, NEW v \in V
  PROVE  /\ [f EXCEPT ![x] = v] \in [D -> V] /\ [f EXCEPT ![x] = v][x] = v
         /\ \A y \in D : y # x => [f EXCEPT ![x] = v][y] = f[y]
OBVIOUS

(* The segments there are after a process has gone from "get". *)
LEMMA ShmGets ==
  ASSUME ShmInv, NEW t \in {"w", "r"}, S!Get(t)
  PROVE  /\ ShmSegments'
         /\ mem'.created \in 0 .. 2 /\ mem'.key \in 0 .. 2
         /\ pc'[t] = "use" => mem'.key \in 1 .. 2 /\ (t = "w" => mem'.key = 1)
<1> ShmShape /\ ShmType
  BY DEF ShmInv, ShmType
<1>1. /\ pc[t] = "get"
      /\ \/ /\ mem.key # 0 /\ UNCHANGED <<mem.created, mem.key>>
         \/ /\ mem.key = 0 /\ mem'.created = mem.created + 1 /\ mem'.key = mem.created + 1
         \/ /\ pc' = [pc EXCEPT ![t] = "failed"] /\ UNCHANGED <<mem.created, mem.key>>
      /\ \/ /\ pc' = [pc EXCEPT ![t] = "use"] /\ mem'.used = [mem.used EXCEPT ![t] = mem'.key]
         \/ /\ pc' = [pc EXCEPT ![t] = "failed"] /\ UNCHANGED mem.used
  BY Zenon, ShmGetMoves
<1>2. /\ pc'[t] \in {"use", "failed"} /\ \A u \in {"w", "r"} : u # t => pc'[u] = pc[u]
      /\ pc'[t] = "use" => mem'.used[t] = mem'.key
      /\ pc'[t] = "failed" => mem'.used[t] = mem.used[t]
      /\ \A u \in {"w", "r"} : u # t => mem'.used[u] = mem.used[u]
      /\ pc' = [pc EXCEPT ![t] = "failed"] => pc'[t] = "failed"
  BY <1>1 DEF ShmType
<1>3. CASE t = "w"
  <2>1. pc["w"] # "done" /\ pc["w"] \notin {"use", "remove"} /\ pc'["w"] # "done" /\ pc'["w"] # "remove"
    BY <1>1, <1>2, <1>3
  <2>2. (mem.created = 0 /\ mem.key = 0) \/ (mem.created = 1 /\ mem.key = 1)
    BY <2>1 DEF ShmInv, ShmSegments
  <2>3. \/ mem'.created = 1 /\ mem'.key = 1
        \/ mem'.created = 0 /\ mem'.key = 0 /\ pc'["w"] = "failed"
    BY <1>1, <1>2, <1>3, <2>2
  <2> QED
    BY <1>2, <1>3, <2>1, <2>3 DEF ShmSegments
<1>4. CASE t = "r"
  <2>1. pc["r"] = "get" /\ pc'["r"] # "get" /\ pc'["w"] = pc["w"] /\ mem.used["r"] = 0
    BY <1>1, <1>2, <1>4 DEF ShmInv
  <2>2. CASE pc["w"] # "done"
    <3>1. \/ pc["w"] \notin {"use", "remove"} /\ mem.created = 0 /\ mem.key = 0
          \/ mem.created = 1 /\ mem.key = 1
      BY <2>1, <2>2 DEF ShmInv, ShmSegments
    <3>2. \/ mem'.created = 1 /\ mem'.key = 1
          \/ mem'.created = 0 /\ mem'.key = 0 /\ pc'["r"] = "failed" /\ pc["w"] \notin {"use", "remove"}
      BY <1>1, <1>2, <1>4, <3>1
    <3> QED
      BY <1>2, <1>4, <2>1, <2>2, <3>2 DEF ShmSegments
  <2>3. CASE pc["w"] = "done"
    <3>1. mem.created = 1 /\ mem.key = 0
      BY <2>1, <2>3 DEF ShmInv, ShmSegments
    <3>2. \/ mem'.created = 2 /\ mem'.key = 2
          \/ mem'.created = 1 /\ mem'.key = 0 /\ pc'["r"] = "failed"
      BY <1>1, <1>2, <1>4, <3>1
    <3>3. mem'.key = 2 => mem'.used["r"] # 1
      BY <1>2, <1>4, <2>1
    <3> QED
      BY <1>2, <1>4, <2>1, <2>3, <3>2, <3>3 DEF ShmSegments
  <2> QED
    BY <2>2, <2>3
<1> QED
  BY <1>3, <1>4

LEMMA ShmKeeps ==
  ASSUME program = "shm", ShmInv, [Next]_vars
  PROVE  ShmInv'
<1> ShmShape /\ ShmType
  BY DEF ShmInv, ShmType
<1> /\ 1 \in 0 .. 2 /\ 2 \in 0 .. 2 /\ 1 \in 1 .. 2 /\ 2 \in 1 .. 2 /\ 1 # 2 /\ 0 # 1 /\ 0 # 2
    /\ "" # "hello world"
  OBVIOUS
<1>1. CASE UNCHANGED vars
  BY Zenon, <1>1 DEF vars, ShmInv, ShmType, ShmShape, ShmSegments
<1>2. ASSUME NEW t \in {"w", "r"}, S!Get(t)
      PROVE  ShmInv'
  <2>1. /\ ShmSegments' /\ mem'.key \in 0 .. 2
        /\ pc'[t] = "use" => mem'.key \in 1 .. 2 /\ (t = "w" => mem'.key = 1)
    BY Zenon, <1>2, ShmGets
  <2>2. /\ ShmShape' /\ UNCHANGED <<mem.text, mem.shown>> /\ pc[t] = "get"
        /\ \/ /\ pc' = [pc EXCEPT ![t] = "use"] /\ mem'.used = [mem.used EXCEPT ![t] = mem'.key]
           \/ /\ pc' = [pc EXCEPT ![t] = "failed"] /\ UNCHANGED mem.used
    BY Zenon, <1>2, ShmGetMoves
  <2> DEFINE labels == {"get", "use", "remove", "done", "failed"}
  <2>0. /\ pc \in [{"w", "r"} -> labels] /\ mem.used \in [{"w", "r"} -> 0 .. 2]
        /\ "use" \in labels /\ "failed" \in labels /\ "use" # "failed"
    BY DEF ShmType
  <2> HIDE DEF labels
  <2>3. /\ pc' \in [{"w", "r"} -> labels]
        /\ pc'[t] \in {"use", "failed"} /\ \A u \in {"w", "r"} : u # t => pc'[u] = pc[u]
        /\ pc'[t] = "use" => pc' = [pc EXCEPT ![t] = "use"]
        /\ pc'[t] = "failed" => pc' = [pc EXCEPT ![t] = "failed"]
    <3>1. CASE pc' = [pc EXCEPT ![t] = "use"]
      <4>1. pc' \in [{"w", "r"} -> labels] /\ pc'[t] = "use" /\ \A u \in {"w", "r"} : u # t => pc'[u] = pc[u]
        BY Zenon, <2>0, <3>1, Excepted
      <4> QED
        BY Zenon, <2>0, <3>1, <4>1
    <3>2. CASE pc' = [pc EXCEPT ![t] = "failed"]
      <4>1. pc' \in [{"w", "r"} -> labels] /\ pc'[t] = "failed" /\ \A u \in {"w", "r"} : u # t => pc'[u] = pc[u]
        BY Zenon, <2>0, <3>2, Excepted
      <4> QED
        BY Zenon, <2>0, <3>2, <4>1
    <3> QED
      BY Zenon, <2>2, <3>1, <3>2
  <2>4. /\ mem'.used \in [{"w", "r"} -> 0 .. 2]
        /\ \A u \in {"w", "r"} : u # t => mem'.used[u] = mem.used[u]
        /\ pc'[t] = "use" => mem'.used[t] = mem'.key
        /\ pc'[t] = "failed" => mem'.used[t] = mem.used[t]
    <3>1. /\ [mem.used EXCEPT ![t] = mem'.key] \in [{"w", "r"} -> 0 .. 2]
          /\ [mem.used EXCEPT ![t] = mem'.key][t] = mem'.key
          /\ \A u \in {"w", "r"} : u # t => [mem.used EXCEPT ![t] = mem'.key][u] = mem.used[u]
      BY Zenon, <2>0, <2>1, Excepted
    <3>2. CASE pc' = [pc EXCEPT ![t] = "use"] /\ mem'.used = [mem.used EXCEPT ![t] = mem'.key]
      <4>1. pc'[t] = "use"
        BY Zenon, <2>0, <3>2, Excepted
      <4> QED
        BY Zenon, <2>0, <3>1, <3>2, <4>1
    <3>3. CASE pc' = [pc EXCEPT ![t] = "failed"] /\ UNCHANGED mem.used
      <4>1. pc'[t] = "failed"
        BY Zenon, <2>0, <3>3, Excepted
      <4> QED
        BY Zenon, <2>0, <3>3, <4>1
    <3> QED
      BY Zenon, <2>2, <3>2, <3>3
  <2>5. ShmType'
    <3>1. pc'["r"] # "remove"
      BY <1>2, <2>3 DEF ShmType
    <3> QED
      BY Zenon, <2>2, <2>3, <2>4, <3>1 DEF ShmType, labels
  <2>6. CASE t = "w"
    BY <2>1, <2>2, <2>3, <2>4, <2>5, <2>6 DEF ShmInv
  <2>7. CASE t = "r"
    BY <2>1, <2>2, <2>3, <2>4, <2>5, <2>7 DEF ShmInv
  <2> QED
    BY <2>6, <2>7
<1>3. CASE S!Writer("w") /\ ~S!Get("w")
  <2>1. CASE /\ pc["w"] = "use" /\ pc' = [pc EXCEPT !["w"] = "remove"]
             /\ mem'.text = [mem.text EXCEPT ![mem.used["w"]] = "hello world"]
             /\ ShmShape' /\ UNCHANGED <<mem.created, mem.key, mem.used, mem.shown>>
    <3>1. mem.used["w"] = 1 /\ mem'.text = [mem.text EXCEPT ![1] = "hello world"]
      BY <2>1 DEF ShmInv
    <3>2. mem'.text \in [1 .. 2 -> {"", "hello world"}] /\ mem'.text[2] = mem.text[2]
      <4>1. /\ [mem.text EXCEPT ![1] = "hello world"] \in [1 .. 2 -> {"", "hello world"}]
            /\ [mem.text EXCEPT ![1] = "hello world"][2] = mem.text[2]
        <5>1. mem.text \in [1 .. 2 -> {"", "hello world"}] /\ "hello world" \in {"", "hello world"}
          BY Zenon DEF ShmType
        <5> QED
          BY Zenon, <5>1, Excepted
      <4> QED
        BY Zenon, <3>1, <4>1
    <3>3. /\ pc' \in [{"w", "r"} -> {"get", "use", "remove", "done", "failed"}]
          /\ pc'["w"] = "remove" /\ pc'["r"] = pc["r"]
      BY <2>1 DEF ShmType
    <3>4. ShmType'
      BY Zenon, <2>1, <3>2, <3>3 DEF ShmType
    <3>5. ShmSegments'
      BY <2>1, <3>3 DEF ShmInv, ShmSegments
    <3> QED
      BY Zenon, <2>1, <3>1, <3>2, <3>3, <3>4, <3>5 DEF ShmInv
  <2>2. CASE /\ pc["w"] = "remove" /\ pc' = [pc EXCEPT !["w"] = "done"]
             /\ mem'.key = 0
             /\ ShmShape' /\ UNCHANGED <<mem.created, mem.used, mem.text, mem.shown>>
    <3>1. /\ pc' \in [{"w", "r"} -> {"get", "use", "remove", "done", "failed"}]
          /\ pc'["w"] = "done" /\ pc'["r"] = pc["r"]
      BY <2>2 DEF ShmType
    <3>2. ShmType'
      BY Zenon, <2>2, <3>1 DEF ShmType
    <3>3. ShmSegments'
      BY <2>2, <3>1 DEF ShmInv, ShmSegments
    <3> QED
      BY <2>2, <3>1, <3>2, <3>3 DEF ShmInv
  <2>3. CASE pc["w"] = "remove" /\ pc' = [pc EXCEPT !["w"] = "failed"] /\ UNCHANGED mem
    <3>1. /\ pc' \in [{"w", "r"} -> {"get", "use", "remove", "done", "failed"}]
          /\ pc'["w"] = "failed" /\ pc'["r"] = pc["r"]
      BY <2>3 DEF ShmType
    <3>2. ShmType'
      BY Zenon, <2>3, <3>1 DEF ShmType, ShmShape
    <3>3. ShmSegments'
      BY <2>3, <3>1 DEF ShmInv, ShmSegments
    <3> QED
      BY <2>3, <3>1, <3>2, <3>3 DEF ShmInv
  <2> QED
    BY Zenon, <1>3, <2>1, <2>2, <2>3, ShmUseMoves
<1>4. CASE S!Reader("r") /\ ~S!Get("r")
  <2>1. PICK l \in {"done", "failed"} :
          /\ pc["r"] = "use" /\ pc' = [pc EXCEPT !["r"] = l]
          /\ mem'.shown = mem.text[mem.used["r"]]
          /\ ShmShape' /\ UNCHANGED <<mem.created, mem.key, mem.used, mem.text>>
    BY Zenon, <1>4, ShmUseMoves
  <2>2. /\ pc' \in [{"w", "r"} -> {"get", "use", "remove", "done", "failed"}]
        /\ pc'["r"] = l /\ pc'["w"] = pc["w"]
    BY <2>1 DEF ShmType
  <2>3. ShmType'
    <3>1. pc'["r"] # "remove"
      BY <2>2
    <3> QED
      BY Zenon, <2>1, <2>2, <3>1 DEF ShmType
  <2>4. ShmSegments'
    BY <2>1, <2>2 DEF ShmInv, ShmSegments
  <2>5. mem'.shown = "hello world" => mem.used["r"] = 1 /\ mem.used["w"] = 1
    <3>1. mem.used["r"] = 1 \/ mem.used["r"] = 2
      <4>1. mem.used["r"] \in 1 .. 2
        BY Zenon, <2>1 DEF ShmInv
      <4> QED
        BY <4>1
    <3> QED
      BY Zenon, <2>1, <3>1 DEF ShmInv
  <2> QED
    BY <2>1, <2>2, <2>3, <2>4, <2>5 DEF ShmInv
<1> QED
  BY Zenon, <1>1, <1>2, <1>3, <1>4, ShmNext DEF S!Writer, S!Reader

LEMMA ShmStarts ==
  ASSUME program = "shm", Init
  PROVE  ShmInv
<1>1. /\ pc = [t \in {"w", "r"} |-> "get"]
      /\ mem = [created |-> 0, key |-> 0, used |-> [t \in {"w", "r"} |-> 0],
                text |-> [k \in 1 .. 2 |-> ""], shown |-> "nothing"]
  BY DEF Init, B!Init, C!Init, M!Init, R!Init, L!Init, S!Init, K!Init, B!Start, C!Start,
     M!Start, R!Start, L!Start, S!Start, K!Start, C!Threaded, S!Threads
<1>2. ShmShape /\ mem.created = 0 /\ mem.key = 0 /\ mem.used = [t \in {"w", "r"} |-> 0]
      /\ mem.text = [k \in 1 .. 2 |-> ""] /\ mem.shown = "nothing"
  BY Zenon, <1>1 DEF ShmShape
<1>3. ShmType
  <2>1. /\ [t \in {"w", "r"} |-> "get"] \in [{"w", "r"} -> {"get", "use", "remove", "done", "failed"}]
        /\ [t \in {"w", "r"} |-> 0] \in [{"w", "r"} -> 0 .. 2]
        /\ [k \in 1 .. 2 |-> ""] \in [1 .. 2 -> {"", "hello world"}]
    OBVIOUS
  <2> QED
    BY <1>1, <1>2, <2>1 DEF ShmType
<1>4. mem.text[1] = "" /\ mem.text[2] = ""
  <2>1. [k \in 1 .. 2 |-> ""][1] = "" /\ [k \in 1 .. 2 |-> ""][2] = ""
    OBVIOUS
  <2> QED
    BY Zenon, <1>2, <2>1
<1>5. mem.used["r"] = 0 /\ pc["w"] = "get" /\ pc["r"] = "get"
  BY <1>1, <1>2
<1> QED
  BY <1>2, <1>3, <1>4, <1>5 DEF ShmInv, ShmSegments

LEMMA SharingKept ==
  ASSUME program = "mmap_sharing" => MmapInv, program = "shm" => ShmInv
  PROVE  S!TextShown /\ S!SegmentRemoved
<1>1. program = "mmap_sharing" =>
        /\ pc["r"] = "done" /\ mem.late => mem.shown \in {"new", "garbage"}
        /\ pc["r"] = "killed" => pc["w"] # "open"
  BY Zenon DEF MmapInv
<1>2. program = "shm" => (mem.shown = "hello world" => mem.used["r"] = mem.used["w"])
  BY Zenon DEF ShmInv
<1>3. program = "shm" /\ pc["w"] = "done" /\ mem.key # 0 =>
        mem.key = 2 /\ mem.used["w"] = 1 /\ pc["r"] # "get" /\ mem.used["r"] # 1
  BY DEF ShmInv, ShmSegments
<1> QED
  BY Zenon, <1>1, <1>2, <1>3 DEF S!TextShown, S!SegmentRemoved

-----------------------------------------------------------------------------
(* async_res_request: units under a mutex and a condition *)

ArrShape == mem = [available |-> mem.available, lock |-> mem.lock, waiting |-> mem.waiting,
                   spurious |-> mem.spurious]
ArrLabels == {"lock", "test", "unlock", "lock2", "release", "broadcast", "unlock2", "done"}
ArrCritical == {"test", "unlock", "release", "broadcast", "unlock2"}

(* Each access to available is made with the mutex: this is what lets the  *)
(* test and the subtraction be one step.                                   *)
ArrInv == /\ ArrShape
          /\ pc \in [R!Processes -> ArrLabels]
          /\ Excluded(pc, ArrCritical, mem.lock)
          /\ mem.available \in Nat
          /\ mem.available + SumFunctionOnSet(Requests, R!Holding) = NUM_RESOURCES

LEMMA SameSum ==
  ASSUME NEW f, NEW T
  PROVE  R!SumFunctionOnSet(f, T) = SumFunctionOnSet(f, T)
BY DEF R!SumFunctionOnSet, SumFunctionOnSet, R!FoldFunctionOnSet, FoldFunctionOnSet,
       R!MapThenFoldSet, MapThenFoldSet

LEMMA ProcessesFinite ==
  /\ IsFiniteSet(R!Processes) /\ Requests \in [R!Processes -> Nat] /\ Requests \in [R!Processes -> Int]
  /\ R!Processes \subseteq Int /\ Free \notin R!Processes
<1>1. PICK n \in Nat : R!Processes = 1 .. n
  BY ResourcesAssumption DEF R!Processes
<1>2. IsFiniteSet(1 .. n)
  BY FS_Interval
<1>3. Requests \in [R!Processes -> Nat]
  BY ResourcesAssumption DEF R!Processes
<1>4. Requests \in [R!Processes -> Int] /\ R!Processes \subseteq Int
  BY <1>1, <1>3
<1> QED
  BY <1>1, <1>2, <1>3, <1>4, FreeIsNobody

LEMMA ArrNext ==
  ASSUME program = "async_res_request", [Next]_vars
  PROVE  (\E p \in R!Processes : R!ManagerStep(p)) \/ SpuriousWakeup \/ UNCHANGED vars
BY DEF Next, B!Next, C!Next, M!Next, R!Next, L!Next, S!Next, K!Next, B!Step, C!Step, M!Step, M!SendFails,
     R!Manage, R!Dine, R!Detect, R!Main, L!Step, S!Step, vars,
     C!Programs, C!Threaded, B!PcProducer, B!PcConsumer

LEMMA ArrMoves ==
  ASSUME ArrShape, NEW p, R!ManagerStep(p)
  PROVE  /\ ArrShape'
         /\ \/ /\ pc[p] = "lock" /\ pc' = [pc EXCEPT ![p] = "test"]
               /\ mem.lock = Free /\ mem'.lock = p /\ UNCHANGED mem.available
            \/ /\ pc[p] = "test" /\ pc' = [pc EXCEPT ![p] = "lock"]
               /\ mem'.lock = Free /\ UNCHANGED mem.available
            \/ /\ pc[p] = "test" /\ pc' = [pc EXCEPT ![p] = "unlock"] /\ UNCHANGED mem.lock
               /\ Requests[p] <= mem.available /\ mem'.available = mem.available - Requests[p]
            \/ /\ pc[p] = "unlock" /\ pc' = [pc EXCEPT ![p] = "lock2"]
               /\ mem'.lock = Free /\ UNCHANGED mem.available
            \/ /\ pc[p] = "lock2" /\ pc' = [pc EXCEPT ![p] = "release"]
               /\ mem.lock = Free /\ mem'.lock = p /\ UNCHANGED mem.available
            \/ /\ pc[p] = "release" /\ pc' = [pc EXCEPT ![p] = "broadcast"] /\ UNCHANGED mem.lock
               /\ mem'.available = mem.available + Requests[p]
            \/ /\ pc[p] = "broadcast" /\ pc' = [pc EXCEPT ![p] = "unlock2"]
               /\ UNCHANGED <<mem.lock, mem.available>>
            \/ /\ pc[p] = "unlock2" /\ pc' = [pc EXCEPT ![p] = "done"]
               /\ mem'.lock = Free /\ UNCHANGED mem.available
BY Zenon DEF ArrShape, R!ManagerStep, R!Relock, R!Lock, R!Wait, R!Move, R!Unlock, R!ReleaseBroadcasts,
             R!Broadcast

(* A step that leaves the units as they are. *)
LEMMA ArrQuiet ==
  ASSUME ArrInv, NEW p \in R!Processes, NEW label \in ArrLabels, pc' = [pc EXCEPT ![p] = label], ArrShape',
         LockMoves(mem.lock, mem'.lock, p, ArrCritical, pc[p], label),
         UNCHANGED mem.available,
         pc[p] \in {"unlock", "lock2", "release"} <=> label \in {"unlock", "lock2", "release"}
  PROVE  ArrInv'
<1>1. pc' \in [R!Processes -> ArrLabels]
  BY DEF ArrInv
<1>2. R!Holding' = R!Holding
  BY DEF ArrInv, R!Holding
<1>3. Excluded(pc', ArrCritical, mem'.lock)
  <2>1. Excluded(pc, ArrCritical, mem.lock) /\ DOMAIN pc = R!Processes
    BY DEF ArrInv
  <2>2. Free \notin DOMAIN pc /\ p \in DOMAIN pc
    BY <2>1, ProcessesFinite
  <2>3. Excluded([pc EXCEPT ![p] = label], ArrCritical, mem'.lock)
    BY Zenon, <2>1, <2>2, ExcludedMoves
  <2> QED
    BY Zenon, <2>3
<1> QED
  BY Zenon, <1>1, <1>2, <1>3 DEF ArrInv

(* Units are taken and given back. *)
LEMMA ArrTakes ==
  ASSUME ArrInv, NEW p \in R!Processes, ArrShape', UNCHANGED mem.lock,
         \/ /\ pc[p] = "test" /\ pc' = [pc EXCEPT ![p] = "unlock"]
            /\ Requests[p] <= mem.available /\ mem'.available = mem.available - Requests[p]
         \/ /\ pc[p] = "release" /\ pc' = [pc EXCEPT ![p] = "broadcast"]
            /\ mem'.available = mem.available + Requests[p]
  PROVE  ArrInv'
<1> DEFINE label == pc'[p]
<1>1. /\ pc' \in [R!Processes -> ArrLabels] /\ pc' = [pc EXCEPT ![p] = label]
      /\ pc[p] \in ArrCritical /\ label \in ArrCritical /\ DOMAIN pc = R!Processes
  BY DEF ArrInv, ArrLabels, ArrCritical
<1>2. LockMoves(mem.lock, mem'.lock, p, ArrCritical, pc[p], label)
  BY <1>1 DEF LockMoves
<1>3. Excluded(pc', ArrCritical, mem'.lock)
  <2>1. Excluded(pc, ArrCritical, mem.lock)
    BY DEF ArrInv
  <2>2. Free \notin DOMAIN pc /\ p \in DOMAIN pc
    BY <1>1, ProcessesFinite
  <2> HIDE DEF label
  <2>3. Excluded([pc EXCEPT ![p] = label], ArrCritical, mem'.lock)
    BY Zenon, <1>2, <2>1, <2>2, ExcludedMoves
  <2> QED
    BY Zenon, <1>1, <2>3
<1>4. Requests[p] \in Nat /\ mem.available \in Nat
  BY ProcessesFinite DEF ArrInv
<1>5. R!Holding \in SUBSET R!Processes /\ R!Holding' \in SUBSET R!Processes
  BY DEF R!Holding
<1>6. SumFunctionOnSet(Requests, R!Holding) \in Int /\ SumFunctionOnSet(Requests, R!Holding') \in Int
  BY Zenon, <1>5, SumType, ProcessesFinite
<1>7. mem.available + SumFunctionOnSet(Requests, R!Holding) = NUM_RESOURCES
  BY DEF ArrInv
<1>8. CASE /\ pc[p] = "test" /\ pc' = [pc EXCEPT ![p] = "unlock"]
           /\ Requests[p] <= mem.available /\ mem'.available = mem.available - Requests[p]
  <2>1. R!Holding' = R!Holding \cup {p} /\ p \notin R!Holding
    BY <1>1, <1>8 DEF R!Holding, ArrInv
  <2>2. SumFunctionOnSet(Requests, R!Holding \cup {p}) = Requests[p] + SumFunctionOnSet(Requests, R!Holding)
    <3>1. IsFiniteSet(R!Processes) /\ Requests \in [R!Processes -> Int]
      BY ProcessesFinite
    <3> QED
      BY <1>5, <2>1, <3>1, SumInsert
  <2>3. SumFunctionOnSet(Requests, R!Holding') = Requests[p] + SumFunctionOnSet(Requests, R!Holding)
    BY Zenon, <2>1, <2>2
  <2>4. mem'.available \in Nat /\ mem'.available + SumFunctionOnSet(Requests, R!Holding') = NUM_RESOURCES
    BY <1>4, <1>6, <1>7, <1>8, <2>3
  <2> QED
    BY Zenon, <1>1, <1>3, <2>4 DEF ArrInv
<1>9. CASE /\ pc[p] = "release" /\ pc' = [pc EXCEPT ![p] = "broadcast"]
           /\ mem'.available = mem.available + Requests[p]
  <2>1. R!Holding = R!Holding' \cup {p} /\ p \notin R!Holding'
    BY <1>1, <1>9 DEF R!Holding, ArrInv
  <2>2. SumFunctionOnSet(Requests, R!Holding' \cup {p}) = Requests[p] + SumFunctionOnSet(Requests, R!Holding')
    <3>1. IsFiniteSet(R!Processes) /\ Requests \in [R!Processes -> Int]
      BY ProcessesFinite
    <3> QED
      BY <1>5, <2>1, <3>1, SumInsert
  <2>3. SumFunctionOnSet(Requests, R!Holding) = Requests[p] + SumFunctionOnSet(Requests, R!Holding')
    BY Zenon, <2>1, <2>2
  <2>4. mem'.available \in Nat /\ mem'.available + SumFunctionOnSet(Requests, R!Holding') = NUM_RESOURCES
    BY <1>4, <1>6, <1>7, <1>9, <2>3
  <2> QED
    BY Zenon, <1>1, <1>3, <2>4 DEF ArrInv
<1> QED
  BY Zenon, <1>8, <1>9

LEMMA ArrKeeps ==
  ASSUME program = "async_res_request", ArrInv, [Next]_vars
  PROVE  ArrInv'
<1>1. ArrShape
  BY DEF ArrInv
<1>2. CASE UNCHANGED vars
  BY Zenon, <1>2 DEF vars, ArrInv, ArrShape, R!Holding
<1>3. CASE SpuriousWakeup
  <2>1. ArrShape' /\ UNCHANGED <<pc, mem.lock, mem.available>>
    BY Zenon, <1>1, <1>3 DEF SpuriousWakeup, ArrShape
  <2> QED
    BY Zenon, <2>1 DEF ArrInv, R!Holding
<1>4. ASSUME NEW p \in R!Processes, R!ManagerStep(p)
      PROVE  ArrInv'
  <2>1. ASSUME NEW label, pc' = [pc EXCEPT ![p] = label], UNCHANGED mem.available,
               \/ pc[p] = "lock" /\ label = "test" /\ mem.lock = Free /\ mem'.lock = p
               \/ pc[p] = "test" /\ label = "lock" /\ mem'.lock = Free
               \/ pc[p] = "unlock" /\ label = "lock2" /\ mem'.lock = Free
               \/ pc[p] = "lock2" /\ label = "release" /\ mem.lock = Free /\ mem'.lock = p
               \/ pc[p] = "broadcast" /\ label = "unlock2" /\ UNCHANGED mem.lock
               \/ pc[p] = "unlock2" /\ label = "done" /\ mem'.lock = Free
        PROVE  ArrInv'
    <3>1. /\ LockMoves(mem.lock, mem'.lock, p, ArrCritical, pc[p], label) /\ label \in ArrLabels
          /\ pc[p] \in {"unlock", "lock2", "release"} <=> label \in {"unlock", "lock2", "release"}
      BY <2>1 DEF LockMoves, ArrCritical, ArrLabels
    <3>2. ArrShape'
      BY Zenon, <1>1, <1>4, ArrMoves
    <3> QED
      BY <2>1, <3>1, <3>2, ArrQuiet
  <2> QED
    BY Zenon, <1>1, <1>4, <2>1, ArrMoves, ArrTakes
<1> QED
  BY Zenon, <1>2, <1>3, <1>4, ArrNext

LEMMA ArrStarts ==
  ASSUME program = "async_res_request", Init
  PROVE  ArrInv
<1>1. /\ pc = [p \in R!Processes |-> "lock"]
      /\ mem = [available |-> NUM_RESOURCES, lock |-> Free, waiting |-> [c \in {"cond"} |-> {}], spurious |-> 0]
  BY DEF Init, B!Init, C!Init, M!Init, R!Init, L!Init, S!Init, K!Init, B!Start, C!Start,
     M!Start, R!Start, L!Start, S!Start, K!Start, C!Threaded
<1>2. ArrShape /\ mem.available = NUM_RESOURCES /\ mem.lock = Free
  BY Zenon, <1>1 DEF ArrShape
<1>3. R!Holding = {}
  BY <1>1 DEF R!Holding
<1>4. SumFunctionOnSet(Requests, R!Holding) = 0
  BY Zenon, <1>3, SumEmpty
<1>5. Excluded(pc, ArrCritical, mem.lock)
  BY <1>1, <1>2, ProcessesFinite DEF Excluded, ArrCritical
<1>6. pc \in [R!Processes -> ArrLabels]
  BY <1>1 DEF ArrLabels
<1> QED
  BY <1>2, <1>4, <1>5, <1>6, ResourcesAssumption DEF ArrInv

-----------------------------------------------------------------------------
(* dinPhil: forks *)

DinShape == mem = [sem |-> mem.sem]

(* A fork is on the table or in the hand of one philosopher.  One that     *)
(* eats has two forks: a philosopher who is alone waits for the second.    *)
DinInv == /\ DinShape
          /\ pc \in [R!Philosophers -> {"left", "right", "eat", "post"}]
          /\ mem.sem \in [R!Philosophers -> Int]
          /\ \A f \in R!Philosophers : mem.sem[f] + Cardinality(R!Users(f)) = 1
          /\ \A phil \in R!Philosophers : pc[phil] = "eat" => R!Right(phil) # phil

LEMMA PhilosophersFinite ==
  /\ IsFiniteSet(R!Philosophers) /\ R!Philosophers \subseteq Int
  /\ \A phil \in R!Philosophers : R!Right(phil) \in R!Philosophers
<1>1. IsFiniteSet(0 .. N - 1) /\ N \in Nat \ {0} /\ N - 1 \in Int
  BY FS_Interval, ResourcesAssumption
<1>2. ASSUME NEW phil \in 0 .. N - 1 PROVE (phil + 1) % N \in 0 .. N - 1
  <2>1. Wrap(phil + 1, N) \in 0 .. N - 1
    BY Wraps, <1>1
  <2> QED
    BY Zenon, <2>1 DEF Wrap
<1> QED
  BY <1>1, <1>2 DEF R!Philosophers, R!Right

LEMMA DinNext ==
  ASSUME program = "dinPhil", [Next]_vars, DinShape
  PROVE  (\E phil \in R!Philosophers : R!PhilosopherStep(phil)) \/ UNCHANGED vars
<1>1. ~SpuriousWakeup
  BY Zenon DEF SpuriousWakeup, DinShape
<1> QED
  BY <1>1 DEF Next, B!Next, C!Next, M!Next, R!Next, L!Next, S!Next, K!Next, B!Step, C!Step, M!Step, M!SendFails,
     R!Manage, R!Dine, R!Detect, R!Main, L!Step, S!Step, vars,
     C!Programs, C!Threaded, B!PcProducer, B!PcConsumer

DinTakes(phil, f, from, to) ==
  /\ pc[phil] = from /\ pc' = [pc EXCEPT ![phil] = to]
  /\ mem.sem[f] > 0 /\ mem'.sem = [mem.sem EXCEPT ![f] = mem.sem[f] - 1]
DinGives(phil, f, from, to) ==
  /\ pc[phil] = from /\ pc' = [pc EXCEPT ![phil] = to]
  /\ mem'.sem = [mem.sem EXCEPT ![f] = mem.sem[f] + 1]

LEMMA DinMoves ==
  ASSUME DinShape, NEW phil, R!PhilosopherStep(phil)
  PROVE  /\ DinShape'
         /\ \/ DinTakes(phil, phil, "left", "right")
            \/ DinTakes(phil, R!Right(phil), "right", "eat")
            \/ DinGives(phil, R!Right(phil), "eat", "post")
            \/ DinGives(phil, phil, "post", "left")
BY Zenon DEF DinShape, R!PhilosopherStep, R!SemWait, R!SemPost, R!Move, DinTakes, DinGives

LEMMA UsersFinite ==
  ASSUME NEW f
  PROVE  R!Users(f) \subseteq R!Philosophers /\ IsFiniteSet(R!Users(f)) /\ Cardinality(R!Users(f)) \in Nat
<1>1. R!Users(f) \subseteq R!Philosophers
  BY DEF R!Users
<1> QED
  BY <1>1, PhilosophersFinite, FS_Subset, FS_CardinalityType

(* One user more, one user less. *)
LEMMA OneMore ==
  ASSUME NEW U, IsFiniteSet(U), NEW x, x \notin U
  PROVE  Cardinality(U \cup {x}) = Cardinality(U) + 1 /\ Cardinality(U) \in Nat
BY FS_AddElement, FS_CardinalityType

LEMMA DinTaken ==
  ASSUME DinInv, DinShape', NEW phil \in R!Philosophers, NEW f \in R!Philosophers, NEW from, NEW to,
         DinTakes(phil, f, from, to),
         \/ f = phil /\ from = "left" /\ to = "right"
         \/ f = R!Right(phil) /\ from = "right" /\ to = "eat"
  PROVE  DinInv'
<1>1. /\ pc \in [R!Philosophers -> {"left", "right", "eat", "post"}] /\ mem.sem \in [R!Philosophers -> Int]
      /\ mem.sem[f] > 0 /\ mem.sem[f] + Cardinality(R!Users(f)) = 1
      /\ pc[phil] = from /\ pc' = [pc EXCEPT ![phil] = to]
      /\ mem'.sem = [mem.sem EXCEPT ![f] = mem.sem[f] - 1]
  BY Zenon DEF DinInv, DinTakes
<1>2. Cardinality(R!Users(f)) = 0 /\ mem.sem[f] = 1
  BY <1>1, UsersFinite
<1>3. R!Users(f) = {}
  BY <1>2, UsersFinite, FS_EmptySet
<1>4. /\ pc' \in [R!Philosophers -> {"left", "right", "eat", "post"}] /\ mem'.sem \in [R!Philosophers -> Int]
      /\ mem'.sem[f] = 0 /\ \A g \in R!Philosophers : g # f => mem'.sem[g] = mem.sem[g]
  BY <1>1, <1>2
<1>5. R!Users(f)' = {phil}
  <2>1. phil \in R!Users(f)'
    BY <1>1 DEF R!Users, R!HasLeft
  <2>2. ASSUME NEW q \in R!Users(f)', q # phil PROVE FALSE
    BY <1>1, <1>3, <2>2 DEF R!Users, R!HasLeft
  <2> QED
    BY <2>1, <2>2
<1>6. ASSUME NEW g \in R!Philosophers, g # f PROVE R!Users(g)' = R!Users(g)
  <2>1. ASSUME NEW q \in R!Philosophers PROVE q \in R!Users(g)' <=> q \in R!Users(g)
    BY <1>1, <1>6 DEF R!Users, R!HasLeft
  <2> QED
    BY <2>1 DEF R!Users
<1>7. Cardinality(R!Users(f)') = 1
  BY <1>5, FS_Singleton
<1>8. \A g \in R!Philosophers : mem'.sem[g] + Cardinality(R!Users(g)') = 1
  BY <1>4, <1>6, <1>7 DEF DinInv
<1>9. ASSUME NEW q \in R!Philosophers, pc'[q] = "eat" PROVE R!Right(q) # q
  <2>1. CASE q = phil
    <3>1. f = R!Right(phil) /\ pc[phil] = "right"
      BY <1>1, <1>9, <2>1
    <3>2. phil \in R!Philosophers /\ phil \notin R!Users(f)
      BY <1>3
    <3> QED
      BY <2>1, <3>1, <3>2 DEF R!Users, R!HasLeft
  <2>2. CASE q # phil
    BY <1>1, <1>9, <2>2 DEF DinInv
  <2> QED
    BY <2>1, <2>2
<1> QED
  BY Zenon, <1>4, <1>8, <1>9 DEF DinInv

LEMMA DinGiven ==
  ASSUME DinInv, DinShape', NEW phil \in R!Philosophers, NEW f \in R!Philosophers, NEW from, NEW to,
         DinGives(phil, f, from, to),
         \/ f = R!Right(phil) /\ from = "eat" /\ to = "post"
         \/ f = phil /\ from = "post" /\ to = "left"
  PROVE  DinInv'
<1>1. /\ pc \in [R!Philosophers -> {"left", "right", "eat", "post"}] /\ mem.sem \in [R!Philosophers -> Int]
      /\ mem.sem[f] + Cardinality(R!Users(f)) = 1
      /\ pc[phil] = from /\ pc' = [pc EXCEPT ![phil] = to]
      /\ mem'.sem = [mem.sem EXCEPT ![f] = mem.sem[f] + 1]
      /\ pc[phil] = "eat" => R!Right(phil) # phil
  BY Zenon DEF DinInv, DinGives
<1>4. /\ pc' \in [R!Philosophers -> {"left", "right", "eat", "post"}] /\ mem'.sem \in [R!Philosophers -> Int]
      /\ mem'.sem[f] = mem.sem[f] + 1 /\ \A g \in R!Philosophers : g # f => mem'.sem[g] = mem.sem[g]
      /\ mem.sem[f] \in Int
  BY <1>1
<1>5. R!Users(f) = R!Users(f)' \cup {phil} /\ phil \notin R!Users(f)'
  <2>1. phil \in R!Users(f) /\ phil \notin R!Users(f)'
    BY <1>1 DEF R!Users, R!HasLeft
  <2>2. ASSUME NEW q \in R!Philosophers, q # phil PROVE q \in R!Users(f)' <=> q \in R!Users(f)
    BY <1>1, <2>2 DEF R!Users, R!HasLeft
  <2>3. R!Users(f) \subseteq R!Philosophers /\ R!Users(f)' \subseteq R!Philosophers
    BY DEF R!Users
  <2> QED
    BY <2>1, <2>2, <2>3
<1>6. ASSUME NEW g \in R!Philosophers, g # f PROVE R!Users(g)' = R!Users(g)
  <2>1. ASSUME NEW q \in R!Philosophers PROVE q \in R!Users(g)' <=> q \in R!Users(g)
    BY <1>1, <1>6 DEF R!Users, R!HasLeft
  <2> QED
    BY <2>1 DEF R!Users
<1>7. Cardinality(R!Users(f)) = Cardinality(R!Users(f)') + 1 /\ Cardinality(R!Users(f)') \in Nat
  <2>1. IsFiniteSet(R!Users(f)')
    <3>1. R!Users(f)' \subseteq R!Philosophers
      BY DEF R!Users
    <3> QED
      BY <3>1, PhilosophersFinite, FS_Subset
  <2> QED
    BY <1>5, <2>1, OneMore
<1>8. \A g \in R!Philosophers : mem'.sem[g] + Cardinality(R!Users(g)') = 1
  <2>1. mem'.sem[f] + Cardinality(R!Users(f)') = 1
    BY <1>1, <1>4, <1>7
  <2> QED
    BY <1>4, <1>6, <2>1 DEF DinInv
<1>9. \A q \in R!Philosophers : pc'[q] = "eat" => R!Right(q) # q
  BY <1>1 DEF DinInv
<1> QED
  BY Zenon, <1>4, <1>8, <1>9 DEF DinInv

LEMMA DinKeeps ==
  ASSUME program = "dinPhil", DinInv, [Next]_vars
  PROVE  DinInv'
<1>1. DinShape
  BY DEF DinInv
<1>2. CASE UNCHANGED vars
  BY Zenon, <1>2 DEF vars, DinInv, DinShape, R!Users, R!HasLeft
<1>3. ASSUME NEW phil \in R!Philosophers, R!PhilosopherStep(phil)
      PROVE  DinInv'
  <2>1. R!Right(phil) \in R!Philosophers
    BY PhilosophersFinite
  <2>2. DinShape'
    BY Zenon, <1>1, <1>3, DinMoves
  <2> QED
    BY Zenon, <1>1, <1>3, <2>1, <2>2, DinMoves, DinTaken, DinGiven
<1> QED
  BY Zenon, <1>1, <1>2, <1>3, DinNext

LEMMA DinStarts ==
  ASSUME program = "dinPhil", Init
  PROVE  DinInv
<1>1. /\ pc = [phil \in R!Philosophers |-> "left"]
      /\ mem = [sem |-> [f \in R!Philosophers |-> 1]]
  BY DEF Init, B!Init, C!Init, M!Init, R!Init, L!Init, S!Init, K!Init, B!Start, C!Start,
     M!Start, R!Start, L!Start, S!Start, K!Start, C!Threaded
<1>2. DinShape /\ mem.sem = [f \in R!Philosophers |-> 1]
  BY Zenon, <1>1 DEF DinShape
<1>3. \A f : R!Users(f) = {}
  BY <1>1 DEF R!Users, R!HasLeft
<1>4. \A f \in R!Philosophers : mem.sem[f] + Cardinality(R!Users(f)) = 1
  <2>1. Cardinality({}) = 0
    BY FS_EmptySet
  <2> QED
    BY <1>2, <1>3, <2>1
<1>5. pc \in [R!Philosophers -> {"left", "right", "eat", "post"}] /\ mem.sem \in [R!Philosophers -> Int]
  BY <1>1, <1>2
<1>6. \A phil \in R!Philosophers : pc[phil] # "eat"
  BY <1>1
<1> QED
  BY Zenon, <1>2, <1>4, <1>5, <1>6 DEF DinInv

-----------------------------------------------------------------------------
(* periodic_check: the detector leaves with its mutex *)

PerShape == mem = [lock |-> mem.lock, finished |-> mem.finished, safe |-> mem.safe]
PerInv == /\ PerShape
          /\ pc \in [{"main", "detector"} -> {"run", "failed", "join", "destroyed", "none", "lock", "check",
                                              "recovered", "unlock", "done"}]
          /\ pc["detector"] \in {"check", "recovered", "unlock", "done"} <=> mem.lock = "detector"
          /\ pc["detector"] \in {"recovered", "done"} => mem.safe
          /\ pc["main"] = "destroyed" => pc["detector"] = "done"

LEMMA PerNext ==
  ASSUME program = "periodic_check", [Next]_vars, PerShape
  PROVE  R!DetectorStep("detector") \/ R!MainStep("main") \/ UNCHANGED vars
<1>1. ~SpuriousWakeup
  BY Zenon DEF SpuriousWakeup, PerShape
<1> QED
  BY <1>1 DEF Next, B!Next, C!Next, M!Next, R!Next, L!Next, S!Next, K!Next, B!Step, C!Step, M!Step, M!SendFails,
     R!Manage, R!Dine, R!Detect, R!Main, L!Step, S!Step, vars,
     C!Programs, C!Threaded, B!PcProducer, B!PcConsumer

LEMMA PerDetectorMoves ==
  ASSUME PerShape, R!DetectorStep("detector")
  PROVE  /\ PerShape'
         /\ \/ /\ pc["detector"] = "lock" /\ pc' = [pc EXCEPT !["detector"] = "check"]
               /\ mem'.lock = "detector" /\ UNCHANGED mem.safe
            \/ /\ pc["detector"] = "check" /\ pc' = [pc EXCEPT !["detector"] = "recovered"]
               /\ mem'.safe /\ UNCHANGED mem.lock
            \/ /\ pc["detector"] = "check" /\ pc' = [pc EXCEPT !["detector"] = "unlock"]
               /\ UNCHANGED mem.lock
            \/ /\ pc["detector"] = "recovered" /\ pc' = [pc EXCEPT !["detector"] = "done"]
               /\ UNCHANGED <<mem.lock, mem.safe>>
            \/ /\ pc["detector"] = "recovered" /\ pc' = [pc EXCEPT !["detector"] = "unlock"]
               /\ UNCHANGED <<mem.lock, mem.safe>>
            \/ /\ pc["detector"] = "unlock" /\ pc' = [pc EXCEPT !["detector"] = "lock"]
               /\ mem'.lock = Free /\ UNCHANGED mem.safe
BY Zenon DEF PerShape, R!DetectorStep, R!Lock, R!Check, R!Leave, R!Unlock, R!Move, R!Goto

LEMMA PerMainMoves ==
  ASSUME PerShape, R!MainStep("main")
  PROVE  /\ PerShape' /\ UNCHANGED <<mem.lock, mem.safe>>
         /\ \/ pc' = [pc EXCEPT !["main"] = "join"]
            \/ pc["detector"] = "done" /\ pc' = [pc EXCEPT !["main"] = "destroyed"]
BY Zenon DEF PerShape, R!MainStep, R!Join, R!Move, R!Goto

LEMMA PerKeeps ==
  ASSUME program = "periodic_check", PerInv, [Next]_vars
  PROVE  PerInv'
<1>1. PerShape /\ Free # "detector"
  BY FreeIsNobody DEF PerInv
<1>2. CASE UNCHANGED vars
  BY Zenon, <1>2 DEF vars, PerInv, PerShape
<1>3. CASE R!DetectorStep("detector")
  BY <1>1, <1>3, PerDetectorMoves DEF PerInv
<1>4. CASE R!MainStep("main")
  BY <1>1, <1>4, PerMainMoves DEF PerInv
<1> QED
  BY Zenon, <1>1, <1>2, <1>3, <1>4, PerNext

LEMMA PerStarts ==
  ASSUME program = "periodic_check", Init
  PROVE  PerInv
<1>1. PICK main \in {"run", "failed"} :
        /\ pc = [main |-> main, detector |-> IF main = "run" THEN "lock" ELSE "none"]
        /\ mem = [lock |-> Free, finished |-> FALSE, safe |-> TRUE]
  BY DEF Init, B!Init, C!Init, M!Init, R!Init, L!Init, S!Init, K!Init, B!Start, C!Start,
     M!Start, R!Start, L!Start, S!Start, K!Start, C!Threaded
<1>2. PerShape /\ mem.lock = Free
  BY Zenon, <1>1 DEF PerShape
<1> QED
  BY <1>1, <1>2, FreeIsNobody DEF PerInv

(* What Resources promises. *)
LEMMA ResourcesConserved ==
  ASSUME program = "async_res_request" => ArrInv, program = "dinPhil" => DinInv,
         program = "periodic_check" => PerInv
  PROVE  R!Conserved
<1>1. program = "async_res_request" =>
        /\ mem.available >= 0 /\ mem.available + R!SumFunctionOnSet(Requests, R!Holding) = NUM_RESOURCES
  BY SameSum DEF ArrInv
<1>2. program = "dinPhil" => \A f \in R!Philosophers : mem.sem[f] + R!Cardinality(R!Users(f)) = 1
  BY Zenon DEF DinInv, R!Cardinality, Cardinality
<1>3. program = "periodic_check" =>
        /\ pc["detector"] = "done" => mem.lock = "detector" /\ mem.safe
        /\ pc["main"] = "destroyed" => mem.lock # Free
  BY FreeIsNobody DEF PerInv
<1> QED
  BY Zenon, <1>1, <1>2, <1>3 DEF R!Conserved

-----------------------------------------------------------------------------
(* Counters: additions that are read in one step and written in another *)

CntAdders == {"adder1", "adder2"}
CntLabels == {"fork1", "fork2", "join", "failed", "exited", "none", "open", "add", "read", "write",
              "unlock", "done"}
Other(a) == IF a = "adder1" THEN "adder2" ELSE "adder1"

CntShape == mem = [lock |-> mem.lock, todo |-> mem.todo, done |-> mem.done, val |-> mem.val,
                   seen |-> mem.seen, shown |-> mem.shown]

(* What may be added to the counters in `cells': ones, except to the sums. *)
Additions(cells) == {x \in [to : cells, by : Nat \ {0}] : x.to[1] # "sums" => x.by = 1}

CntType == /\ CntShape
           /\ pc \in [{"adder1", "adder2", "main"} -> CntLabels]
           /\ mem.val \in [DOMAIN mem.val -> Nat]
           /\ mem.seen \in [CntAdders -> Nat] /\ mem.shown \in [CntAdders -> Nat]
           /\ mem.todo \in [CntAdders -> Seq(Additions(DOMAIN mem.val))]
           /\ mem.done \in [CntAdders -> Seq(Additions(DOMAIN mem.val))]
           /\ \A a \in CntAdders : pc[a] \in {"read", "write"} => mem.todo[a] # <<>>

(* The value v of a counter to which the adders have added n and m, by     *)
(* ones or not, exactly or not.                                            *)
Bounds(v, n, m, ones, exact) ==
  /\ v <= n + m
  /\ n + m > 0 => v > 0
  /\ ones => n <= 1 \/ m <= 1 \/ v >= 2
  /\ n = 0 \/ m = 0 \/ exact => v = n + m

(* The value s that an adder has seen of a counter whose value is v.       *)
SeenBounds(s, v, own, others, exact) ==
  /\ s <= own + others
  /\ own > 0 => s > 0
  /\ others = 0 \/ exact => s = v

CntCells == \A c \in DOMAIN mem.val :
              /\ \A a \in CntAdders : C!AddedBy(c, a) \in Nat /\ (C!AddedBy(c, a) = 0 <=> C!To(c, a) = {})
              /\ Bounds(mem.val[c], C!AddedBy(c, "adder1"), C!AddedBy(c, "adder2"), c[1] # "sums",
                        program \in C!Locked)
CntSeen == \A a \in CntAdders : pc[a] = "write" =>
             SeenBounds(mem.seen[a], mem.val[C!Add(a).to], C!AddedBy(C!Add(a).to, a),
                        C!AddedBy(C!Add(a).to, Other(a)), program \in C!Locked)
CntLocked == program \in C!Locked =>
               \A a \in CntAdders : pc[a] \in {"read", "write", "unlock"} => mem.lock = a
CntThreaded ==
  program \in C!Threaded =>
    /\ pc["main"] \notin {"fork1", "fork2"} /\ DOMAIN mem.val = {C!count}
    /\ \A a \in CntAdders : pc[a] # "open" /\ (pc[a] = "done" => mem.todo[a] = <<>>)
    /\ \A a \in CntAdders : C!AddedBy(C!count, a) + Len(mem.todo[a]) = MAX_COUNT
    /\ program \in C!Locked /\ (\A a \in CntAdders : pc[a] = "done") =>
         \E a \in CntAdders : mem.shown[a] = 2 * MAX_COUNT

CntInv == CntType /\ CntCells /\ CntSeen /\ CntLocked /\ CntThreaded

(* What is seen, and what becomes of it when it is written. *)
LEMMA ReadBound ==
  ASSUME NEW v \in Nat, NEW n \in Nat, NEW m \in Nat, NEW ones, NEW exact, Bounds(v, n, m, ones, exact)
  PROVE  SeenBounds(v, v, n, m, exact)
BY DEF Bounds, SeenBounds

LEMMA WriteBound ==
  ASSUME NEW v \in Nat, NEW n \in Nat, NEW m \in Nat, NEW s \in Nat, NEW by \in Nat \ {0},
         NEW ones, NEW exact, ones => by = 1,
         Bounds(v, n, m, ones, exact), SeenBounds(s, v, n, m, exact)
  PROVE  Bounds(s + by, n + by, m, ones, exact)
BY DEF Bounds, SeenBounds

LEMMA WriteBesideBound ==
  ASSUME NEW v \in Nat, NEW w \in Nat, NEW n \in Nat, NEW m \in Nat, NEW s \in Nat, NEW by \in Nat \ {0},
         NEW exact, ~exact, SeenBounds(s, v, m, n, exact)
  PROVE  SeenBounds(s, w, m, n + by, exact)
BY DEF SeenBounds

LEMMA BoundsEitherWay ==
  ASSUME NEW v \in Nat, NEW n \in Nat, NEW m \in Nat, NEW ones, NEW exact, Bounds(v, n, m, ones, exact)
  PROVE  Bounds(v, m, n, ones, exact)
BY DEF Bounds

(* What an adder has added stays, *)
LEMMA SameCount ==
  ASSUME NEW f, NEW T
  PROVE  C!SumFunctionOnSet(f, T) = SumFunctionOnSet(f, T)
BY DEF C!SumFunctionOnSet, SumFunctionOnSet, C!FoldFunctionOnSet, FoldFunctionOnSet,
       C!MapThenFoldSet, MapThenFoldSet

LEMMA AddedStays ==
  ASSUME NEW a, NEW c, mem'.done[a] = mem.done[a]
  PROVE  C!AddedBy(c, a)' = C!AddedBy(c, a) /\ C!To(c, a)' = C!To(c, a)
BY Zenon DEF C!AddedBy, C!To

(* begins with nothing, *)
LEMMA NothingAdded ==
  ASSUME NEW a, NEW c, mem.done[a] = <<>>
  PROVE  C!AddedBy(c, a) = 0 /\ C!To(c, a) = {}
<1>1. C!To(c, a) = {}
  BY DEF C!To
<1> QED
  BY Zenon, <1>1, SameCount, SumEmpty DEF C!AddedBy

(* and grows by what is written. *)
Grows(hit, by, old, new, at, after) ==
  /\ hit => new = old + by /\ after # {}
  /\ ~hit => new = old /\ after = at

LEMMA AddedGrows ==
  ASSUME NEW cells, NEW a, mem.done[a] \in Seq(Additions(cells)), NEW x \in Additions(cells),
         mem'.done[a] = Append(mem.done[a], x)
  PROVE  \A c : Grows(c = x.to, x.by, C!AddedBy(c, a), C!AddedBy(c, a)', C!To(c, a), C!To(c, a)')
<1> TAKE c
<1> DEFINE f == [k \in DOMAIN mem.done[a] |-> mem.done[a][k].by]
           g == [k \in DOMAIN mem'.done[a] |-> mem'.done[a][k].by]
           T == C!To(c, a)
<1>1. PICK n \in Nat : n = Len(mem.done[a])
  OBVIOUS
<1>2. /\ DOMAIN mem'.done[a] = 1 .. n + 1 /\ DOMAIN mem.done[a] = 1 .. n
      /\ \A k \in 1 .. n : mem'.done[a][k] = mem.done[a][k]
      /\ mem'.done[a][n + 1] = x
  BY <1>1, AppendFacts
<1>3. /\ 1 .. n + 1 = (1 .. n) \cup {n + 1} /\ n + 1 \notin 1 .. n /\ n + 1 \in 1 .. n + 1
      /\ 1 .. n \subseteq 1 .. n + 1
  OBVIOUS
<1>4. /\ x.by \in Int /\ \A k \in 1 .. n : mem.done[a][k].by \in Int
  <2>1. \A k \in 1 .. n : mem.done[a][k] \in Additions(cells)
    BY <1>1
  <2>2. \A y \in Additions(cells) : y.by \in Int
    BY DEF Additions
  <2> QED
    BY Zenon, <2>1, <2>2
<1>5. g \in [1 .. n + 1 -> Int] /\ g[n + 1] = x.by /\ \A k \in 1 .. n : g[k] = f[k]
  <2>1. \A k \in 1 .. n + 1 : mem'.done[a][k].by \in Int
    BY Zenon, <1>2, <1>3, <1>4
  <2> QED
    BY Zenon, <1>2, <1>3, <2>1
<1>6. T \subseteq 1 .. n /\ T \in SUBSET (1 .. n + 1) /\ n + 1 \notin T
  BY <1>2, <1>3 DEF C!To
<1>7. /\ c = x.to => C!To(c, a)' = T \cup {n + 1}
      /\ c # x.to => C!To(c, a)' = T
  BY Zenon, <1>2, <1>3 DEF C!To
<1>8. C!AddedBy(c, a) = SumFunctionOnSet(f, T) /\ C!AddedBy(c, a)' = SumFunctionOnSet(g, C!To(c, a)')
  BY Zenon, SameCount DEF C!AddedBy
<1>9. IsFiniteSet(1 .. n + 1) /\ IsFiniteSet(T)
  <2>1. IsFiniteSet(1 .. n + 1)
    BY FS_Interval
  <2> QED
    BY Zenon, <1>6, <2>1, FS_Subset
<1> HIDE DEF f, g, T
<1>10. SumFunctionOnSet(g, T) = SumFunctionOnSet(f, T)
  <2>1. \A k \in T : g[k] = f[k]
    BY Zenon, <1>5, <1>6
  <2> QED
    BY Zenon, <1>9, <2>1, SumSame
<1>11. SumFunctionOnSet(g, T \cup {n + 1}) = x.by + SumFunctionOnSet(g, T)
  <2> DEFINE D == 1 .. n + 1  j == n + 1
  <2>1. IsFiniteSet(D) /\ g \in [D -> Int] /\ T \in SUBSET D /\ j \in D /\ j \notin T
    BY Zenon, <1>3, <1>5, <1>6, <1>9
  <2> HIDE DEF D, j
  <2>2. SumFunctionOnSet(g, T \cup {j}) = g[j] + SumFunctionOnSet(g, T)
    BY <2>1, SumInsert
  <2> QED
    BY Zenon, <1>5, <2>2 DEF j
<1>12. SumFunctionOnSet(g, T) \in Int
  BY Zenon, <1>5, <1>6, <1>9, SumType
<1>13. x.by + SumFunctionOnSet(g, T) = SumFunctionOnSet(g, T) + x.by
  BY <1>4, <1>12
<1>14. CASE c = x.to
  <2>1. C!AddedBy(c, a)' = C!AddedBy(c, a) + x.by
    BY Zenon, <1>7, <1>8, <1>10, <1>11, <1>13, <1>14
  <2>2. C!To(c, a)' # {}
    BY Zenon, <1>7, <1>14
  <2> QED
    BY Zenon, <1>14, <2>1, <2>2 DEF Grows
<1>15. CASE c # x.to
  <2>1. C!To(c, a)' = C!To(c, a)
    BY Zenon, <1>7, <1>15 DEF T
  <2>2. C!AddedBy(c, a)' = C!AddedBy(c, a)
    BY Zenon, <1>7, <1>8, <1>10, <1>15
  <2> QED
    BY Zenon, <1>15, <2>1, <2>2 DEF Grows
<1> QED
  BY Zenon, <1>14, <1>15

LEMMA CntNext ==
  ASSUME program \in C!Programs, [Next]_vars, CntShape
  PROVE  \/ \E a \in CntAdders : C!AdderStep(a)
         \/ C!Fork("fork1", "fork2") \/ C!Fork("fork2", "join")
         \/ C!Join("main", C!Adders, "join", "exited")
         \/ UNCHANGED vars
<1>1. ~SpuriousWakeup
  BY Zenon DEF SpuriousWakeup, CntShape
<1> QED
  BY <1>1 DEF Next, B!Next, C!Next, M!Next, R!Next, L!Next, S!Next, K!Next, B!Step, C!Step, M!Step, M!SendFails,
     R!Manage, R!Dine, R!Detect, R!Main, L!Step, S!Step, vars,
     C!Programs, C!Threaded, C!Adders, CntAdders, B!PcProducer, B!PcConsumer

LEMMA CntAdderMoves ==
  ASSUME CntShape, NEW a, C!AdderStep(a)
  PROVE  /\ CntShape' /\ UNCHANGED program
         /\ \/ /\ pc[a] = "open" /\ (pc' = [pc EXCEPT ![a] = "add"] \/ pc' = [pc EXCEPT ![a] = "done"])
               /\ UNCHANGED <<mem.lock, mem.shown, mem.val, mem.seen, mem.todo, mem.done>>
            \/ /\ pc[a] = "add" /\ pc' = [pc EXCEPT ![a] = "read"] /\ mem.todo[a] # <<>>
               /\ IF program \in C!Locked /\ mem.lock # a THEN mem.lock = Free /\ mem'.lock = a
                                                          ELSE UNCHANGED mem.lock
               /\ UNCHANGED <<mem.shown, mem.val, mem.seen, mem.todo, mem.done>>
            \/ /\ pc[a] = "read" /\ pc' = [pc EXCEPT ![a] = "write"]
               /\ mem'.seen = [mem.seen EXCEPT ![a] = mem.val[C!Add(a).to]]
               /\ UNCHANGED <<mem.lock, mem.shown, mem.val, mem.todo, mem.done>>
            \/ /\ pc[a] = "write"
               /\ pc' = [pc EXCEPT ![a] = IF C!Releases(a) THEN "unlock" ELSE "add"]
               /\ mem'.val = [mem.val EXCEPT ![C!Add(a).to] = mem.seen[a] + C!Add(a).by]
               /\ mem'.seen = [mem.seen EXCEPT ![a] = 0]
               /\ mem'.todo = [mem.todo EXCEPT ![a] = Tail(mem.todo[a])]
               /\ mem'.done = [mem.done EXCEPT ![a] = Append(mem.done[a], C!Add(a))]
               /\ UNCHANGED <<mem.lock, mem.shown>>
            \/ /\ pc[a] = "unlock" /\ pc' = [pc EXCEPT ![a] = "add"] /\ mem'.lock = Free
               /\ UNCHANGED <<mem.shown, mem.val, mem.seen, mem.todo, mem.done>>
            \/ /\ pc[a] = "add" /\ pc' = [pc EXCEPT ![a] = "done"] /\ mem.todo[a] = <<>>
               /\ mem'.shown = IF program = "movie_ratings" THEN mem.shown
                               ELSE [mem.shown EXCEPT ![a] = mem.val[C!count]]
               /\ UNCHANGED <<mem.lock, mem.val, mem.seen, mem.todo, mem.done>>
<1>1. CASE C!Open(a)
  BY Zenon, <1>1 DEF CntShape, C!Open, C!Goto, C!Move
<1>2. CASE C!Enter(a)
  BY Zenon, <1>2 DEF CntShape, C!Enter, C!Finished, C!Lock, C!Goto, C!Move
<1>3. CASE C!Read(a)
  BY Zenon, <1>3 DEF CntShape, C!Read, C!Move
<1>4. CASE C!Write(a)
  BY Zenon, <1>4 DEF CntShape, C!Write, C!Move
<1>5. CASE C!Unlock(a, "unlock", "add")
  BY Zenon, <1>5 DEF CntShape, C!Unlock, C!Move
<1>6. CASE C!End(a)
  BY Zenon, <1>6 DEF CntShape, C!End, C!Finished, C!Move
<1> QED
  BY Zenon, <1>1, <1>2, <1>3, <1>4, <1>5, <1>6 DEF C!AdderStep

CntOnlyPc == UNCHANGED <<program, mem.val, mem.seen, mem.todo, mem.done>>

(* A step that adds nothing. *)
LEMMA CntQuiet ==
  ASSUME CntInv, CntShape', CntOnlyPc,
         pc' \in [{"adder1", "adder2", "main"} -> CntLabels], mem'.shown \in [CntAdders -> Nat],
         \A a \in CntAdders : pc'[a] \in {"read", "write"} => mem.todo[a] # <<>>,
         \A a \in CntAdders : pc'[a] = "write" => pc[a] = "write",
         CntLocked', CntThreaded'
  PROVE  CntInv'
<1>1. CntType'
  BY Zenon DEF CntInv, CntType, CntOnlyPc
<1>2. CntCells'
  <2>1. \A c, a : C!AddedBy(c, a)' = C!AddedBy(c, a) /\ C!To(c, a)' = C!To(c, a)
    BY Zenon DEF CntOnlyPc, C!AddedBy, C!To
  <2>2. UNCHANGED <<program, mem.val>> /\ CntCells
    BY Zenon DEF CntOnlyPc, CntInv
  <2> QED
    BY Zenon, <2>1, <2>2 DEF CntCells, C!Locked
<1>3. CntSeen'
  BY Zenon DEF CntInv, CntSeen, CntOnlyPc, C!AddedBy, C!To, C!Add
<1> QED
  BY Zenon, <1>1, <1>2, <1>3 DEF CntInv

LEMMA CntOpens ==
  ASSUME CntInv, NEW a \in CntAdders, CntShape', CntOnlyPc, UNCHANGED <<mem.lock, mem.shown>>,
         pc[a] = "open", pc' = [pc EXCEPT ![a] = "add"] \/ pc' = [pc EXCEPT ![a] = "done"]
  PROVE  CntInv'
<1>1. /\ pc' \in [{"adder1", "adder2", "main"} -> CntLabels]
      /\ pc'[a] \in {"add", "done"} /\ \A b \in CntAdders : b # a => pc'[b] = pc[b]
  BY DEF CntInv, CntType, CntAdders, CntLabels
<1>2. program \notin C!Threaded
  BY Zenon DEF CntInv, CntThreaded
<1>3. program \notin C!Locked
  BY <1>2 DEF C!Threaded, C!Locked
<1>4. program' = program /\ mem'.shown = mem.shown
  BY Zenon DEF CntOnlyPc
<1>5. CntLocked' /\ CntThreaded'
  BY Zenon, <1>2, <1>3, <1>4 DEF CntLocked, CntThreaded, C!Locked, C!Threaded
<1>6. \A b \in CntAdders : pc'[b] \in {"read", "write"} => b # a /\ pc[b] = pc'[b]
  BY <1>1
<1> QED
  BY <1>1, <1>4, <1>5, <1>6, CntQuiet DEF CntInv, CntType

LEMMA CntEnters ==
  ASSUME CntInv, NEW a \in CntAdders, CntShape', CntOnlyPc, UNCHANGED mem.shown,
         pc[a] = "add", pc' = [pc EXCEPT ![a] = "read"], mem.todo[a] # <<>>,
         IF program \in C!Locked /\ mem.lock # a THEN mem.lock = Free /\ mem'.lock = a
                                                 ELSE UNCHANGED mem.lock
  PROVE  CntInv'
<1>1. /\ pc' \in [{"adder1", "adder2", "main"} -> CntLabels]
      /\ pc'[a] = "read" /\ \A b \in CntAdders : b # a => pc'[b] = pc[b]
      /\ pc'["main"] = pc["main"]
  BY DEF CntInv, CntType, CntAdders, CntLabels
<1>2. UNCHANGED <<program, mem.shown, mem.todo, mem.done, mem.val>>
  BY Zenon DEF CntOnlyPc
<1>3. CntLocked'
  <2>1. \A b \in CntAdders : Free # b
    BY FreeIsNobody DEF CntAdders
  <2>2. program \in C!Locked => \A b \in CntAdders : pc[b] \in {"read", "write", "unlock"} => mem.lock = b
    BY Zenon DEF CntInv, CntLocked
  <2>3. program \in C!Locked => mem'.lock = a /\ \A b \in CntAdders : b # a => pc[b] \notin {"read", "write", "unlock"}
    BY Zenon, <2>1, <2>2
  <2>4. program' = program
    BY Zenon, <1>2
  <2> QED
    BY <1>1, <2>3, <2>4 DEF CntLocked, C!Locked
<1>4. CntThreaded'
  <2>1. pc'[a] # "done" /\ pc'[a] # "open"
    BY <1>1
  <2>2. \A b : C!AddedBy(C!count, b)' = C!AddedBy(C!count, b)
    BY Zenon, <1>2 DEF C!AddedBy, C!To, C!count
  <2>3. CntThreaded
    BY Zenon DEF CntInv
  <2>4. \A b \in CntAdders : b # a => pc'[b] = pc[b]
    BY <1>1
  <2>5. program \in C!Threaded =>
          /\ pc'["main"] \notin {"fork1", "fork2"} /\ DOMAIN mem'.val = {C!count}
          /\ \A b \in CntAdders : pc'[b] # "open" /\ (pc'[b] = "done" => mem'.todo[b] = <<>>)
    BY Zenon, <1>1, <1>2, <2>1, <2>3, <2>4 DEF CntThreaded
  <2>6. program \in C!Threaded =>
          \A b \in CntAdders : C!AddedBy(C!count, b)' + Len(mem'.todo[b]) = MAX_COUNT
    BY Zenon, <1>2, <2>2, <2>3 DEF CntThreaded
  <2> QED
    BY Zenon, <1>2, <2>1, <2>5, <2>6 DEF CntThreaded, C!Threaded, C!Locked, C!count
<1>5. \A b \in CntAdders : /\ pc'[b] = "write" => pc[b] = "write"
                           /\ pc'[b] \in {"read", "write"} => mem.todo[b] # <<>>
  BY <1>1 DEF CntInv, CntType
<1>6. mem'.shown \in [CntAdders -> Nat]
  BY Zenon, <1>2 DEF CntInv, CntType
<1> QED
  BY Zenon, <1>1, <1>3, <1>4, <1>5, <1>6, CntQuiet

LEMMA CntUnlocks ==
  ASSUME CntInv, NEW a \in CntAdders, CntShape', CntOnlyPc, UNCHANGED mem.shown,
         pc[a] = "unlock", pc' = [pc EXCEPT ![a] = "add"], mem'.lock = Free
  PROVE  CntInv'
<1>1. /\ pc' \in [{"adder1", "adder2", "main"} -> CntLabels]
      /\ pc'[a] = "add" /\ \A b \in CntAdders : b # a => pc'[b] = pc[b]
      /\ pc'["main"] = pc["main"]
  BY DEF CntInv, CntType, CntAdders, CntLabels
<1>2. UNCHANGED <<program, mem.shown, mem.todo, mem.done, mem.val>>
  BY Zenon DEF CntOnlyPc
<1>3. CntLocked'
  <2>2. program \in C!Locked => \A b \in CntAdders : pc[b] \in {"read", "write", "unlock"} => mem.lock = b
    BY Zenon DEF CntInv, CntLocked
  <2>3. program \in C!Locked => \A b \in CntAdders : b # a => pc[b] \notin {"read", "write", "unlock"}
    BY <2>2
  <2>4. program' = program
    BY Zenon, <1>2
  <2> QED
    BY <1>1, <2>3, <2>4 DEF CntLocked, C!Locked
<1>4. CntThreaded'
  <2>1. pc'[a] # "done" /\ pc'[a] # "open"
    BY <1>1
  <2>2. \A b : C!AddedBy(C!count, b)' = C!AddedBy(C!count, b)
    BY Zenon, <1>2 DEF C!AddedBy, C!To, C!count
  <2>3. CntThreaded
    BY Zenon DEF CntInv
  <2>4. \A b \in CntAdders : b # a => pc'[b] = pc[b]
    BY <1>1
  <2>5. program \in C!Threaded =>
          /\ pc'["main"] \notin {"fork1", "fork2"} /\ DOMAIN mem'.val = {C!count}
          /\ \A b \in CntAdders : pc'[b] # "open" /\ (pc'[b] = "done" => mem'.todo[b] = <<>>)
    BY Zenon, <1>1, <1>2, <2>1, <2>3, <2>4 DEF CntThreaded
  <2>6. program \in C!Threaded =>
          \A b \in CntAdders : C!AddedBy(C!count, b)' + Len(mem'.todo[b]) = MAX_COUNT
    BY Zenon, <1>2, <2>2, <2>3 DEF CntThreaded
  <2> QED
    BY Zenon, <1>2, <2>1, <2>5, <2>6 DEF CntThreaded, C!Threaded, C!Locked, C!count
<1>5. \A b \in CntAdders : /\ pc'[b] = "write" => pc[b] = "write"
                           /\ pc'[b] \in {"read", "write"} => mem.todo[b] # <<>>
  BY <1>1 DEF CntInv, CntType
<1>6. mem'.shown \in [CntAdders -> Nat]
  BY Zenon, <1>2 DEF CntInv, CntType
<1> QED
  BY Zenon, <1>1, <1>3, <1>4, <1>5, <1>6, CntQuiet

LEMMA CntMainMoves ==
  ASSUME CntInv,
         C!Fork("fork1", "fork2") \/ C!Fork("fork2", "join") \/ C!Join("main", C!Adders, "join", "exited")
  PROVE  CntInv'
<1>1. CntShape /\ pc \in [{"adder1", "adder2", "main"} -> CntLabels]
  BY DEF CntInv, CntType
<1>2. /\ CntShape' /\ CntOnlyPc /\ UNCHANGED <<mem.lock, mem.shown>>
      /\ \/ /\ pc["main"] \in {"fork1", "fork2"}
            /\ \/ pc' = [pc EXCEPT !["main"] = "failed"]
               \/ pc' = [pc EXCEPT !["main"] = "fork2", !["adder1"] = "open"]
               \/ pc' = [pc EXCEPT !["main"] = "join", !["adder2"] = "open"]
         \/ pc["main"] = "join" /\ pc' = [pc EXCEPT !["main"] = "exited"]
  BY Zenon, <1>1 DEF CntOnlyPc, CntShape, C!Fork, C!Join, C!Goto, C!Move
<1>3. /\ pc' \in [{"adder1", "adder2", "main"} -> CntLabels]
      /\ \A b \in CntAdders : pc'[b] = pc[b] \/ (pc'[b] = "open" /\ pc["main"] \in {"fork1", "fork2"})
  BY <1>1, <1>2 DEF CntLabels, CntAdders
<1>4. UNCHANGED <<program, mem.shown, mem.todo, mem.done, mem.val, mem.lock>>
  BY Zenon, <1>2 DEF CntOnlyPc
<1>5. CASE pc["main"] \in {"fork1", "fork2"}
  <2>1. program \notin C!Threaded
    BY Zenon, <1>5 DEF CntInv, CntThreaded
  <2>2. program \notin C!Locked
    BY <2>1 DEF C!Threaded, C!Locked
  <2>3. CntLocked' /\ CntThreaded'
    BY Zenon, <1>4, <2>1, <2>2 DEF CntLocked, CntThreaded, C!Locked, C!Threaded
  <2>4. \A b \in CntAdders : /\ pc'[b] = "write" => pc[b] = "write"
                             /\ pc'[b] \in {"read", "write"} => mem.todo[b] # <<>>
    BY <1>3 DEF CntInv, CntType
  <2>5. mem'.shown \in [CntAdders -> Nat]
    BY Zenon, <1>4 DEF CntInv, CntType
  <2> QED
    BY Zenon, <1>2, <1>3, <2>3, <2>4, <2>5, CntQuiet
<1>6. CASE pc["main"] = "join" /\ pc' = [pc EXCEPT !["main"] = "exited"]
  <2>1. pc'["main"] = "exited" /\ \A b \in CntAdders : pc'[b] = pc[b]
    BY <1>1, <1>6 DEF CntAdders
  <2>2. CntLocked'
    BY Zenon, <1>4, <2>1 DEF CntInv, CntLocked, C!Locked
  <2>3. pc'["main"] \notin {"fork1", "fork2"}
    BY <2>1
  <2>4. CntThreaded'
    BY Zenon, <1>4, <2>1, <2>3 DEF CntInv, CntThreaded, C!AddedBy, C!To, C!Threaded, C!Locked, C!count
  <2>5. \A b \in CntAdders : /\ pc'[b] = "write" => pc[b] = "write"
                             /\ pc'[b] \in {"read", "write"} => mem.todo[b] # <<>>
    BY Zenon, <2>1 DEF CntInv, CntType
  <2>6. mem'.shown \in [CntAdders -> Nat]
    BY Zenon, <1>4 DEF CntInv, CntType
  <2> QED
    BY Zenon, <1>2, <1>3, <2>2, <2>4, <2>5, <2>6, CntQuiet
<1> QED
  BY Zenon, <1>2, <1>5, <1>6

(* The first of what an adder has yet to add. *)
LEMMA CntFirst ==
  ASSUME CntInv, NEW a \in CntAdders, pc[a] \in {"read", "write"}
  PROVE  /\ C!Add(a) \in Additions(DOMAIN mem.val) /\ C!Add(a).to \in DOMAIN mem.val
         /\ C!Add(a).by \in Nat \ {0} /\ (C!Add(a).to[1] # "sums" => C!Add(a).by = 1)
         /\ Tail(mem.todo[a]) \in Seq(Additions(DOMAIN mem.val))
         /\ Len(mem.todo[a]) \in Nat /\ Len(Tail(mem.todo[a])) = Len(mem.todo[a]) - 1
<1> DEFINE D == Additions(DOMAIN mem.val)
<1>1. mem.todo[a] \in Seq(D) /\ mem.todo[a] # <<>>
  BY DEF CntInv, CntType
<1> HIDE DEF D
<1>2. Head(mem.todo[a]) \in D /\ Tail(mem.todo[a]) \in Seq(D)
      /\ Len(mem.todo[a]) \in Nat /\ Len(Tail(mem.todo[a])) = Len(mem.todo[a]) - 1
  BY <1>1
<1>3. \A x \in D : x.to \in DOMAIN mem.val /\ x.by \in Nat \ {0} /\ (x.to[1] # "sums" => x.by = 1)
  BY DEF D, Additions
<1> QED
  BY Zenon, <1>2, <1>3 DEF D, C!Add

(* A counter from the side of one adder. *)
LEMMA CntSide ==
  ASSUME CntInv, NEW a \in CntAdders, NEW c \in DOMAIN mem.val
  PROVE  /\ mem.val[c] \in Nat /\ C!AddedBy(c, a) \in Nat /\ C!AddedBy(c, Other(a)) \in Nat
         /\ Bounds(mem.val[c], C!AddedBy(c, a), C!AddedBy(c, Other(a)), c[1] # "sums", program \in C!Locked)
         /\ Other(a) \in CntAdders /\ Other(a) # a /\ \A b \in CntAdders : b = a \/ b = Other(a)
<1>1. mem.val[c] \in Nat
  BY DEF CntInv, CntType
<1>2. /\ C!AddedBy(c, "adder1") \in Nat /\ C!AddedBy(c, "adder2") \in Nat
      /\ Bounds(mem.val[c], C!AddedBy(c, "adder1"), C!AddedBy(c, "adder2"), c[1] # "sums", program \in C!Locked)
  BY Zenon DEF CntInv, CntCells, CntAdders
<1>3. Bounds(mem.val[c], C!AddedBy(c, "adder2"), C!AddedBy(c, "adder1"), c[1] # "sums", program \in C!Locked)
  BY Zenon, <1>1, <1>2, BoundsEitherWay
<1>4. (a = "adder1" /\ Other(a) = "adder2") \/ (a = "adder2" /\ Other(a) = "adder1")
  BY DEF CntAdders, Other
<1>5. Other(a) \in CntAdders /\ Other(a) # a /\ \A b \in CntAdders : b = a \/ b = Other(a)
  BY <1>4 DEF CntAdders
<1> QED
  BY Zenon, <1>1, <1>2, <1>3, <1>4, <1>5

LEMMA CntReads ==
  ASSUME CntInv, NEW a \in CntAdders, CntShape', UNCHANGED program,
         pc[a] = "read", pc' = [pc EXCEPT ![a] = "write"],
         mem'.seen = [mem.seen EXCEPT ![a] = mem.val[C!Add(a).to]],
         UNCHANGED <<mem.lock, mem.shown, mem.val, mem.todo, mem.done>>
  PROVE  CntInv'
<1>0. PICK c \in DOMAIN mem.val : c = C!Add(a).to
  BY CntFirst
<1>1. /\ pc' \in [{"adder1", "adder2", "main"} -> CntLabels]
      /\ pc'[a] = "write" /\ \A b \in CntAdders : b # a => pc'[b] = pc[b]
      /\ pc'["main"] = pc["main"]
  BY DEF CntInv, CntType, CntAdders, CntLabels
<1>2. /\ mem'.seen \in [CntAdders -> Nat] /\ mem'.seen[a] = mem.val[c]
      /\ \A b \in CntAdders : b # a => mem'.seen[b] = mem.seen[b]
  <2>1. mem.seen \in [CntAdders -> Nat] /\ mem.val[c] \in Nat
    BY DEF CntInv, CntType
  <2> QED
    BY <1>0, <2>1
<1>3. CntType'
  <2>1. \A b \in CntAdders : pc'[b] \in {"read", "write"} => mem'.todo[b] # <<>>
    <3>1. \A b \in CntAdders : pc[b] \in {"read", "write"} => mem.todo[b] # <<>>
      BY Zenon DEF CntInv, CntType
    <3>2. pc[a] \in {"read", "write"}
      OBVIOUS
    <3> QED
      BY Zenon, <1>1, <3>1, <3>2
  <2> QED
    BY Zenon, <1>1, <1>2, <2>1 DEF CntInv, CntType
<1>4. \A d, b : C!AddedBy(d, b)' = C!AddedBy(d, b) /\ C!To(d, b)' = C!To(d, b)
  BY Zenon DEF C!AddedBy, C!To
<1>5. CntCells'
  BY Zenon, <1>4 DEF CntInv, CntCells, C!Locked
<1>6. CntSeen'
  <2> SUFFICES ASSUME NEW b \in CntAdders, pc'[b] = "write"
               PROVE  SeenBounds(mem'.seen[b], mem.val[C!Add(b).to], C!AddedBy(C!Add(b).to, b),
                                 C!AddedBy(C!Add(b).to, Other(b)), program \in C!Locked)
    BY Zenon, <1>4 DEF CntSeen, C!Add, C!Locked
  <2>1. CASE b = a
    <3>1. SeenBounds(mem.val[c], mem.val[c], C!AddedBy(c, a), C!AddedBy(c, Other(a)), program \in C!Locked)
      BY Zenon, CntSide, ReadBound
    <3> QED
      BY Zenon, <1>0, <1>2, <2>1, <3>1
  <2>2. CASE b # a
    <3>1. pc[b] = "write" /\ mem'.seen[b] = mem.seen[b]
      BY Zenon, <1>1, <1>2, <2>2
    <3> QED
      BY Zenon, <3>1 DEF CntInv, CntSeen
  <2> QED
    BY Zenon, <2>1, <2>2
<1>7. CntLocked'
  <2>1. pc[a] \in {"read", "write", "unlock"}
    OBVIOUS
  <2> QED
    BY Zenon, <1>1, <2>1 DEF CntInv, CntLocked, C!Locked
<1>8. CntThreaded'
  <2>1. pc'[a] # "done" /\ pc'[a] # "open"
    BY <1>1
  <2>2. CntThreaded
    BY Zenon DEF CntInv
  <2>3. program \in C!Threaded =>
          /\ pc'["main"] \notin {"fork1", "fork2"} /\ DOMAIN mem'.val = {C!count}
          /\ \A b \in CntAdders : pc'[b] # "open" /\ (pc'[b] = "done" => mem'.todo[b] = <<>>)
    BY Zenon, <1>1, <2>1, <2>2 DEF CntThreaded
  <2>4. program \in C!Threaded =>
          \A b \in CntAdders : C!AddedBy(C!count, b)' + Len(mem'.todo[b]) = MAX_COUNT
    BY Zenon, <1>4, <2>2 DEF CntThreaded
  <2> QED
    BY Zenon, <2>1, <2>3, <2>4 DEF CntThreaded, C!Threaded, C!Locked, C!count
<1> QED
  BY Zenon, <1>3, <1>5, <1>6, <1>7, <1>8 DEF CntInv

LEMMA CntWrites ==
  ASSUME CntInv, NEW a \in CntAdders, CntShape', UNCHANGED program,
         pc[a] = "write", pc' = [pc EXCEPT ![a] = IF C!Releases(a) THEN "unlock" ELSE "add"],
         mem'.val = [mem.val EXCEPT ![C!Add(a).to] = mem.seen[a] + C!Add(a).by],
         mem'.seen = [mem.seen EXCEPT ![a] = 0],
         mem'.todo = [mem.todo EXCEPT ![a] = Tail(mem.todo[a])],
         mem'.done = [mem.done EXCEPT ![a] = Append(mem.done[a], C!Add(a))],
         UNCHANGED <<mem.lock, mem.shown>>
  PROVE  CntInv'
<1> DEFINE cells == DOMAIN mem.val
<1>0. PICK c \in cells, x \in Additions(cells), by \in Nat \ {0} :
        c = x.to /\ x = C!Add(a) /\ by = x.by /\ (c[1] # "sums" => by = 1)
  BY CntFirst
<1>1. /\ pc' \in [{"adder1", "adder2", "main"} -> CntLabels]
      /\ pc'[a] \in {"unlock", "add"} /\ \A b \in CntAdders : b # a => pc'[b] = pc[b]
      /\ pc'["main"] = pc["main"]
  BY DEF CntInv, CntType, CntAdders, CntLabels
<1>2. /\ mem'.val \in [cells -> Nat] /\ DOMAIN mem'.val = cells
      /\ mem'.val[c] = mem.seen[a] + by /\ \A d \in cells : d # c => mem'.val[d] = mem.val[d]
      /\ mem.seen[a] \in Nat
  <2>1. mem.seen[a] \in Nat /\ mem.val \in [cells -> Nat]
    BY DEF CntInv, CntType
  <2>2. mem.seen[a] + by \in Nat
    BY <2>1
  <2>3. mem'.val = [mem.val EXCEPT ![c] = mem.seen[a] + by]
    BY Zenon, <1>0
  <2>4. \A v \in Nat : /\ [mem.val EXCEPT ![c] = v] \in [cells -> Nat] /\ [mem.val EXCEPT ![c] = v][c] = v
                       /\ \A d \in cells : d # c => [mem.val EXCEPT ![c] = v][d] = mem.val[d]
    BY Zenon, <2>1
  <2>5. mem'.val \in [cells -> Nat] /\ mem'.val[c] = mem.seen[a] + by
    BY Zenon, <2>2, <2>3, <2>4
  <2>6. \A d \in cells : d # c => mem'.val[d] = mem.val[d]
    BY Zenon, <2>2, <2>3, <2>4
  <2>7. DOMAIN mem'.val = cells
    BY Zenon, <2>5
  <2> QED
    BY Zenon, <2>1, <2>5, <2>6, <2>7
<1>3. /\ mem'.seen \in [CntAdders -> Nat]
      /\ \A b \in CntAdders : b # a => mem'.seen[b] = mem.seen[b]
  BY DEF CntInv, CntType
<1>4. /\ mem'.todo \in [CntAdders -> Seq(Additions(cells))] /\ mem'.todo[a] = Tail(mem.todo[a])
      /\ \A b \in CntAdders : b # a => mem'.todo[b] = mem.todo[b]
  <2>1. mem.todo \in [CntAdders -> Seq(Additions(cells))] /\ Tail(mem.todo[a]) \in Seq(Additions(cells))
    BY CntFirst DEF CntInv, CntType
  <2> QED
    BY Zenon, <2>1
<1>5. /\ mem.done[a] \in Seq(Additions(cells)) /\ mem'.done[a] = Append(mem.done[a], x)
      /\ mem'.done \in [CntAdders -> Seq(Additions(cells))]
      /\ \A b \in CntAdders : b # a => mem'.done[b] = mem.done[b]
  <2>1. mem.done \in [CntAdders -> Seq(Additions(cells))]
    BY Zenon DEF CntInv, CntType
  <2>2. Append(mem.done[a], x) \in Seq(Additions(cells))
    BY <2>1
  <2>3. mem'.done = [mem.done EXCEPT ![a] = Append(mem.done[a], x)]
    BY Zenon, <1>0
  <2> QED
    BY Zenon, <2>1, <2>2, <2>3
<1> HIDE DEF cells
<1>6. CntType'
  <2>1. \A b \in CntAdders : pc'[b] \in {"read", "write"} => mem'.todo[b] # <<>>
    <3>1. pc'[a] \notin {"read", "write"}
      BY <1>1
    <3> QED
      BY Zenon, <1>1, <1>4, <3>1 DEF CntInv, CntType
  <2>2. mem'.shown \in [CntAdders -> Nat]
    BY Zenon DEF CntInv, CntType
  <2> QED
    BY Zenon, <1>1, <1>2, <1>3, <1>4, <1>5, <2>1, <2>2 DEF CntType
<1>7. /\ C!AddedBy(c, a)' = C!AddedBy(c, a) + by /\ C!To(c, a)' # {}
      /\ \A d \in cells : d # c => C!AddedBy(d, a)' = C!AddedBy(d, a) /\ C!To(d, a)' = C!To(d, a)
  <2>1. \A d : /\ d = c => C!AddedBy(d, a)' = C!AddedBy(d, a) + x.by /\ C!To(d, a)' # {}
               /\ d # c => C!AddedBy(d, a)' = C!AddedBy(d, a) /\ C!To(d, a)' = C!To(d, a)
    <3>1. mem'.done[a] = Append(mem.done[a], x) /\ mem.done[a] \in Seq(Additions(cells))
      BY Zenon, <1>5
    <3>2. x.to = c /\ x \in Additions(cells)
      BY Zenon, <1>0
    <3>3. \A d : Grows(d = x.to, x.by, C!AddedBy(d, a), C!AddedBy(d, a)', C!To(d, a), C!To(d, a)')
      BY Zenon, <3>1, <3>2, AddedGrows
    <3> QED
      BY Zenon, <3>2, <3>3 DEF Grows
  <2> QED
    BY Zenon, <1>0, <2>1
<1>8. \A d : \A b \in CntAdders : b # a => C!AddedBy(d, b)' = C!AddedBy(d, b) /\ C!To(d, b)' = C!To(d, b)
  BY Zenon, <1>5, AddedStays
<1>9. /\ mem.val[c] \in Nat /\ C!AddedBy(c, a) \in Nat /\ C!AddedBy(c, Other(a)) \in Nat
      /\ Bounds(mem.val[c], C!AddedBy(c, a), C!AddedBy(c, Other(a)), c[1] # "sums", program \in C!Locked)
      /\ Other(a) \in CntAdders /\ Other(a) # a /\ \A b \in CntAdders : b = a \/ b = Other(a)
  BY Zenon, CntSide DEF cells
<1>10. SeenBounds(mem.seen[a], mem.val[c], C!AddedBy(c, a), C!AddedBy(c, Other(a)), program \in C!Locked)
  BY Zenon, <1>0 DEF CntInv, CntSeen
<1>11. Bounds(mem'.val[c], C!AddedBy(c, a)', C!AddedBy(c, Other(a))', c[1] # "sums", program \in C!Locked)
  <2>1. Bounds(mem.seen[a] + by, C!AddedBy(c, a) + by, C!AddedBy(c, Other(a)), c[1] # "sums", program \in C!Locked)
    BY Zenon, <1>0, <1>2, <1>9, <1>10, WriteBound
  <2>2. /\ mem'.val[c] = mem.seen[a] + by /\ C!AddedBy(c, a)' = C!AddedBy(c, a) + by
    BY Zenon, <1>2, <1>7
  <2>3. C!AddedBy(c, Other(a))' = C!AddedBy(c, Other(a))
    BY Zenon, <1>8, <1>9
  <2> QED
    BY Zenon, <2>1, <2>2, <2>3
<1>12. CntCells'
  <2>1. \A d \in cells : \A b \in CntAdders :
          C!AddedBy(d, b)' \in Nat /\ (C!AddedBy(d, b)' = 0 <=> C!To(d, b)' = {})
    <3>1. \A d \in cells : \A b \in CntAdders :
            C!AddedBy(d, b) \in Nat /\ (C!AddedBy(d, b) = 0 <=> C!To(d, b) = {})
      BY Zenon DEF CntInv, CntCells, cells
    <3>2. C!AddedBy(c, a)' \in Nat /\ C!AddedBy(c, a)' # 0
      BY <1>7, <1>9
    <3>3. ASSUME NEW d \in cells, NEW b \in CntAdders, d # c \/ b # a
          PROVE  C!AddedBy(d, b)' = C!AddedBy(d, b) /\ C!To(d, b)' = C!To(d, b)
      BY Zenon, <1>7, <1>8, <3>3
    <3>4. ASSUME NEW d \in cells, NEW b \in CntAdders
          PROVE  C!AddedBy(d, b)' \in Nat /\ (C!AddedBy(d, b)' = 0 <=> C!To(d, b)' = {})
      <4>1. CASE d # c \/ b # a
        <5>1. C!AddedBy(d, b) \in Nat /\ (C!AddedBy(d, b) = 0 <=> C!To(d, b) = {})
          BY Zenon, <3>1
        <5>2. C!AddedBy(d, b)' = C!AddedBy(d, b) /\ C!To(d, b)' = C!To(d, b)
          BY Zenon, <3>3, <4>1
        <5> QED
          BY <5>1, <5>2
      <4>2. CASE d = c /\ b = a
        BY Zenon, <1>7, <3>2, <4>2
      <4> QED
        BY Zenon, <4>1, <4>2
    <3> QED
      BY Zenon, <3>4
  <2>2. ASSUME NEW d \in cells
        PROVE  Bounds(mem'.val[d], C!AddedBy(d, "adder1")', C!AddedBy(d, "adder2")', d[1] # "sums",
                      program \in C!Locked)
    <3>1. CASE d = c
      <4>1. mem'.val[c] \in Nat /\ C!AddedBy(c, a)' \in Nat /\ C!AddedBy(c, Other(a))' \in Nat
        BY Zenon, <1>2, <1>9, <2>1
      <4>2. Bounds(mem'.val[c], C!AddedBy(c, Other(a))', C!AddedBy(c, a)', c[1] # "sums", program \in C!Locked)
        BY Zenon, <1>11, <4>1, BoundsEitherWay
      <4>3. (a = "adder1" /\ Other(a) = "adder2") \/ (a = "adder2" /\ Other(a) = "adder1")
        BY DEF CntAdders, Other
      <4> QED
        BY Zenon, <1>11, <3>1, <4>2, <4>3
    <3>2. CASE d # c
      <4>1. "adder1" \in CntAdders /\ "adder2" \in CntAdders
        BY DEF CntAdders
      <4>2. /\ C!AddedBy(d, "adder1")' = C!AddedBy(d, "adder1") /\ C!AddedBy(d, "adder2")' = C!AddedBy(d, "adder2")
            /\ mem'.val[d] = mem.val[d]
        BY ZenonT(40), <1>2, <1>7, <1>8, <3>2, <4>1
      <4> QED
        BY Zenon, <4>2 DEF CntInv, CntCells, cells
    <3> QED
      BY Zenon, <3>1, <3>2
  <2> QED
    BY Zenon, <1>2, <2>1, <2>2 DEF CntCells, C!Locked
<1>13. CntSeen'
  <2> SUFFICES ASSUME NEW b \in CntAdders, b # a, pc[b] = "write",
                      NEW d \in cells, d = C!Add(b).to
               PROVE  SeenBounds(mem.seen[b], mem'.val[d], C!AddedBy(d, b)', C!AddedBy(d, Other(b))',
                                 program \in C!Locked)
    <3>1. \A b \in CntAdders : pc'[b] = "write" => b # a /\ pc[b] = "write"
      BY <1>1
    <3>2. \A b \in CntAdders : b # a => C!Add(b)' = C!Add(b)
      BY Zenon, <1>4 DEF C!Add
    <3>3. \A b \in CntAdders : pc[b] = "write" => C!Add(b).to \in cells
      <4>1. \A b \in CntAdders : pc[b] = "write" => pc[b] \in {"read", "write"}
        OBVIOUS
      <4> QED
        BY Zenon, <4>1, CntFirst DEF cells
    <3> QED
      BY Zenon, <1>3, <3>1, <3>2, <3>3 DEF CntSeen, C!Locked
  <2>1. b = Other(a) /\ Other(b) = a
    BY <1>9 DEF Other, CntAdders
  <2>3. SeenBounds(mem.seen[b], mem.val[d], C!AddedBy(d, b), C!AddedBy(d, a), program \in C!Locked)
    BY Zenon, <2>1 DEF CntInv, CntSeen
  <2>4. CASE d = c
    <3>1. program \notin C!Locked
      <4>1. pc[a] \in {"read", "write", "unlock"} /\ pc[b] \in {"read", "write", "unlock"}
        OBVIOUS
      <4> QED
        BY Zenon, <4>1 DEF CntInv, CntLocked
    <3>2. mem'.val[c] \in Nat /\ mem.seen[b] \in Nat /\ C!AddedBy(c, b) \in Nat
      <4>1. mem.seen[b] \in Nat
        BY DEF CntInv, CntType
      <4> QED
        BY Zenon, <1>2, <1>9, <2>1, <4>1
    <3>3. SeenBounds(mem.seen[b], mem.val[c], C!AddedBy(c, b), C!AddedBy(c, a), program \in C!Locked)
      BY Zenon, <2>3, <2>4
    <3>4. SeenBounds(mem.seen[b], mem'.val[c], C!AddedBy(c, b), C!AddedBy(c, a) + by, program \in C!Locked)
      BY Zenon, <1>9, <3>1, <3>2, <3>3, WriteBesideBound
    <3>5. C!AddedBy(c, b)' = C!AddedBy(c, b) /\ C!AddedBy(c, a)' = C!AddedBy(c, a) + by
      BY Zenon, <1>7, <1>8
    <3>6. SeenBounds(mem.seen[b], mem'.val[c], C!AddedBy(c, b)', C!AddedBy(c, a)', program \in C!Locked)
      BY Zenon, <3>4, <3>5
    <3> QED
      BY Zenon, <2>1, <2>4, <3>6
  <2>5. CASE d # c
    <3>1. /\ mem'.val[d] = mem.val[d] /\ C!AddedBy(d, b)' = C!AddedBy(d, b)
          /\ C!AddedBy(d, a)' = C!AddedBy(d, a)
      <4>1. mem'.val[d] = mem.val[d] /\ C!AddedBy(d, a)' = C!AddedBy(d, a)
        BY Zenon, <1>2, <1>7, <2>5
      <4>2. C!AddedBy(d, b)' = C!AddedBy(d, b)
        BY Zenon, <1>8
      <4> QED
        BY Zenon, <4>1, <4>2
    <3>2. SeenBounds(mem.seen[b], mem'.val[d], C!AddedBy(d, b)', C!AddedBy(d, a)', program \in C!Locked)
      BY Zenon, <2>3, <3>1
    <3> QED
      BY Zenon, <2>1, <3>2
  <2> QED
    BY Zenon, <2>4, <2>5
<1>14. CntLocked'
  <2>1. pc[a] \in {"read", "write", "unlock"}
    OBVIOUS
  <2> QED
    BY Zenon, <1>1, <2>1 DEF CntInv, CntLocked, C!Locked
<1>15. CntThreaded'
  <2>1. pc'[a] # "done" /\ pc'[a] # "open"
    BY <1>1
  <2>2. CntThreaded
    BY Zenon DEF CntInv
  <2>3. program \in C!Threaded =>
          /\ pc'["main"] \notin {"fork1", "fork2"} /\ DOMAIN mem'.val = {C!count}
          /\ \A b \in CntAdders : pc'[b] # "open" /\ (pc'[b] = "done" => mem'.todo[b] = <<>>)
    <3>1. program \in C!Threaded => cells = {C!count} /\ pc["main"] \notin {"fork1", "fork2"}
      BY Zenon, <2>2 DEF CntThreaded, cells
    <3>2. ASSUME program \in C!Threaded, NEW b \in CntAdders
          PROVE  pc'[b] # "open" /\ (pc'[b] = "done" => mem'.todo[b] = <<>>)
      <4>1. pc[b] # "open" /\ (pc[b] = "done" => mem.todo[b] = <<>>)
        BY Zenon, <2>2, <3>2 DEF CntThreaded
      <4>2. CASE b = a
        BY Zenon, <2>1, <4>2
      <4>3. CASE b # a
        BY Zenon, <1>1, <1>4, <4>1, <4>3
      <4> QED
        BY Zenon, <4>2, <4>3
    <3> QED
      BY Zenon, <1>1, <1>2, <3>1, <3>2
  <2>4. ASSUME program \in C!Threaded, NEW b \in CntAdders
        PROVE  C!AddedBy(C!count, b)' + Len(mem'.todo[b]) = MAX_COUNT
    <3>1. C!AddedBy(C!count, b) + Len(mem.todo[b]) = MAX_COUNT /\ c = C!count
      <4>1. C!AddedBy(C!count, b) + Len(mem.todo[b]) = MAX_COUNT /\ DOMAIN mem.val = {C!count}
        BY Zenon, <2>2, <2>4 DEF CntThreaded
      <4> QED
        BY Zenon, <4>1 DEF cells
    <3>2. CASE b = a
      <4>1. by = 1
        BY <1>0, <3>1 DEF C!count
      <4>2. Len(mem.todo[a]) \in Nat /\ Len(mem'.todo[a]) = Len(mem.todo[a]) - 1
        BY <1>4, CntFirst
      <4>3. C!AddedBy(C!count, a)' = C!AddedBy(C!count, a) + 1 /\ C!AddedBy(C!count, a) \in Nat
        BY Zenon, <1>7, <1>9, <3>1, <4>1
      <4> QED
        BY <3>1, <3>2, <4>2, <4>3
    <3>3. CASE b # a
      BY Zenon, <1>4, <1>8, <3>1, <3>3
    <3> QED
      BY Zenon, <3>2, <3>3
  <2> QED
    BY Zenon, <2>1, <2>3, <2>4 DEF CntThreaded, C!Threaded, C!Locked, C!count
<1> QED
  BY Zenon, <1>6, <1>12, <1>13, <1>14, <1>15 DEF CntInv

LEMMA CntEnds ==
  ASSUME program \in C!Programs, CntInv, NEW a \in CntAdders, CntShape', CntOnlyPc, UNCHANGED mem.lock,
         pc[a] = "add", pc' = [pc EXCEPT ![a] = "done"], mem.todo[a] = <<>>,
         mem'.shown = IF program = "movie_ratings" THEN mem.shown
                      ELSE [mem.shown EXCEPT ![a] = mem.val[C!count]]
  PROVE  CntInv'
<1>1. /\ pc' \in [{"adder1", "adder2", "main"} -> CntLabels]
      /\ pc'[a] = "done" /\ \A b \in CntAdders : b # a => pc'[b] = pc[b]
      /\ pc'["main"] = pc["main"]
  BY DEF CntInv, CntType, CntAdders, CntLabels
<1>2. UNCHANGED <<program, mem.todo, mem.done, mem.val>>
  BY Zenon DEF CntOnlyPc
<1>3. CntThreaded /\ CntLocked
  BY Zenon DEF CntInv
<1>4. program \in C!Locked => program \in C!Threaded /\ program # "movie_ratings"
  BY DEF C!Locked, C!Threaded
<1>5. program \in C!Programs => program = "movie_ratings" \/ program \in C!Threaded
  BY DEF C!Programs, C!Threaded
<1>6. program \in C!Threaded => C!count \in DOMAIN mem.val
  BY Zenon, <1>3 DEF CntThreaded
<1>7. CntLocked'
  <2>1. pc'[a] \notin {"read", "write", "unlock"}
    BY <1>1
  <2> QED
    BY Zenon, <1>1, <1>2, <1>3, <2>1 DEF CntLocked, C!Locked
<1>8. \A b : C!AddedBy(C!count, b)' = C!AddedBy(C!count, b)
  BY Zenon, <1>2 DEF C!AddedBy, C!To, C!count
<1>9. ASSUME program \in C!Locked, \A b \in CntAdders : pc'[b] = "done"
      PROVE  mem'.shown[a] = 2 * MAX_COUNT
  <2>1. C!count \in DOMAIN mem.val
    BY Zenon, <1>4, <1>6, <1>9
  <2>2. /\ mem.val[C!count] \in Nat /\ C!AddedBy(C!count, a) \in Nat /\ C!AddedBy(C!count, Other(a)) \in Nat
        /\ Bounds(mem.val[C!count], C!AddedBy(C!count, a), C!AddedBy(C!count, Other(a)),
                  C!count[1] # "sums", program \in C!Locked)
        /\ Other(a) \in CntAdders /\ Other(a) # a
    BY Zenon, <2>1, CntSide
  <2>3. pc[Other(a)] = "done"
    BY Zenon, <1>1, <1>9, <2>2
  <2>4. mem.todo[Other(a)] = <<>>
    BY Zenon, <1>3, <1>4, <1>9, <2>2, <2>3 DEF CntThreaded
  <2>5. /\ C!AddedBy(C!count, a) + Len(mem.todo[a]) = MAX_COUNT
        /\ C!AddedBy(C!count, Other(a)) + Len(mem.todo[Other(a)]) = MAX_COUNT
    BY Zenon, <1>3, <1>4, <1>9, <2>2 DEF CntThreaded
  <2>6. mem.val[C!count] = C!AddedBy(C!count, a) + C!AddedBy(C!count, Other(a))
    BY Zenon, <1>9, <2>2 DEF Bounds
  <2>7. mem.val[C!count] = 2 * MAX_COUNT
    <3>1. Len(<<>>) = 0
      OBVIOUS
    <3>2. /\ C!AddedBy(C!count, a) + 0 = MAX_COUNT
          /\ C!AddedBy(C!count, Other(a)) + 0 = MAX_COUNT
      BY Zenon, <2>4, <2>5, <3>1
    <3> QED
      BY <2>2, <2>6, <3>2
  <2>8. mem'.shown = [mem.shown EXCEPT ![a] = mem.val[C!count]]
    BY Zenon, <1>4, <1>9
  <2>9. mem.shown \in [CntAdders -> Nat]
    BY Zenon DEF CntInv, CntType
  <2> QED
    BY Zenon, <2>7, <2>8, <2>9
<1>10. CntThreaded'
  <2>1. program \in C!Threaded =>
          /\ pc'["main"] \notin {"fork1", "fork2"} /\ DOMAIN mem'.val = {C!count}
          /\ \A b \in CntAdders : C!AddedBy(C!count, b)' + Len(mem'.todo[b]) = MAX_COUNT
    <3>1. program \in C!Threaded =>
            pc'["main"] \notin {"fork1", "fork2"} /\ DOMAIN mem'.val = {C!count}
      BY Zenon, <1>1, <1>2, <1>3 DEF CntThreaded
    <3>2. program \in C!Threaded =>
            \A b \in CntAdders : C!AddedBy(C!count, b)' + Len(mem'.todo[b]) = MAX_COUNT
      BY Zenon, <1>2, <1>3, <1>8 DEF CntThreaded
    <3> QED
      BY Zenon, <3>1, <3>2
  <2>2. pc'[a] # "open"
    BY <1>1
  <2>3. program \in C!Threaded =>
          \A b \in CntAdders : pc'[b] # "open" /\ (pc'[b] = "done" => mem'.todo[b] = <<>>)
    BY Zenon, <1>1, <1>2, <1>3, <2>2 DEF CntThreaded
  <2> QED
    BY Zenon, <1>2, <1>9, <2>1, <2>3 DEF CntThreaded, C!Threaded, C!Locked, C!count
<1>11. \A b \in CntAdders : /\ pc'[b] = "write" => pc[b] = "write"
                            /\ pc'[b] \in {"read", "write"} => mem.todo[b] # <<>>
  BY <1>1 DEF CntInv, CntType
<1>12. program = "movie_ratings" \/ program \in C!Threaded => mem'.shown \in [CntAdders -> Nat]
  <2>1. mem.shown \in [CntAdders -> Nat]
    BY Zenon DEF CntInv, CntType
  <2>2. CASE program = "movie_ratings"
    BY Zenon, <2>1, <2>2
  <2>3. CASE program \in C!Threaded /\ program # "movie_ratings"
    <3>1. mem.val[C!count] \in Nat
      BY Zenon, <1>6, <2>3, CntSide
    <3>2. mem'.shown = [mem.shown EXCEPT ![a] = mem.val[C!count]]
      BY Zenon, <2>3
    <3> QED
      BY Zenon, <2>1, <3>1, <3>2
  <2> QED
    BY Zenon, <2>2, <2>3
<1>13. program = "movie_ratings" \/ program \in C!Threaded => CntInv'
  BY Zenon, <1>1, <1>7, <1>10, <1>11, <1>12, CntQuiet
<1> QED
  BY Zenon, <1>5, <1>13

LEMMA CntKeeps ==
  ASSUME program \in C!Programs, CntInv, [Next]_vars
  PROVE  CntInv'
<1>1. CntShape
  BY DEF CntInv, CntType
<1>2. CASE UNCHANGED vars
  <2>1. CntShape' /\ CntOnlyPc /\ UNCHANGED <<pc, mem.lock, mem.shown, mem.todo, mem.done, mem.val>>
    BY Zenon, <1>1, <1>2 DEF vars, CntShape, CntOnlyPc
  <2>2. CntLocked'
    BY Zenon, <1>2 DEF vars, CntInv, CntLocked, C!Locked
  <2>3. \A b : C!AddedBy(C!count, b)' = C!AddedBy(C!count, b)
    BY Zenon, <2>1 DEF C!AddedBy, C!To, C!count
  <2>4. CntThreaded'
    BY Zenon, <1>2, <2>3 DEF vars, CntInv, CntThreaded, C!Locked, C!Threaded, C!count
  <2> QED
    BY Zenon, <2>1, <2>2, <2>4, CntQuiet DEF CntInv, CntType
<1>3. ASSUME NEW a \in CntAdders, C!AdderStep(a)
      PROVE  CntInv'
  BY Zenon, <1>1, <1>3, CntAdderMoves, CntOpens, CntEnters, CntReads, CntWrites, CntUnlocks, CntEnds
     DEF CntOnlyPc
<1> QED
  BY Zenon, <1>1, <1>2, <1>3, CntNext, CntMainMoves

LEMMA UpdatesBoundedByInv ==
  ASSUME program \in C!Programs => CntInv
  PROVE  C!UpdatesBounded
<1> SUFFICES ASSUME program \in C!Programs, \A a \in C!Adders : pc[a] = "done", CntInv
             PROVE  /\ \A c \in DOMAIN mem.val :
                         /\ mem.val[c] <= C!Total(c)
                         /\ program \in C!Locked \/ (\E a \in C!Adders : C!To(c, a) = {}) =>
                              mem.val[c] = C!Total(c)
                         /\ c[1] # "sums" =>
                              mem.val[c] >= C!LeastCount(C!AddedBy(c, "adder1"), C!AddedBy(c, "adder2"))
                         /\ c[1] = "sums" /\ C!Total(c) > 0 => mem.val[c] > 0
                    /\ program \in C!Locked => \E a \in C!Adders : mem.shown[a] = 2 * MAX_COUNT
  BY Zenon DEF C!UpdatesBounded
<1>0. C!Adders = CntAdders
  BY DEF C!Adders, CntAdders
<1>1. ASSUME NEW c \in DOMAIN mem.val
      PROVE  /\ mem.val[c] <= C!Total(c)
             /\ program \in C!Locked \/ (\E a \in C!Adders : C!To(c, a) = {}) => mem.val[c] = C!Total(c)
             /\ c[1] # "sums" =>
                  mem.val[c] >= C!LeastCount(C!AddedBy(c, "adder1"), C!AddedBy(c, "adder2"))
             /\ c[1] = "sums" /\ C!Total(c) > 0 => mem.val[c] > 0
  <2>1. PICK v \in Nat, n \in Nat, m \in Nat :
          v = mem.val[c] /\ n = C!AddedBy(c, "adder1") /\ m = C!AddedBy(c, "adder2")
    <3>1. mem.val[c] \in Nat
      BY DEF CntInv, CntType
    <3> QED
      BY Zenon, <3>1 DEF CntInv, CntCells, CntAdders
  <2>2. Bounds(v, n, m, c[1] # "sums", program \in C!Locked)
    BY Zenon, <2>1 DEF CntInv, CntCells
  <2>3. (\E a \in C!Adders : C!To(c, a) = {}) => n = 0 \/ m = 0
    BY Zenon, <1>0, <2>1 DEF CntInv, CntCells, CntAdders
  <2>4. C!Total(c) = n + m
    BY Zenon, <2>1 DEF C!Total
  <2>5. /\ v <= n + m /\ (n = 0 \/ m = 0 \/ program \in C!Locked => v = n + m) /\ (n + m > 0 => v > 0)
        /\ c[1] # "sums" => n <= 1 \/ m <= 1 \/ v >= 2
    BY Zenon, <2>2 DEF Bounds
  <2>6. c[1] # "sums" => v >= C!LeastCount(n, m)
    BY <2>5 DEF C!LeastCount
  <2> QED
    BY Zenon, <2>1, <2>3, <2>4, <2>5, <2>6
<1>2. ASSUME program \in C!Locked PROVE \E a \in C!Adders : mem.shown[a] = 2 * MAX_COUNT
  <2>1. program \in C!Threaded
    BY <1>2 DEF C!Locked, C!Threaded
  <2> QED
    BY Zenon, <1>0, <1>2, <2>1 DEF CntInv, CntThreaded
<1> QED
  BY Zenon, <1>1, <1>2

(* The beginning: what is to be added, and counters at zero. *)
LEMMA SeqOfMembers ==
  ASSUME NEW D, NEW V, NEW s \in Seq(D), \A k \in 1 .. Len(s) : s[k] \in V
  PROVE  s \in Seq(V)
OBVIOUS

LEMMA MemberOfSeq ==
  ASSUME NEW D, NEW s \in Seq(D), NEW k \in 1 .. Len(s)
  PROVE  s[k] \in D
OBVIOUS

LEMMA FunctionIsSeq ==
  ASSUME NEW n \in Nat, NEW V, NEW f \in [1 .. n -> V]
  PROVE  f \in Seq(V) /\ Len(f) = n /\ DOMAIN f = 1 .. n
OBVIOUS

LEMMA CntFresh ==
  ASSUME NEW cells, NEW todo \in [CntAdders -> Seq(Additions(cells))], NEW m \in CntLabels, NEW l \in CntLabels,
         l \notin {"read", "write", "unlock", "done"},
         pc = C!Labels(m, l), mem = C!Memory(todo)
  PROVE  /\ CntType /\ CntCells /\ CntSeen /\ CntLocked
         /\ mem.todo = todo /\ pc["main"] = m /\ \A a \in CntAdders : pc[a] = l
         /\ DOMAIN mem.val = UNION {{todo[a][k].to : k \in DOMAIN todo[a]} : a \in CntAdders}
         /\ \A c : \A a \in CntAdders : C!AddedBy(c, a) = 0
<1> DEFINE D == UNION {{todo[a][k].to : k \in DOMAIN todo[a]} : a \in CntAdders}
<1>0. C!Adders = CntAdders
  BY DEF C!Adders, CntAdders
<1>1. /\ CntShape /\ mem.todo = todo /\ mem.done = [a \in CntAdders |-> <<>>] /\ mem.val = [c \in D |-> 0]
      /\ mem.seen = [a \in CntAdders |-> 0] /\ mem.shown = [a \in CntAdders |-> 0]
  BY Zenon, <1>0 DEF C!Memory, CntShape
<1>2. /\ pc \in [{"adder1", "adder2", "main"} -> CntLabels] /\ pc["main"] = m
      /\ \A a \in CntAdders : pc[a] = l
  BY DEF C!Labels, C!Threads, C!Adders, CntAdders
<1>3. ASSUME NEW a \in CntAdders PROVE todo[a] \in Seq(Additions(D))
  <2>1. ASSUME NEW k \in 1 .. Len(todo[a]) PROVE todo[a][k] \in Additions(D)
    <3>1. todo[a] \in Seq(Additions(cells))
      OBVIOUS
    <3>2. todo[a][k] \in Additions(cells) /\ DOMAIN todo[a] = 1 .. Len(todo[a])
      BY <3>1
    <3>3. todo[a][k].to \in {todo[a][j].to : j \in DOMAIN todo[a]}
      BY Zenon, <3>2
    <3>4. todo[a][k].to \in D
      BY Zenon, <3>3
    <3> QED
      BY <3>2, <3>4 DEF Additions
  <2> HIDE DEF D
  <2> QED
    BY <2>1, SeqOfMembers
<1> HIDE DEF D
<1>4. /\ mem.val \in [D -> Nat] /\ DOMAIN mem.val = D /\ \A c \in D : mem.val[c] = 0
      /\ mem.seen \in [CntAdders -> Nat] /\ mem.shown \in [CntAdders -> Nat]
  BY <1>1
<1>5. mem.todo \in [CntAdders -> Seq(Additions(D))] /\ mem.done \in [CntAdders -> Seq(Additions(D))]
  <2>1. <<>> \in Seq(Additions(D))
    OBVIOUS
  <2> QED
    BY Zenon, <1>1, <1>3, <2>1
<1>6. l \notin {"read", "write"} /\ l # "write"
  OBVIOUS
<1>7. CntType
  BY Zenon, <1>1, <1>2, <1>4, <1>5, <1>6 DEF CntType
<1>8. \A a \in CntAdders : mem.done[a] = <<>>
  BY Zenon, <1>1
<1>9. \A c : \A a \in CntAdders : C!AddedBy(c, a) = 0 /\ C!To(c, a) = {}
  BY Zenon, <1>8, NothingAdded
<1>10. CntCells
  <2>1. "adder1" \in CntAdders /\ "adder2" \in CntAdders /\ 0 \in Nat
    BY DEF CntAdders
  <2>2. \A ones, exact : Bounds(0, 0, 0, ones, exact)
    BY DEF Bounds
  <2>3. ASSUME NEW c \in D, NEW ones, NEW exact
        PROVE  Bounds(mem.val[c], C!AddedBy(c, "adder1"), C!AddedBy(c, "adder2"), ones, exact)
    <3>1. mem.val[c] = 0 /\ C!AddedBy(c, "adder1") = 0 /\ C!AddedBy(c, "adder2") = 0
      BY Zenon, <1>4, <1>9, <2>1
    <3> QED
      BY Zenon, <2>2, <3>1
  <2> QED
    BY Zenon, <1>4, <1>9, <2>1, <2>3 DEF CntCells
<1>11. CntSeen /\ CntLocked
  BY Zenon, <1>2, <1>6 DEF CntSeen, CntLocked
<1> QED
  BY ZenonT(40), <1>1, <1>2, <1>4, <1>7, <1>9, <1>10, <1>11 DEF D

LEMMA IncrementsAreAdditions ==
  /\ C!Increments \in Seq(Additions({C!count})) /\ Len(C!Increments) = MAX_COUNT
  /\ DOMAIN C!Increments = 1 .. MAX_COUNT /\ \A k \in 1 .. MAX_COUNT : C!Increments[k].to = C!count
<1> DEFINE one == [to |-> C!count, by |-> 1]
<1>1. one \in Additions({C!count}) /\ one.to = C!count
  BY DEF Additions, C!count
<1>2. C!Increments = [k \in 1 .. MAX_COUNT |-> one]
  BY DEF C!Increments
<1> HIDE DEF one
<1>3. MAX_COUNT \in Nat
  BY CountersAssumption
<1>4. /\ DOMAIN C!Increments = 1 .. MAX_COUNT
      /\ \A k \in 1 .. MAX_COUNT : C!Increments[k] = one
  BY <1>2
<1>5. C!Increments \in Seq(Additions({C!count})) /\ Len(C!Increments) = MAX_COUNT
  <2>1. C!Increments \in [1 .. MAX_COUNT -> Additions({C!count})]
    BY <1>1, <1>2
  <2> QED
    BY Zenon, <1>3, <2>1, FunctionIsSeq
<1> QED
  BY Zenon, <1>1, <1>4, <1>5

LEMMA LinesAreAdditions ==
  ASSUME NEW file \in RatingFiles
  PROVE  C!Additions(file) \in Seq(Additions({"counts", "sums"} \X Int))
<1>1. file \in Seq([movie : Int, rating : Nat \ {0}])
  BY CountersAssumption
<1>2. PICK n \in Nat : n = Len(file)
  BY <1>1
<1>3. ASSUME NEW k \in 1 .. 2 * n PROVE (k + 1) \div 2 \in 1 .. n
  OBVIOUS
<1>4. ASSUME NEW k \in 1 .. 2 * n
      PROVE  file[(k + 1) \div 2].movie \in Int /\ file[(k + 1) \div 2].rating \in Nat \ {0}
  <2>1. PICK j \in 1 .. n : j = (k + 1) \div 2
    BY <1>3
  <2>2. file[j] \in [movie : Int, rating : Nat \ {0}]
    BY Zenon, <1>1, <1>2, MemberOfSeq
  <2>3. file[j].movie \in Int /\ file[j].rating \in Nat \ {0}
    BY <2>2
  <2> QED
    BY Zenon, <2>1, <2>3
<1> DEFINE e(k) == LET line == file[(k + 1) \div 2]
                   IN  IF k % 2 = 1 THEN [to |-> <<"counts", line.movie>>, by |-> 1]
                                    ELSE [to |-> <<"sums", line.movie>>, by |-> line.rating]
<1>5. ASSUME NEW k \in 1 .. 2 * n PROVE e(k) \in Additions({"counts", "sums"} \X Int)
  <2>1. ASSUME NEW movie \in Int, NEW rating \in Nat \ {0}
        PROVE  /\ [to |-> <<"counts", movie>>, by |-> 1] \in Additions({"counts", "sums"} \X Int)
               /\ [to |-> <<"sums", movie>>, by |-> rating] \in Additions({"counts", "sums"} \X Int)
    BY DEF Additions
  <2> QED
    BY Zenon, <1>4, <2>1
<1>6. C!Additions(file) = [k \in 1 .. 2 * n |-> e(k)]
  BY Zenon, <1>2 DEF C!Additions
<1> HIDE DEF e
<1>7. 2 * n \in Nat
  OBVIOUS
<1> QED
  BY <1>5, <1>6, <1>7

LEMMA CntStarts ==
  ASSUME program \in C!Programs, Init
  PROVE  CntInv
<1>0. C!Adders = CntAdders /\ CntAdders # {}
  BY DEF C!Adders, CntAdders
<1>1. \/ /\ program \in C!Threaded /\ pc = C!Labels("join", "add")
         /\ mem = C!Memory([a \in C!Adders |-> C!Increments])
      \/ /\ program = "movie_ratings" /\ pc = C!Labels("fork1", "none")
         /\ \E files \in [C!Adders -> RatingFiles] : mem = C!Memory([a \in C!Adders |-> C!Additions(files[a])])
  BY DEF Init, B!Init, C!Init, M!Init, R!Init, L!Init, S!Init, K!Init, B!Start, C!Start,
     M!Start, R!Start, L!Start, S!Start, K!Start, C!Threaded, C!Programs
<1>2. /\ "join" \in CntLabels /\ "add" \in CntLabels /\ "fork1" \in CntLabels /\ "none" \in CntLabels
      /\ "add" \notin {"read", "write", "unlock", "done"} /\ "none" \notin {"read", "write", "unlock", "done"}
  BY DEF CntLabels
<1>3. CASE /\ program \in C!Threaded /\ pc = C!Labels("join", "add")
           /\ mem = C!Memory([a \in C!Adders |-> C!Increments])
  <2> DEFINE todo == [a \in CntAdders |-> C!Increments]
  <2>1. todo \in [CntAdders -> Seq(Additions({C!count}))]
    BY Zenon, IncrementsAreAdditions
  <2>2. mem = C!Memory(todo)
    BY Zenon, <1>0, <1>3
  <2>3. \A a \in CntAdders : todo[a] = C!Increments
    OBVIOUS
  <2> HIDE DEF todo
  <2>4. /\ CntType /\ CntCells /\ CntSeen /\ CntLocked
        /\ mem.todo = todo /\ pc["main"] = "join" /\ \A a \in CntAdders : pc[a] = "add"
        /\ DOMAIN mem.val = UNION {{todo[a][k].to : k \in DOMAIN todo[a]} : a \in CntAdders}
        /\ \A c : \A a \in CntAdders : C!AddedBy(c, a) = 0
    BY Zenon, <1>2, <1>3, <2>1, <2>2, CntFresh
  <2>5. DOMAIN mem.val = {C!count}
    <3>1. 1 \in 1 .. MAX_COUNT
      BY CountersAssumption
    <3>2. {C!Increments[k].to : k \in DOMAIN C!Increments} = {C!count}
      BY Zenon, <3>1, IncrementsAreAdditions
    <3>3. \A a \in CntAdders : {todo[a][k].to : k \in DOMAIN todo[a]} = {C!count}
      BY Zenon, <2>3, <3>2
    <3> QED
      BY <1>0, <2>4, <3>3
  <2>6. ASSUME NEW a \in CntAdders PROVE C!AddedBy(C!count, a) + Len(mem.todo[a]) = MAX_COUNT
    <3>1. C!AddedBy(C!count, a) = 0 /\ Len(mem.todo[a]) = MAX_COUNT
      BY Zenon, <2>3, <2>4, IncrementsAreAdditions
    <3> QED
      BY <3>1, CountersAssumption
  <2>7. /\ "join" \notin {"fork1", "fork2"} /\ "add" # "open" /\ "add" # "done"
    OBVIOUS
  <2>8. CntThreaded
    BY Zenon, <1>0, <2>4, <2>5, <2>6, <2>7 DEF CntThreaded
  <2> QED
    BY Zenon, <2>4, <2>8 DEF CntInv
<1>4. CASE /\ program = "movie_ratings" /\ pc = C!Labels("fork1", "none")
           /\ \E files \in [C!Adders -> RatingFiles] : mem = C!Memory([a \in C!Adders |-> C!Additions(files[a])])
  <2>1. PICK files \in [CntAdders -> RatingFiles] : mem = C!Memory([a \in CntAdders |-> C!Additions(files[a])])
    BY Zenon, <1>0, <1>4
  <2> DEFINE todo == [a \in CntAdders |-> C!Additions(files[a])]
  <2>2. todo \in [CntAdders -> Seq(Additions({"counts", "sums"} \X Int))]
    BY Zenon, LinesAreAdditions
  <2> HIDE DEF todo
  <2>3. mem = C!Memory(todo)
    BY Zenon, <2>1 DEF todo
  <2>4. CntType /\ CntCells /\ CntSeen /\ CntLocked
    BY Zenon, <1>2, <1>4, <2>2, <2>3, CntFresh
  <2>5. CntThreaded
    BY <1>4 DEF CntThreaded, C!Threaded
  <2> QED
    BY Zenon, <2>4, <2>5 DEF CntInv
<1> QED
  BY Zenon, <1>1, <1>3, <1>4

-----------------------------------------------------------------------------
(* Queues *)

Lines == STRING \cup {"end"}

(* What is received is taken from the front of the queue. *)
LEMMA HeadMoves ==
  ASSUME NEW D, NEW s \in Seq(D), NEW t \in Seq(D), t # <<>>
  PROVE  /\ Head(t) \in D /\ Tail(t) \in Seq(D)
         /\ Append(s, Head(t)) \o Tail(t) = s \o t
<1>1. PICK n \in Nat, m \in Nat : n = Len(s) /\ m + 1 = Len(t)
  <2>1. Len(s) \in Nat /\ Len(t) \in Nat /\ Len(t) # 0
    OBVIOUS
  <2>2. Len(t) - 1 \in Nat /\ (Len(t) - 1) + 1 = Len(t)
    BY <2>1
  <2> QED
    BY Zenon, <2>1, <2>2
<1>2. Head(t) \in D /\ Tail(t) \in Seq(D) /\ Len(Tail(t)) = m
  BY <1>1
<1>3. Append(s, Head(t)) \in Seq(D) /\ Len(Append(s, Head(t))) = n + 1
  BY <1>1, <1>2
<1>4. Append(s, Head(t)) \o Tail(t) \in Seq(D) /\ Len(Append(s, Head(t)) \o Tail(t)) = n + 1 + m
  BY <1>1, <1>2, <1>3
<1>5. s \o t \in Seq(D) /\ Len(s \o t) = n + 1 + m
  BY <1>1
<1>6. ASSUME NEW k \in 1 .. n + 1 + m PROVE (Append(s, Head(t)) \o Tail(t))[k] = (s \o t)[k]
  BY <1>1, <1>2, <1>3
<1> QED
  BY <1>2, <1>4, <1>5, <1>6

LEMMA PrefixOfConcat ==
  ASSUME NEW D, NEW s \in Seq(D), NEW t \in Seq(D)
  PROVE  s = SubSeq(s \o t, 1, Len(s))
OBVIOUS

(* A receiver stops with the first "end". *)
EndsAt(s, done) == \A k \in DOMAIN s : s[k] = "end" <=> (k = Len(s) /\ done)

LEMMA EndIsLast ==
  ASSUME NEW s \in Seq(Lines), EndsAt(s, FALSE), NEW line \in Lines
  PROVE  EndsAt(Append(s, line), line = "end")
<1>1. PICK n \in Nat : n = Len(s)
  OBVIOUS
<1>2. /\ Len(Append(s, line)) = n + 1
      /\ DOMAIN Append(s, line) = 1 .. n + 1 /\ DOMAIN s = 1 .. n
      /\ \A k \in 1 .. n : Append(s, line)[k] = s[k]
      /\ Append(s, line)[n + 1] = line
  BY <1>1, AppendFacts
<1>3. \A k \in 1 .. n : s[k] # "end"
  BY Zenon, <1>2 DEF EndsAt
<1>4. \A k \in 1 .. n + 1 : (k \in 1 .. n /\ k # n + 1) \/ k = n + 1
  OBVIOUS
<1> QED
  BY Zenon, <1>2, <1>3, <1>4 DEF EndsAt

-----------------------------------------------------------------------------
(* two_way_msg *)

TwoProc == {"a", "b"}
TwoThreads == {"a", "b", "receiver_a", "receiver_b"}
TwoLabels == {"get", "send", "join", "exited", "failed", "none", "receive", "done"}
TwoShape == mem = [input |-> mem.input, queue |-> mem.queue, old |-> mem.old, sent |-> mem.sent,
                   got |-> mem.got]
TwoType == /\ TwoShape /\ pc \in [TwoThreads -> TwoLabels]
           /\ mem.input \in [TwoProc -> Seq(Lines)] /\ mem.queue \in [TwoProc -> Seq(Lines)]
           /\ mem.old \in [TwoProc -> Seq(Lines)] /\ mem.sent \in [TwoProc -> Seq(Lines)]
           /\ mem.got \in [TwoProc -> Seq(Lines)]

(* The queues are opened before the receiver begins. *)
TwoInv == /\ TwoType
          /\ \A p \in TwoProc :
               /\ mem.got[p] \o mem.queue[M!Peer(p)] = mem.old[M!Peer(p)] \o mem.sent[M!Peer(p)]
               /\ EndsAt(mem.got[p], pc[M!Receiver(p)] = "done")
               /\ pc[p] = "get" => pc[M!Receiver(p)] = "none"

LEMMA Peers ==
  /\ M!Proc = TwoProc
  /\ M!Peer("a") = "b" /\ M!Peer("b") = "a"
  /\ M!Receiver("a") = "receiver_a" /\ M!Receiver("b") = "receiver_b"
<1>1. /\ \E q \in M!Proc : q # "a"
      /\ \E q \in M!Proc : q # "b"
  BY DEF M!Proc
<1>2. /\ M!Peer("a") \in M!Proc /\ M!Peer("a") # "a"
      /\ M!Peer("b") \in M!Proc /\ M!Peer("b") # "b"
  BY Zenon, <1>1 DEF M!Peer
<1> QED
  BY <1>2 DEF M!Proc, M!Receiver, TwoProc

LEMMA TwoNext ==
  ASSUME program = "two_way_msg", [Next]_vars, TwoShape
  PROVE  \/ UNCHANGED vars
         \/ \E p \in TwoProc : \/ M!GetQueues(p) \/ M!SendLine(p) \/ M!LineFails(p) \/ M!Receive(p)
                               \/ M!Join(p, {M!Receiver(p)}, "join", "exited")
<1>1. ~SpuriousWakeup
  BY Zenon DEF SpuriousWakeup, TwoShape
<1>2. M!Proc = TwoProc
  BY DEF M!Proc, TwoProc
<1>3. M!Next \/ UNCHANGED vars
  BY <1>1 DEF Next, B!Next, C!Next, R!Next, L!Next, S!Next, K!Next, B!Step, C!Step,
     R!Manage, R!Dine, R!Detect, R!Main, L!Step, S!Step, vars,
     C!Programs, C!Threaded, B!PcProducer, B!PcConsumer
<1>4. program # "msgsnd"
  OBVIOUS
<1> QED
  BY Zenon, <1>2, <1>3, <1>4 DEF M!Next, M!Step, M!SendFails

LEMMA TwoMoves ==
  ASSUME TwoShape, NEW p, M!GetQueues(p) \/ M!SendLine(p) \/ M!LineFails(p) \/ M!Receive(p)
                          \/ M!Join(p, {M!Receiver(p)}, "join", "exited")
  PROVE  \/ /\ pc[p] = "get" /\ mem' = mem
            /\ pc' = [pc EXCEPT ![p] = "send", ![M!Receiver(p)] = "receive"]
         \/ /\ pc[p] = "get" /\ mem' = mem /\ pc' = [pc EXCEPT ![p] = "failed"]
         \/ /\ pc[p] = "send" /\ mem' = mem /\ pc' = [pc EXCEPT ![p] = "join"]
         \/ /\ pc[p] = "join" /\ mem' = mem /\ pc' = [pc EXCEPT ![p] = "exited"]
         \/ /\ pc[p] = "send" /\ mem.input[p] # <<>> /\ TwoShape' /\ UNCHANGED <<mem.old, mem.got>>
            /\ mem'.input = [mem.input EXCEPT ![p] = Tail(@)]
            /\ mem'.queue = [mem.queue EXCEPT ![p] = Append(@, Head(mem.input[p]))]
            /\ mem'.sent = [mem.sent EXCEPT ![p] = Append(@, Head(mem.input[p]))]
            /\ \E l \in {"join", "send"} : pc' = [pc EXCEPT ![p] = l]
         \/ /\ pc[p] = "send" /\ mem.input[p] # <<>> /\ TwoShape'
            /\ UNCHANGED <<mem.old, mem.got, mem.queue, mem.sent>>
            /\ mem'.input = [mem.input EXCEPT ![p] = Tail(@)]
            /\ \E l \in {"join", "send"} : pc' = [pc EXCEPT ![p] = l]
         \/ /\ pc[M!Receiver(p)] = "receive" /\ mem.queue[M!Peer(p)] # <<>> /\ TwoShape'
            /\ UNCHANGED <<mem.old, mem.sent, mem.input>>
            /\ mem'.queue = [mem.queue EXCEPT ![M!Peer(p)] = Tail(@)]
            /\ mem'.got = [mem.got EXCEPT ![p] = Append(@, Head(mem.queue[M!Peer(p)]))]
            /\ pc' = [pc EXCEPT ![M!Receiver(p)] =
                        IF Head(mem.queue[M!Peer(p)]) = "end" THEN "done" ELSE "receive"]
<1>1. CASE M!GetQueues(p)
  BY Zenon, <1>1 DEF M!GetQueues, M!Goto, M!Move
<1>2. CASE M!SendLine(p)
  <2>1. CASE mem.input[p] = <<>> /\ M!Goto(p, "send", "join")
    BY Zenon, <2>1 DEF M!Goto, M!Move
  <2>2. CASE /\ mem.input[p] # <<>>
             /\ M!Move(p, "send", IF Head(mem.input[p]) = "end" THEN "join" ELSE "send",
                 [mem EXCEPT !.queue[p] = Append(@, Head(mem.input[p])),
                             !.sent[p] = Append(@, Head(mem.input[p])), !.input[p] = Tail(@)])
    <3>1. pc[p] = "send" /\ \E l \in {"join", "send"} : pc' = [pc EXCEPT ![p] = l]
      BY Zenon, <2>2 DEF M!Move
    <3>2. /\ TwoShape' /\ UNCHANGED <<mem.old, mem.got>>
          /\ mem'.input = [mem.input EXCEPT ![p] = Tail(@)]
          /\ mem'.queue = [mem.queue EXCEPT ![p] = Append(@, Head(mem.input[p]))]
          /\ mem'.sent = [mem.sent EXCEPT ![p] = Append(@, Head(mem.input[p]))]
      BY Zenon, <2>2 DEF M!Move, TwoShape
    <3> QED
      BY Zenon, <2>2, <3>1, <3>2
  <2> QED
    BY Zenon, <1>2, <2>1, <2>2 DEF M!SendLine
<1>3. CASE M!Receive(p)
  BY Zenon, <1>3 DEF M!Receive, M!Move, TwoShape
<1>4. CASE M!Join(p, {M!Receiver(p)}, "join", "exited")
  BY Zenon, <1>4 DEF M!Join, M!Goto, M!Move
<1>5. CASE M!LineFails(p)
  <2>1. /\ pc[p] = "send" /\ mem.input[p] # <<>>
        /\ \E l \in {"join", "send"} : pc' = [pc EXCEPT ![p] = l]
    BY Zenon, <1>5 DEF M!LineFails, M!Move
  <2>2. /\ TwoShape' /\ UNCHANGED <<mem.old, mem.got, mem.queue, mem.sent>>
        /\ mem'.input = [mem.input EXCEPT ![p] = Tail(@)]
    BY Zenon, <1>5 DEF M!LineFails, M!Move, TwoShape
  <2> QED
    BY Zenon, <2>1, <2>2
<1> QED
  BY Zenon, <1>1, <1>2, <1>3, <1>4, <1>5

LEMMA TwoNames ==
  /\ \A p \in TwoProc : /\ M!Peer(p) \in TwoProc /\ p \in TwoThreads /\ M!Receiver(p) \in TwoThreads
                        /\ \A q \in TwoProc : M!Receiver(p) # q /\ (M!Receiver(p) = M!Receiver(q) => p = q)
  /\ "get" # "done" /\ "none" # "done" /\ "send" # "get" /\ "failed" # "get" /\ "join" # "get"
  /\ "exited" # "get" /\ "receive" # "done" /\ "receive" # "none"
BY Peers DEF TwoProc, TwoThreads

(* A channel: what was received, and what is in the queue, is what was     *)
(* there and what was sent.                                                *)
Ordered(g, q, o, s) == /\ g \in Seq(Lines) /\ q \in Seq(Lines) /\ o \in Seq(Lines) /\ s \in Seq(Lines)
                       /\ g \o q = o \o s

LEMMA SendKeepsOrder ==
  ASSUME NEW g, NEW q, NEW o, NEW s, NEW line \in Lines, Ordered(g, q, o, s)
  PROVE  Ordered(g, Append(q, line), o, Append(s, line))
<1>1. g \in Seq(Lines) /\ q \in Seq(Lines) /\ o \in Seq(Lines) /\ s \in Seq(Lines) /\ g \o q = o \o s
  BY Zenon DEF Ordered
<1>2. \A a, b \in Seq(Lines) : a \o Append(b, line) = Append(a \o b, line)
  OBVIOUS
<1>3. Append(q, line) \in Seq(Lines) /\ Append(s, line) \in Seq(Lines)
  BY <1>1
<1>4. g \o Append(q, line) = Append(g \o q, line)
  BY Zenon, <1>1, <1>2
<1>5. o \o Append(s, line) = Append(o \o s, line)
  BY Zenon, <1>1, <1>2
<1>6. g \o Append(q, line) = o \o Append(s, line)
  BY Zenon, <1>1, <1>4, <1>5
<1> QED
  BY Zenon, <1>1, <1>3, <1>6 DEF Ordered

LEMMA ReceiveKeepsOrder ==
  ASSUME NEW g, NEW q, NEW o, NEW s, q # <<>>, Ordered(g, q, o, s)
  PROVE  Ordered(Append(g, Head(q)), Tail(q), o, s)
<1>1. g \in Seq(Lines) /\ q \in Seq(Lines) /\ o \in Seq(Lines) /\ s \in Seq(Lines) /\ g \o q = o \o s
  BY Zenon DEF Ordered
<1>2. Head(q) \in Lines /\ Tail(q) \in Seq(Lines)
  BY <1>1
<1>3. Append(g, Head(q)) \in Seq(Lines)
  BY <1>1, <1>2
<1>4. Append(g, Head(q)) \o Tail(q) = g \o q
  BY Zenon, <1>1, HeadMoves
<1> QED
  BY Zenon, <1>1, <1>2, <1>3, <1>4 DEF Ordered

LEMMA TwoKeepsType ==
  ASSUME program = "two_way_msg", TwoType, [Next]_vars
  PROVE  TwoType'
<1>1. CASE UNCHANGED vars
  BY Zenon, <1>1 DEF vars, TwoType, TwoShape
<1>2. ASSUME NEW p \in TwoProc, NEW l, NEW m, l \in TwoLabels, m \in TwoLabels, mem' = mem,
             pc' = [pc EXCEPT ![p] = l] \/ pc' = [pc EXCEPT ![p] = l, ![M!Receiver(p)] = m]
      PROVE  TwoType'
  <2>1. pc' \in [TwoThreads -> TwoLabels]
    <3>1. pc \in [TwoThreads -> TwoLabels]
      BY Zenon DEF TwoType
    <3>2. CASE pc' = [pc EXCEPT ![p] = l]
      BY Zenon, <1>2, <3>1, <3>2
    <3>3. CASE pc' = [pc EXCEPT ![p] = l, ![M!Receiver(p)] = m]
      BY <1>2, <3>1, <3>3
    <3> QED
      BY Zenon, <1>2, <3>2, <3>3
  <2> QED
    BY Zenon, <1>2, <2>1 DEF TwoType, TwoShape
<1>3. ASSUME NEW p \in TwoProc, mem.input[p] # <<>>, TwoShape', UNCHANGED <<mem.old, mem.got>>,
             mem'.input = [mem.input EXCEPT ![p] = Tail(@)],
             mem'.queue = [mem.queue EXCEPT ![p] = Append(@, Head(mem.input[p]))],
             mem'.sent = [mem.sent EXCEPT ![p] = Append(@, Head(mem.input[p]))],
             \E l \in {"join", "send"} : pc' = [pc EXCEPT ![p] = l]
      PROVE  TwoType'
  <2>1. pc' \in [TwoThreads -> TwoLabels]
    <3>1. PICK l \in {"join", "send"} : pc' = [pc EXCEPT ![p] = l]
      BY Zenon, <1>3
    <3>2. l \in TwoLabels
      BY DEF TwoLabels
    <3> QED
      BY Zenon, <3>1, <3>2 DEF TwoType
  <2>2. mem.input[p] \in Seq(Lines) /\ mem.queue[p] \in Seq(Lines) /\ mem.sent[p] \in Seq(Lines)
    BY Zenon DEF TwoType
  <2>3. Head(mem.input[p]) \in Lines /\ Tail(mem.input[p]) \in Seq(Lines)
    BY <1>3, <2>2
  <2>4. /\ Append(mem.queue[p], Head(mem.input[p])) \in Seq(Lines)
        /\ Append(mem.sent[p], Head(mem.input[p])) \in Seq(Lines)
    BY <2>2, <2>3
  <2>5. mem'.input \in [TwoProc -> Seq(Lines)]
    BY Zenon, <1>3, <2>3 DEF TwoType
  <2>6. mem'.queue \in [TwoProc -> Seq(Lines)] /\ mem'.sent \in [TwoProc -> Seq(Lines)]
    BY ZenonT(40), <1>3, <2>4 DEF TwoType
  <2> QED
    BY Zenon, <1>3, <2>1, <2>5, <2>6 DEF TwoType
<1>4. ASSUME NEW p \in TwoProc, mem.queue[M!Peer(p)] # <<>>, TwoShape',
             UNCHANGED <<mem.old, mem.sent, mem.input>>,
             mem'.queue = [mem.queue EXCEPT ![M!Peer(p)] = Tail(@)],
             mem'.got = [mem.got EXCEPT ![p] = Append(@, Head(mem.queue[M!Peer(p)]))],
             pc' = [pc EXCEPT ![M!Receiver(p)] =
                        IF Head(mem.queue[M!Peer(p)]) = "end" THEN "done" ELSE "receive"]
      PROVE  TwoType'
  <2>1. pc' \in [TwoThreads -> TwoLabels]
    <3>1. "done" \in TwoLabels /\ "receive" \in TwoLabels
      BY DEF TwoLabels
    <3> QED
      BY Zenon, <1>4, <3>1 DEF TwoType
  <2>2. mem.queue[M!Peer(p)] \in Seq(Lines) /\ mem.got[p] \in Seq(Lines)
    BY Zenon, TwoNames DEF TwoType
  <2>3. /\ Head(mem.queue[M!Peer(p)]) \in Lines /\ Tail(mem.queue[M!Peer(p)]) \in Seq(Lines)
    BY <1>4, <2>2
  <2>4. Append(mem.got[p], Head(mem.queue[M!Peer(p)])) \in Seq(Lines)
    BY <2>2, <2>3
  <2> QED
    BY Zenon, <1>4, <2>1, <2>3, <2>4 DEF TwoType
<1>5. /\ "send" \in TwoLabels /\ "receive" \in TwoLabels /\ "failed" \in TwoLabels
      /\ "join" \in TwoLabels /\ "exited" \in TwoLabels
  BY DEF TwoLabels
<1>6. ASSUME NEW p \in TwoProc, mem.input[p] # <<>>, TwoShape',
             UNCHANGED <<mem.old, mem.got, mem.queue, mem.sent>>,
             mem'.input = [mem.input EXCEPT ![p] = Tail(@)],
             NEW l \in {"join", "send"}, pc' = [pc EXCEPT ![p] = l]
      PROVE  TwoType'
  <2>1. l \in TwoLabels
    BY <1>5
  <2>2. mem.input[p] \in Seq(Lines)
    BY Zenon DEF TwoType
  <2>3. Tail(mem.input[p]) \in Seq(Lines)
    BY <1>6, <2>2
  <2> QED
    BY Zenon, <1>6, <2>1, <2>3 DEF TwoType
<1> QED
  BY Zenon, <1>1, <1>2, <1>3, <1>4, <1>5, <1>6, TwoNext, TwoMoves DEF TwoType

(* A step that leaves the queues alone, *)
LEMMA TwoQuiet ==
  ASSUME TwoInv, TwoType', NEW p \in TwoProc, UNCHANGED <<mem.old, mem.got, mem.queue, mem.sent>>,
         NEW l, l # "get",
         \/ pc' = [pc EXCEPT ![p] = l]
         \/ pc[p] = "get" /\ pc' = [pc EXCEPT ![p] = l, ![M!Receiver(p)] = "receive"]
  PROVE  TwoInv'
<1> SUFFICES ASSUME NEW r \in TwoProc
             PROVE  /\ EndsAt(mem.got[r], pc'[M!Receiver(r)] = "done")
                    /\ pc'[r] = "get" => pc'[M!Receiver(r)] = "none"
  BY Zenon DEF TwoInv
<1>1. /\ pc \in [TwoThreads -> TwoLabels]
      /\ EndsAt(mem.got[r], pc[M!Receiver(r)] = "done")
      /\ pc[r] = "get" => pc[M!Receiver(r)] = "none"
  BY Zenon DEF TwoInv, TwoType
<1>2. pc'[M!Receiver(r)] = pc[M!Receiver(r)] \/ (r = p /\ pc[p] = "get" /\ pc'[M!Receiver(r)] = "receive")
  BY <1>1, TwoNames
<1>3. (r # p => pc'[r] = pc[r]) /\ (r = p => pc'[r] = l)
  BY <1>1, TwoNames
<1>4. (pc'[M!Receiver(r)] = "done") = (pc[M!Receiver(r)] = "done")
  BY <1>1, <1>2, TwoNames
<1>5. EndsAt(mem.got[r], pc'[M!Receiver(r)] = "done")
  BY Zenon, <1>1, <1>4
<1>6. pc'[r] = "get" => pc'[M!Receiver(r)] = "none"
  BY <1>1, <1>2, <1>3
<1> QED
  BY Zenon, <1>5, <1>6

(* one that sends, *)
LEMMA TwoSends ==
  ASSUME TwoInv, TwoType', NEW p \in TwoProc, mem.input[p] # <<>>, UNCHANGED <<mem.old, mem.got>>,
         mem'.queue = [mem.queue EXCEPT ![p] = Append(@, Head(mem.input[p]))],
         mem'.sent = [mem.sent EXCEPT ![p] = Append(@, Head(mem.input[p]))],
         NEW l, l # "get", pc' = [pc EXCEPT ![p] = l]
  PROVE  TwoInv'
<1> SUFFICES ASSUME NEW r \in TwoProc
             PROVE  /\ mem'.got[r] \o mem'.queue[M!Peer(r)] = mem'.old[M!Peer(r)] \o mem'.sent[M!Peer(r)]
                    /\ EndsAt(mem'.got[r], pc'[M!Receiver(r)] = "done")
                    /\ pc'[r] = "get" => pc'[M!Receiver(r)] = "none"
  BY Zenon DEF TwoInv
<1>1. /\ pc \in [TwoThreads -> TwoLabels] /\ DOMAIN mem.queue = TwoProc /\ DOMAIN mem.sent = TwoProc
      /\ EndsAt(mem.got[r], pc[M!Receiver(r)] = "done")
      /\ pc[r] = "get" => pc[M!Receiver(r)] = "none"
      /\ mem.got[r] \o mem.queue[M!Peer(r)] = mem.old[M!Peer(r)] \o mem.sent[M!Peer(r)]
  BY Zenon DEF TwoInv, TwoType
<1>2. pc'[M!Receiver(r)] = pc[M!Receiver(r)] /\ (pc'[r] = "get" => pc[r] = "get")
  BY Zenon, <1>1, TwoNames
<1>3. CASE M!Peer(r) = p
  <2>1. /\ mem.got[r] \in Seq(Lines) /\ mem.queue[p] \in Seq(Lines) /\ mem.old[p] \in Seq(Lines)
        /\ mem.sent[p] \in Seq(Lines) /\ mem.input[p] \in Seq(Lines)
    BY Zenon DEF TwoInv, TwoType
  <2> DEFINE line == Head(mem.input[p])
  <2>2. line \in Lines
    BY <2>1
  <2>3. /\ mem'.queue[p] = Append(mem.queue[p], line)
        /\ mem'.sent[p] = Append(mem.sent[p], line)
    BY Zenon, <1>1
  <2>4. mem.got[r] \o mem.queue[p] = mem.old[p] \o mem.sent[p]
    BY Zenon, <1>1, <1>3
  <2> HIDE DEF line
  <2>5. mem.got[r] \o Append(mem.queue[p], line) = mem.old[p] \o Append(mem.sent[p], line)
    <3>1. Ordered(mem.got[r], mem.queue[p], mem.old[p], mem.sent[p])
      BY Zenon, <2>1, <2>4 DEF Ordered
    <3>2. Ordered(mem.got[r], Append(mem.queue[p], line), mem.old[p], Append(mem.sent[p], line))
      BY Zenon, <2>2, <3>1, SendKeepsOrder
    <3> QED
      BY Zenon, <3>2 DEF Ordered
  <2> QED
    BY Zenon, <1>1, <1>2, <1>3, <2>3, <2>5
<1>4. CASE M!Peer(r) # p
  <2>1. mem'.queue[M!Peer(r)] = mem.queue[M!Peer(r)] /\ mem'.sent[M!Peer(r)] = mem.sent[M!Peer(r)]
    BY Zenon, <1>1, <1>4, TwoNames
  <2> QED
    BY Zenon, <1>1, <1>2, <2>1
<1> QED
  BY Zenon, <1>3, <1>4

(* and one that receives. *)
LEMMA TwoReceives ==
  ASSUME TwoInv, TwoType', NEW p \in TwoProc, mem.queue[M!Peer(p)] # <<>>,
         UNCHANGED <<mem.old, mem.sent>>, pc[M!Receiver(p)] = "receive",
         mem'.queue = [mem.queue EXCEPT ![M!Peer(p)] = Tail(@)],
         mem'.got = [mem.got EXCEPT ![p] = Append(@, Head(mem.queue[M!Peer(p)]))],
         pc' = [pc EXCEPT ![M!Receiver(p)] =
                  IF Head(mem.queue[M!Peer(p)]) = "end" THEN "done" ELSE "receive"]
  PROVE  TwoInv'
<1> SUFFICES ASSUME NEW r \in TwoProc
             PROVE  /\ mem'.got[r] \o mem'.queue[M!Peer(r)] = mem'.old[M!Peer(r)] \o mem'.sent[M!Peer(r)]
                    /\ EndsAt(mem'.got[r], pc'[M!Receiver(r)] = "done")
                    /\ pc'[r] = "get" => pc'[M!Receiver(r)] = "none"
  BY Zenon DEF TwoInv
<1>1. /\ pc \in [TwoThreads -> TwoLabels] /\ DOMAIN mem.queue = TwoProc /\ DOMAIN mem.got = TwoProc
      /\ EndsAt(mem.got[r], pc[M!Receiver(r)] = "done")
      /\ pc[r] = "get" => pc[M!Receiver(r)] = "none"
      /\ mem.got[r] \o mem.queue[M!Peer(r)] = mem.old[M!Peer(r)] \o mem.sent[M!Peer(r)]
  BY Zenon DEF TwoInv, TwoType
<1>2. pc'[r] = pc[r]
  BY Zenon, <1>1, TwoNames
<1>3. CASE r = p
  <2> DEFINE line == Head(mem.queue[M!Peer(p)])
  <2>1. mem.got[p] \in Seq(Lines) /\ mem.queue[M!Peer(p)] \in Seq(Lines)
    BY Zenon, TwoNames DEF TwoInv, TwoType
  <2>2. line \in Lines
    BY <2>1
  <2>3. /\ mem'.queue[M!Peer(p)] = Tail(mem.queue[M!Peer(p)])
        /\ mem'.got[p] = Append(mem.got[p], line)
    BY Zenon, <1>1, TwoNames
  <2>4. mem'.got[p] \o mem'.queue[M!Peer(p)] = mem.old[M!Peer(p)] \o mem.sent[M!Peer(p)]
    <3>1. mem.got[p] \o mem.queue[M!Peer(p)] = mem.old[M!Peer(p)] \o mem.sent[M!Peer(p)]
      BY Zenon, <1>1, <1>3
    <3>2. Append(mem.got[p], line) \o Tail(mem.queue[M!Peer(p)]) = mem.old[M!Peer(p)] \o mem.sent[M!Peer(p)]
      <4>1. mem.old[M!Peer(p)] \in Seq(Lines) /\ mem.sent[M!Peer(p)] \in Seq(Lines)
        BY Zenon, TwoNames DEF TwoInv, TwoType
      <4>2. Ordered(mem.got[p], mem.queue[M!Peer(p)], mem.old[M!Peer(p)], mem.sent[M!Peer(p)])
        BY Zenon, <2>1, <3>1, <4>1 DEF Ordered
      <4>3. Ordered(Append(mem.got[p], line), Tail(mem.queue[M!Peer(p)]), mem.old[M!Peer(p)],
                    mem.sent[M!Peer(p)])
        BY Zenon, <4>2, ReceiveKeepsOrder
      <4> QED
        BY Zenon, <4>3 DEF Ordered
    <3> QED
      BY Zenon, <2>3, <3>2
  <2>5. pc'[M!Receiver(p)] = IF line = "end" THEN "done" ELSE "receive"
    BY Zenon, <1>1, TwoNames
  <2> HIDE DEF line
  <2>6. (pc'[M!Receiver(p)] = "done") = (line = "end")
    BY <2>5, TwoNames
  <2>7. (pc[M!Receiver(p)] = "done") = FALSE
    BY TwoNames
  <2>8. EndsAt(mem.got[p], FALSE)
    BY Zenon, <1>1, <1>3, <2>7
  <2>9. EndsAt(mem'.got[p], line = "end")
    BY ZenonT(40), <2>1, <2>2, <2>3, <2>8, EndIsLast
  <2>10. EndsAt(mem'.got[p], pc'[M!Receiver(p)] = "done")
    BY Zenon, <2>6, <2>9
  <2>11. pc[p] # "get"
    BY <1>1, <1>3, TwoNames
  <2> QED
    BY Zenon, <1>2, <1>3, <2>4, <2>10, <2>11
<1>4. CASE r # p
  <2>1. M!Peer(r) # M!Peer(p) /\ M!Receiver(r) # M!Receiver(p)
    BY <1>4, Peers DEF TwoProc
  <2>2. /\ mem'.queue[M!Peer(r)] = mem.queue[M!Peer(r)] /\ mem'.got[r] = mem.got[r]
        /\ pc'[M!Receiver(r)] = pc[M!Receiver(r)]
    BY Zenon, <1>1, <1>4, <2>1, TwoNames
  <2> QED
    BY Zenon, <1>1, <1>2, <2>2
<1> QED
  BY Zenon, <1>3, <1>4

LEMMA TwoKeeps ==
  ASSUME program = "two_way_msg", TwoInv, [Next]_vars
  PROVE  TwoInv'
<1>1. TwoType /\ TwoShape
  BY Zenon DEF TwoInv, TwoType
<1>2. TwoType'
  BY Zenon, <1>1, TwoKeepsType
<1>3. CASE UNCHANGED vars
  BY Zenon, <1>2, <1>3 DEF vars, TwoInv
<1>4. ASSUME NEW p \in TwoProc, \/ M!GetQueues(p) \/ M!SendLine(p) \/ M!LineFails(p) \/ M!Receive(p)
                                \/ M!Join(p, {M!Receiver(p)}, "join", "exited")
      PROVE  TwoInv'
  <2>1. \A l \in {"join", "send", "failed", "exited"} : l # "get"
    OBVIOUS
  <2>2. CASE mem' = mem /\ pc[p] = "get" /\ pc' = [pc EXCEPT ![p] = "send", ![M!Receiver(p)] = "receive"]
    BY Zenon, <1>2, <2>1, <2>2, TwoQuiet
  <2>3. CASE mem' = mem /\ \E l \in {"join", "failed", "exited"} : pc' = [pc EXCEPT ![p] = l]
    BY Zenon, <1>2, <2>1, <2>3, TwoQuiet
  <2>4. CASE /\ mem.input[p] # <<>> /\ UNCHANGED <<mem.old, mem.got>>
             /\ mem'.queue = [mem.queue EXCEPT ![p] = Append(@, Head(mem.input[p]))]
             /\ mem'.sent = [mem.sent EXCEPT ![p] = Append(@, Head(mem.input[p]))]
             /\ \E l \in {"join", "send"} : pc' = [pc EXCEPT ![p] = l]
    BY Zenon, <1>2, <2>1, <2>4, TwoSends
  <2>5. CASE /\ pc[M!Receiver(p)] = "receive" /\ mem.queue[M!Peer(p)] # <<>>
             /\ UNCHANGED <<mem.old, mem.sent>>
             /\ mem'.queue = [mem.queue EXCEPT ![M!Peer(p)] = Tail(@)]
             /\ mem'.got = [mem.got EXCEPT ![p] = Append(@, Head(mem.queue[M!Peer(p)]))]
             /\ pc' = [pc EXCEPT ![M!Receiver(p)] =
                         IF Head(mem.queue[M!Peer(p)]) = "end" THEN "done" ELSE "receive"]
    BY Zenon, <1>2, <2>5, TwoReceives
  <2>6. CASE /\ UNCHANGED <<mem.old, mem.got, mem.queue, mem.sent>>
             /\ \E l \in {"join", "send"} : pc' = [pc EXCEPT ![p] = l]
    BY Zenon, <1>2, <2>1, <2>6, TwoQuiet
  <2> QED
    BY Zenon, <1>1, <1>4, <2>2, <2>3, <2>4, <2>5, <2>6, TwoMoves
<1> QED
  BY Zenon, <1>1, <1>3, <1>4, TwoNext

LEMMA InputIsLines ==
  ASSUME NEW input \in Inputs
  PROVE  input \in Seq(Lines)
<1>1. input \in Seq(STRING)
  BY MessagesAssumption
<1> QED
  BY <1>1 DEF Lines

LEMMA TwoStarts ==
  ASSUME program = "two_way_msg", Init
  PROVE  TwoInv
<1>1. \E input \in [M!Proc -> Inputs], old \in [M!Proc -> {<<>>, <<"end">>}] :
        /\ pc = [t \in M!Proc \cup {M!Receiver(p) : p \in M!Proc} |-> IF t \in M!Proc THEN "get" ELSE "none"]
        /\ mem = [input |-> input, queue |-> old, old |-> old,
                  sent |-> [p \in M!Proc |-> <<>>], got |-> [p \in M!Proc |-> <<>>]]
  BY DEF Init, B!Init, C!Init, M!Init, R!Init, L!Init, S!Init, K!Init, B!Start, C!Start,
     M!Start, R!Start, L!Start, S!Start, K!Start, C!Threaded, C!Programs
<1>2. PICK input \in [TwoProc -> Inputs], old \in [TwoProc -> {<<>>, <<"end">>}] :
        /\ pc = [t \in M!Proc \cup {M!Receiver(p) : p \in M!Proc} |-> IF t \in M!Proc THEN "get" ELSE "none"]
        /\ mem = [input |-> input, queue |-> old, old |-> old,
                  sent |-> [p \in TwoProc |-> <<>>], got |-> [p \in TwoProc |-> <<>>]]
  BY Zenon, <1>1, Peers
<1>3. /\ TwoShape /\ mem.input = input /\ mem.queue = old /\ mem.old = old
      /\ mem.sent = [p \in TwoProc |-> <<>>] /\ mem.got = [p \in TwoProc |-> <<>>]
  BY Zenon, <1>2 DEF TwoShape
<1>4. /\ pc \in [TwoThreads -> TwoLabels]
      /\ \A p \in TwoProc : pc[p] = "get" /\ pc[M!Receiver(p)] = "none"
  <2>1. M!Proc \cup {M!Receiver(p) : p \in M!Proc} = TwoThreads
    BY Peers DEF TwoProc, TwoThreads
  <2>2. pc = [t \in TwoThreads |-> IF t \in TwoProc THEN "get" ELSE "none"]
    BY Zenon, <1>2, <2>1, Peers
  <2>3. \A p \in TwoProc : p \in TwoThreads /\ M!Receiver(p) \in TwoThreads /\ M!Receiver(p) \notin TwoProc
    BY Zenon, TwoNames
  <2>4. "get" \in TwoLabels /\ "none" \in TwoLabels
    BY DEF TwoLabels
  <2> QED
    BY Zenon, <2>2, <2>3, <2>4
<1>5. <<>> \in Seq(Lines) /\ <<"end">> \in Seq(Lines)
  BY DEF Lines
<1>6. /\ input \in [TwoProc -> Seq(Lines)] /\ old \in [TwoProc -> Seq(Lines)]
      /\ mem.sent \in [TwoProc -> Seq(Lines)] /\ mem.got \in [TwoProc -> Seq(Lines)]
  <2>1. \A p \in TwoProc : input[p] \in Seq(Lines)
    BY Zenon, InputIsLines
  <2>2. \A p \in TwoProc : old[p] \in Seq(Lines)
    BY Zenon, <1>5
  <2> QED
    BY Zenon, <1>3, <1>5, <2>1, <2>2
<1>7. TwoType
  BY Zenon, <1>3, <1>4, <1>6 DEF TwoType
<1>8. \A s \in Seq(Lines) : <<>> \o s = s /\ s \o <<>> = s
  OBVIOUS
<1>9. ASSUME NEW p \in TwoProc
      PROVE  /\ mem.got[p] \o mem.queue[M!Peer(p)] = mem.old[M!Peer(p)] \o mem.sent[M!Peer(p)]
             /\ EndsAt(mem.got[p], pc[M!Receiver(p)] = "done")
  <2>1. mem.got[p] = <<>> /\ mem.sent[M!Peer(p)] = <<>> /\ old[M!Peer(p)] \in Seq(Lines)
    BY Zenon, <1>3, <1>6, TwoNames
  <2>2. \A done : EndsAt(<<>>, done)
    BY DEF EndsAt
  <2> QED
    BY Zenon, <1>3, <1>8, <2>1, <2>2
<1> QED
  BY Zenon, <1>4, <1>7, <1>9 DEF TwoInv

-----------------------------------------------------------------------------
(* msgsnd and msgrcv *)

MsgLabels == {"get", "send", "done", "failed", "receive", "error"}
MsgShape == mem = [input |-> mem.input, sent |-> mem.sent, got |-> mem.got, queue |-> mem.queue,
                   created |-> mem.created, id |-> mem.id, used |-> mem.used]
MsgType == /\ MsgShape /\ pc \in [{"sender", "receiver"} -> MsgLabels]
           /\ mem.input \in Seq(Lines) /\ mem.sent \in Seq(Lines) /\ mem.got \in Seq(Lines)
           /\ mem.queue \in Seq(Lines)
           /\ mem.created \in Nat /\ DOMAIN mem.used = {"sender", "receiver"}

(* The receiver reads the sender's queue, unless the sender has left: only *)
(* its last step removes a queue, with what is in it.                      *)
MsgIds == /\ pc["sender"] = "done" => mem.queue = <<>>
          /\ pc["receiver"] = "receive" => pc["sender"] = "done" \/ (mem.id # 0 /\ mem.used["receiver"] = mem.id)
          /\ pc["receiver"] = "error" => pc["sender"] = "done"
MsgPrefix == mem.got = SubSeq(mem.sent, 1, Len(mem.got))
MsgOrder == mem.got \o mem.queue = mem.sent \/ pc["sender"] = "done"
MsgEnds == M!Holds(mem.got, "end") => pc["receiver"] = "done"
MsgInv == MsgType /\ MsgIds /\ MsgPrefix /\ MsgOrder /\ MsgEnds

LEMMA MsgNext ==
  ASSUME program = "msgsnd", [Next]_vars, MsgShape
  PROVE  \/ UNCHANGED vars
         \/ M!GetQueue("sender", "send") \/ M!SendAll("sender") \/ M!SendAllFails("sender")
         \/ M!GetQueue("receiver", "receive") \/ M!ReceiveAll("receiver")
<1>1. ~SpuriousWakeup
  BY Zenon DEF SpuriousWakeup, MsgShape
<1>3. M!Next \/ UNCHANGED vars
  BY <1>1 DEF Next, B!Next, C!Next, R!Next, L!Next, S!Next, K!Next, B!Step, C!Step,
     R!Manage, R!Dine, R!Detect, R!Main, L!Step, S!Step, vars,
     C!Programs, C!Threaded, B!PcProducer, B!PcConsumer
<1>4. program # "two_way_msg"
  OBVIOUS
<1> QED
  BY Zenon, <1>3, <1>4 DEF M!Next, M!Step, M!SendFails

LEMMA MsgMoves ==
  ASSUME MsgShape
  PROVE  /\ \A t, to : M!GetQueue(t, to) =>
              /\ MsgShape' /\ UNCHANGED <<mem.input, mem.sent, mem.got, mem.queue>> /\ pc[t] = "get"
              /\ \/ /\ pc' = [pc EXCEPT ![t] = to] /\ mem.id # 0 /\ UNCHANGED <<mem.created, mem.id>>
                    /\ mem'.used = [mem.used EXCEPT ![t] = mem.id]
                 \/ /\ pc' = [pc EXCEPT ![t] = to] /\ mem.id = 0
                    /\ mem'.created = mem.created + 1 /\ mem'.id = mem.created + 1
                    /\ mem'.used = [mem.used EXCEPT ![t] = mem.created + 1]
                 \/ /\ pc' = [pc EXCEPT ![t] = "failed"] /\ UNCHANGED <<mem.created, mem.id, mem.used>>
         /\ M!SendAll("sender") =>
              /\ MsgShape' /\ UNCHANGED <<mem.created, mem.got, mem.used>> /\ pc["sender"] = "send"
              /\ \/ /\ mem.input # <<>> /\ pc' = [pc EXCEPT !["sender"] = "send"] /\ UNCHANGED mem.id
                    /\ mem'.queue = Append(mem.queue, Head(mem.input))
                    /\ mem'.sent = Append(mem.sent, Head(mem.input))
                    /\ mem'.input = Tail(mem.input)
                 \/ /\ pc' = [pc EXCEPT !["sender"] = "done"] /\ mem'.queue = <<>> /\ mem'.id = 0
                    /\ UNCHANGED <<mem.input, mem.sent>>
         /\ M!ReceiveAll("receiver") =>
              /\ MsgShape' /\ UNCHANGED <<mem.created, mem.id, mem.input, mem.sent, mem.used>>
              /\ pc["receiver"] = "receive"
              /\ \/ /\ mem.id # mem.used["receiver"] /\ pc' = [pc EXCEPT !["receiver"] = "error"]
                    /\ UNCHANGED <<mem.queue, mem.got>>
                 \/ /\ mem.id = mem.used["receiver"] /\ mem.queue # <<>>
                    /\ pc' = [pc EXCEPT !["receiver"] =
                                IF Head(mem.queue) = "end" THEN "done" ELSE "receive"]
                    /\ mem'.queue = Tail(mem.queue) /\ mem'.got = Append(mem.got, Head(mem.queue))
<1>1. ASSUME NEW t, NEW to, M!GetQueue(t, to)
      PROVE  /\ MsgShape' /\ UNCHANGED <<mem.input, mem.sent, mem.got, mem.queue>> /\ pc[t] = "get"
             /\ \/ /\ pc' = [pc EXCEPT ![t] = to] /\ mem.id # 0 /\ UNCHANGED <<mem.created, mem.id>>
                   /\ mem'.used = [mem.used EXCEPT ![t] = mem.id]
                \/ /\ pc' = [pc EXCEPT ![t] = to] /\ mem.id = 0
                   /\ mem'.created = mem.created + 1 /\ mem'.id = mem.created + 1
                   /\ mem'.used = [mem.used EXCEPT ![t] = mem.created + 1]
                \/ /\ pc' = [pc EXCEPT ![t] = "failed"] /\ UNCHANGED <<mem.created, mem.id, mem.used>>
  BY Zenon, <1>1 DEF M!GetQueue, M!Goto, M!Move, MsgShape
<1>2. ASSUME M!SendAll("sender")
      PROVE  /\ MsgShape' /\ UNCHANGED <<mem.created, mem.got, mem.used>> /\ pc["sender"] = "send"
             /\ \/ /\ mem.input # <<>> /\ pc' = [pc EXCEPT !["sender"] = "send"] /\ UNCHANGED mem.id
                   /\ mem'.queue = Append(mem.queue, Head(mem.input))
                   /\ mem'.sent = Append(mem.sent, Head(mem.input))
                   /\ mem'.input = Tail(mem.input)
                \/ /\ pc' = [pc EXCEPT !["sender"] = "done"] /\ mem'.queue = <<>> /\ mem'.id = 0
                   /\ UNCHANGED <<mem.input, mem.sent>>
  BY Zenon, <1>2 DEF M!SendAll, M!Goto, M!Move, MsgShape
<1>3. ASSUME M!ReceiveAll("receiver")
      PROVE  /\ MsgShape' /\ UNCHANGED <<mem.created, mem.id, mem.input, mem.sent, mem.used>>
             /\ pc["receiver"] = "receive"
             /\ \/ /\ mem.id # mem.used["receiver"] /\ pc' = [pc EXCEPT !["receiver"] = "error"]
                   /\ UNCHANGED <<mem.queue, mem.got>>
                \/ /\ mem.id = mem.used["receiver"] /\ mem.queue # <<>>
                   /\ pc' = [pc EXCEPT !["receiver"] =
                               IF Head(mem.queue) = "end" THEN "done" ELSE "receive"]
                   /\ mem'.queue = Tail(mem.queue) /\ mem'.got = Append(mem.got, Head(mem.queue))
  BY Zenon, <1>3 DEF M!ReceiveAll, M!Goto, M!Move, MsgShape
<1> QED
  BY Zenon, <1>1, <1>2, <1>3

LEMMA MsgFailMoves ==
  ASSUME MsgShape, M!SendAllFails("sender")
  PROVE  /\ MsgShape' /\ pc["sender"] = "send"
         /\ UNCHANGED <<mem.created, mem.id, mem.used, mem.got, mem.queue, mem.sent>>
         /\ \/ /\ mem.input # <<>> /\ mem'.input = Tail(mem.input)
               /\ pc' = [pc EXCEPT !["sender"] = "send"]
            \/ UNCHANGED mem.input /\ pc' = [pc EXCEPT !["sender"] = "failed"]
BY Zenon DEF M!SendAllFails, M!Goto, M!Move, MsgShape

LEMMA FrontMoves ==
  \A s, t \in Seq(Lines) : t # <<>> => Append(s, Head(t)) \o Tail(t) = s \o t
BY Zenon, HeadMoves

LEMMA HoldsAppended ==
  ASSUME NEW s \in Seq(Lines), NEW line \in Lines, M!Holds(Append(s, line), "end")
  PROVE  M!Holds(s, "end") \/ line = "end"
<1>1. PICK n \in Nat : n = Len(s)
  OBVIOUS
<1>2. /\ DOMAIN Append(s, line) = 1 .. n + 1 /\ DOMAIN s = 1 .. n
      /\ \A k \in 1 .. n : Append(s, line)[k] = s[k]
      /\ Append(s, line)[n + 1] = line
  BY <1>1, AppendFacts
<1>3. \A k \in 1 .. n + 1 : k \in 1 .. n \/ k = n + 1
  OBVIOUS
<1> QED
  BY Zenon, <1>2, <1>3 DEF M!Holds

LEMMA MsgGets ==
  ASSUME MsgInv, NEW t \in {"sender", "receiver"}, NEW to, to = IF t = "sender" THEN "send" ELSE "receive",
         MsgShape', UNCHANGED <<mem.input, mem.sent, mem.got, mem.queue>>, pc[t] = "get",
         \/ /\ pc' = [pc EXCEPT ![t] = to] /\ mem.id # 0 /\ UNCHANGED <<mem.created, mem.id>>
            /\ mem'.used = [mem.used EXCEPT ![t] = mem.id]
         \/ /\ pc' = [pc EXCEPT ![t] = to] /\ mem.id = 0
            /\ mem'.created = mem.created + 1 /\ mem'.id = mem.created + 1
            /\ mem'.used = [mem.used EXCEPT ![t] = mem.created + 1]
         \/ /\ pc' = [pc EXCEPT ![t] = "failed"] /\ UNCHANGED <<mem.created, mem.id, mem.used>>
  PROVE  MsgInv'
<1>1. /\ pc \in [{"sender", "receiver"} -> MsgLabels] /\ mem.created \in Nat
      /\ DOMAIN mem.used = {"sender", "receiver"}
  BY Zenon DEF MsgInv, MsgType
<1>2. /\ pc' \in [{"sender", "receiver"} -> MsgLabels] /\ mem'.created \in Nat
      /\ DOMAIN mem'.used = {"sender", "receiver"}
  BY <1>1 DEF MsgLabels
<1>3. MsgType'
  BY Zenon, <1>2 DEF MsgInv, MsgType
<1>4. MsgIds'
  BY <1>1 DEF MsgInv, MsgIds
<1>5. \A u \in {"sender", "receiver"} : pc'[u] = pc[u] \/ pc[u] = "get"
  BY <1>1
<1>6. MsgPrefix' /\ MsgOrder' /\ MsgEnds'
  <2>1. MsgPrefix' /\ (pc["sender"] = "done" => pc'["sender"] = "done")
        /\ (pc["receiver"] = "done" => pc'["receiver"] = "done")
    <3>1. "get" # "done"
      OBVIOUS
    <3> QED
      BY Zenon, <1>5, <3>1 DEF MsgInv, MsgPrefix
  <2> QED
    BY ZenonT(40), <2>1 DEF MsgInv, MsgOrder, MsgEnds, M!Holds
<1> QED
  BY Zenon, <1>3, <1>4, <1>6 DEF MsgInv

LEMMA MsgSends ==
  ASSUME MsgInv, MsgShape', UNCHANGED <<mem.created, mem.got, mem.used>>, pc["sender"] = "send",
         \/ /\ mem.input # <<>> /\ pc' = [pc EXCEPT !["sender"] = "send"] /\ UNCHANGED mem.id
            /\ mem'.queue = Append(mem.queue, Head(mem.input))
            /\ mem'.sent = Append(mem.sent, Head(mem.input))
            /\ mem'.input = Tail(mem.input)
         \/ /\ pc' = [pc EXCEPT !["sender"] = "done"] /\ mem'.queue = <<>> /\ mem'.id = 0
            /\ UNCHANGED <<mem.input, mem.sent>>
  PROVE  MsgInv'
<1>1. /\ pc \in [{"sender", "receiver"} -> MsgLabels] /\ mem.input \in Seq(Lines) /\ mem.sent \in Seq(Lines)
      /\ mem.got \in Seq(Lines) /\ mem.queue \in Seq(Lines)
  BY Zenon DEF MsgInv, MsgType
<1>2. /\ pc' \in [{"sender", "receiver"} -> MsgLabels] /\ pc'["receiver"] = pc["receiver"]
      /\ pc'["sender"] \in {"send", "done"} /\ ("send" # "done")
  BY <1>1 DEF MsgLabels
<1>3. MsgEnds'
  BY Zenon, <1>2 DEF MsgInv, MsgEnds, M!Holds
<1>4. CASE /\ mem.input # <<>> /\ pc' = [pc EXCEPT !["sender"] = "send"] /\ UNCHANGED mem.id
           /\ mem'.queue = Append(mem.queue, Head(mem.input))
           /\ mem'.sent = Append(mem.sent, Head(mem.input))
           /\ mem'.input = Tail(mem.input)
  <2> DEFINE line == Head(mem.input)
  <2>1. line \in Lines /\ Tail(mem.input) \in Seq(Lines)
    BY <1>1, <1>4
  <2>2. mem'.queue = Append(mem.queue, line) /\ mem'.sent = Append(mem.sent, line) /\ mem'.input = Tail(mem.input)
    BY Zenon, <1>4
  <2> HIDE DEF line
  <2>3. Append(mem.queue, line) \in Seq(Lines) /\ Append(mem.sent, line) \in Seq(Lines)
    BY <1>1, <2>1
  <2>4. MsgType'
    BY Zenon, <1>2, <2>1, <2>2, <2>3 DEF MsgInv, MsgType
  <2>5. MsgIds'
    BY <1>1, <1>2, <1>4 DEF MsgInv, MsgIds
  <2>6. pc["sender"] # "done"
    OBVIOUS
  <2>7. mem.got \o mem.queue = mem.sent
    BY Zenon, <2>6 DEF MsgInv, MsgOrder
  <2>8. mem.got \o Append(mem.queue, line) = Append(mem.sent, line)
    <3>1. \A s, t \in Seq(Lines) : s \o Append(t, line) = Append(s \o t, line)
      BY SMTT(30), <2>1
    <3>2. mem.got \o Append(mem.queue, line) = Append(mem.got \o mem.queue, line)
      BY Zenon, <1>1, <3>1
    <3> QED
      BY Zenon, <2>7, <3>2
  <2>9. MsgOrder'
    BY Zenon, <2>2, <2>8 DEF MsgOrder
  <2>10. MsgPrefix'
    <3>1. mem.got = SubSeq(mem.got \o Append(mem.queue, line), 1, Len(mem.got))
      BY Zenon, <1>1, <2>3, PrefixOfConcat
    <3> QED
      BY Zenon, <2>2, <2>8, <3>1 DEF MsgPrefix
  <2> QED
    BY Zenon, <1>3, <2>4, <2>5, <2>9, <2>10 DEF MsgInv
<1>5. CASE /\ pc' = [pc EXCEPT !["sender"] = "done"] /\ mem'.queue = <<>> /\ mem'.id = 0
           /\ UNCHANGED <<mem.input, mem.sent>>
  <2>1. pc'["sender"] = "done"
    BY Zenon, <1>1, <1>5
  <2>2. <<>> \in Seq(Lines)
    OBVIOUS
  <2>3. MsgType'
    BY Zenon, <1>2, <1>5, <2>2 DEF MsgInv, MsgType
  <2>4. MsgIds' /\ MsgOrder'
    BY Zenon, <1>5, <2>1 DEF MsgIds, MsgOrder
  <2>5. MsgPrefix'
    BY Zenon, <1>5 DEF MsgInv, MsgPrefix
  <2> QED
    BY Zenon, <1>3, <2>3, <2>4, <2>5 DEF MsgInv
<1> QED
  BY Zenon, <1>4, <1>5

LEMMA MsgFails ==
  ASSUME MsgInv, M!SendAllFails("sender")
  PROVE  MsgInv'
<1>0. MsgShape
  BY Zenon DEF MsgInv, MsgType
<1>1. /\ MsgShape' /\ pc["sender"] = "send"
      /\ UNCHANGED <<mem.created, mem.id, mem.used, mem.got, mem.queue, mem.sent>>
      /\ \/ /\ mem.input # <<>> /\ mem'.input = Tail(mem.input)
            /\ pc' = [pc EXCEPT !["sender"] = "send"]
         \/ UNCHANGED mem.input /\ pc' = [pc EXCEPT !["sender"] = "failed"]
  BY Zenon, <1>0, MsgFailMoves
<1>2. pc \in [{"sender", "receiver"} -> MsgLabels] /\ mem.input \in Seq(Lines)
  BY Zenon DEF MsgInv, MsgType
<1>3. /\ pc' \in [{"sender", "receiver"} -> MsgLabels] /\ pc'["receiver"] = pc["receiver"]
      /\ pc'["sender"] # "done" /\ pc["sender"] # "done"
  BY <1>1, <1>2 DEF MsgLabels
<1>4. mem'.input \in Seq(Lines)
  <2>1. \A s \in Seq(Lines) : s # <<>> => Tail(s) \in Seq(Lines)
    OBVIOUS
  <2> QED
    BY Zenon, <1>1, <1>2, <2>1
<1>5. MsgType'
  BY Zenon, <1>1, <1>3, <1>4 DEF MsgInv, MsgType
<1>6. MsgIds' /\ MsgPrefix' /\ MsgOrder'
  BY Zenon, <1>1, <1>3 DEF MsgInv, MsgIds, MsgPrefix, MsgOrder
<1>7. MsgEnds'
  BY Zenon, <1>1, <1>3 DEF MsgInv, MsgEnds, M!Holds
<1> QED
  BY Zenon, <1>5, <1>6, <1>7 DEF MsgInv

LEMMA MsgReceives ==
  ASSUME MsgInv, MsgShape', UNCHANGED <<mem.created, mem.id, mem.input, mem.sent, mem.used>>,
         pc["receiver"] = "receive",
         \/ /\ mem.id # mem.used["receiver"] /\ pc' = [pc EXCEPT !["receiver"] = "error"]
            /\ UNCHANGED <<mem.queue, mem.got>>
         \/ /\ mem.id = mem.used["receiver"] /\ mem.queue # <<>>
            /\ pc' = [pc EXCEPT !["receiver"] = IF Head(mem.queue) = "end" THEN "done" ELSE "receive"]
            /\ mem'.queue = Tail(mem.queue) /\ mem'.got = Append(mem.got, Head(mem.queue))
  PROVE  MsgInv'
<1>1. /\ pc \in [{"sender", "receiver"} -> MsgLabels] /\ mem.sent \in Seq(Lines)
      /\ mem.got \in Seq(Lines) /\ mem.queue \in Seq(Lines)
  BY Zenon DEF MsgInv, MsgType
<1>2. pc' \in [{"sender", "receiver"} -> MsgLabels] /\ pc'["sender"] = pc["sender"]
  BY <1>1 DEF MsgLabels
<1>3. ~M!Holds(mem.got, "end") /\ "receive" # "done"
  <2>1. pc["receiver"] # "done" /\ "receive" # "done"
    OBVIOUS
  <2> QED
    BY Zenon, <2>1 DEF MsgInv, MsgEnds
<1>4. CASE /\ mem.id # mem.used["receiver"] /\ pc' = [pc EXCEPT !["receiver"] = "error"]
           /\ UNCHANGED <<mem.queue, mem.got>>
  <2>1. MsgIds'
    BY <1>1, <1>4 DEF MsgInv, MsgIds
  <2>2. MsgType'
    BY Zenon, <1>2, <1>4 DEF MsgInv, MsgType
  <2>3. MsgPrefix' /\ MsgOrder'
    BY Zenon, <1>2, <1>4 DEF MsgInv, MsgPrefix, MsgOrder
  <2>4. MsgEnds'
    BY Zenon, <1>3, <1>4 DEF MsgEnds, M!Holds
  <2> QED
    BY Zenon, <2>1, <2>2, <2>3, <2>4 DEF MsgInv
<1>5. CASE /\ mem.id = mem.used["receiver"] /\ mem.queue # <<>>
           /\ pc' = [pc EXCEPT !["receiver"] = IF Head(mem.queue) = "end" THEN "done" ELSE "receive"]
           /\ mem'.queue = Tail(mem.queue) /\ mem'.got = Append(mem.got, Head(mem.queue))
  <2> DEFINE line == Head(mem.queue)
  <2>1. line \in Lines /\ Tail(mem.queue) \in Seq(Lines)
    BY <1>1, <1>5
  <2>2. Append(mem.got, line) \in Seq(Lines)
    BY <1>1, <2>1
  <2>3. mem'.queue = Tail(mem.queue) /\ mem'.got = Append(mem.got, line)
    BY Zenon, <1>5
  <2>4. pc'["receiver"] = IF line = "end" THEN "done" ELSE "receive"
    BY Zenon, <1>1, <1>5
  <2>5. mem'.got \o mem'.queue = mem.got \o mem.queue
    <3>1. mem.queue # <<>>
      BY Zenon, <1>5
    <3>2. Append(mem.got, Head(mem.queue)) \o Tail(mem.queue) = mem.got \o mem.queue
      BY Zenon, <1>1, <3>1, FrontMoves
    <3> QED
      BY Zenon, <2>3, <3>2
  <2> HIDE DEF line
  <2>6. MsgType'
    BY Zenon, <1>2, <2>1, <2>2, <2>3 DEF MsgInv, MsgType
  <2>7. pc["sender"] # "done"
    BY Zenon, <1>5 DEF MsgInv, MsgIds
  <2>8. MsgIds'
    <3>1. mem.id # 0 /\ mem.used["receiver"] = mem.id
      BY Zenon, <2>7 DEF MsgInv, MsgIds
    <3>2. pc'["receiver"] # "error"
      BY <2>4
    <3> QED
      BY Zenon, <1>2, <2>7, <3>1, <3>2 DEF MsgIds
  <2>9. mem.got \o mem.queue = mem.sent
    BY Zenon, <2>7 DEF MsgInv, MsgOrder
  <2>10. MsgOrder'
    BY Zenon, <2>5, <2>9 DEF MsgOrder
  <2>11. MsgPrefix'
    <3>1. mem'.got = SubSeq(mem'.got \o mem'.queue, 1, Len(mem'.got))
      BY ZenonT(40), <2>1, <2>2, <2>3, PrefixOfConcat
    <3> QED
      BY Zenon, <2>5, <2>9, <3>1 DEF MsgPrefix
  <2>12. MsgEnds'
    <3>1. M!Holds(Append(mem.got, line), "end") => line = "end"
      BY Zenon, <1>1, <1>3, <2>1, HoldsAppended
    <3>2. M!Holds(mem.got, "end")' = M!Holds(Append(mem.got, line), "end")
      BY Zenon, <2>3 DEF M!Holds
    <3> QED
      BY Zenon, <2>4, <3>1, <3>2 DEF MsgEnds
  <2> QED
    BY Zenon, <2>6, <2>8, <2>10, <2>11, <2>12 DEF MsgInv
<1> QED
  BY Zenon, <1>4, <1>5

LEMMA MsgKeeps ==
  ASSUME program = "msgsnd", MsgInv, [Next]_vars
  PROVE  MsgInv'
<1>1. MsgShape
  BY Zenon DEF MsgInv, MsgType
<1>2. CASE UNCHANGED vars
  BY Zenon, <1>2 DEF vars, MsgInv, MsgType, MsgShape, MsgIds, MsgPrefix, MsgOrder, MsgEnds, M!Holds
<1>3. CASE M!GetQueue("sender", "send")
  <2>1. "send" = IF "sender" = "sender" THEN "send" ELSE "receive"
    OBVIOUS
  <2>2. /\ MsgShape' /\ UNCHANGED <<mem.input, mem.sent, mem.got, mem.queue>> /\ pc["sender"] = "get"
        /\ \/ /\ pc' = [pc EXCEPT !["sender"] = "send"] /\ mem.id # 0 /\ UNCHANGED <<mem.created, mem.id>>
              /\ mem'.used = [mem.used EXCEPT !["sender"] = mem.id]
           \/ /\ pc' = [pc EXCEPT !["sender"] = "send"] /\ mem.id = 0
              /\ mem'.created = mem.created + 1 /\ mem'.id = mem.created + 1
              /\ mem'.used = [mem.used EXCEPT !["sender"] = mem.created + 1]
           \/ /\ pc' = [pc EXCEPT !["sender"] = "failed"] /\ UNCHANGED <<mem.created, mem.id, mem.used>>
    BY Zenon, <1>1, <1>3, MsgMoves
  <2>3. "sender" \in {"sender", "receiver"}
    OBVIOUS
  <2> QED
    BY Zenon, <2>1, <2>2, <2>3, MsgGets
<1>4. CASE M!GetQueue("receiver", "receive")
  <2>1. "receive" = IF "receiver" = "sender" THEN "send" ELSE "receive"
    OBVIOUS
  <2>2. /\ MsgShape' /\ UNCHANGED <<mem.input, mem.sent, mem.got, mem.queue>> /\ pc["receiver"] = "get"
        /\ \/ /\ pc' = [pc EXCEPT !["receiver"] = "receive"] /\ mem.id # 0 /\ UNCHANGED <<mem.created, mem.id>>
              /\ mem'.used = [mem.used EXCEPT !["receiver"] = mem.id]
           \/ /\ pc' = [pc EXCEPT !["receiver"] = "receive"] /\ mem.id = 0
              /\ mem'.created = mem.created + 1 /\ mem'.id = mem.created + 1
              /\ mem'.used = [mem.used EXCEPT !["receiver"] = mem.created + 1]
           \/ /\ pc' = [pc EXCEPT !["receiver"] = "failed"] /\ UNCHANGED <<mem.created, mem.id, mem.used>>
    BY Zenon, <1>1, <1>4, MsgMoves
  <2>3. "receiver" \in {"sender", "receiver"}
    OBVIOUS
  <2> QED
    BY Zenon, <2>1, <2>2, <2>3, MsgGets
<1>5. CASE M!SendAll("sender")
  BY Zenon, <1>1, <1>5, MsgMoves, MsgSends
<1>6. CASE M!ReceiveAll("receiver")
  BY Zenon, <1>1, <1>6, MsgMoves, MsgReceives
<1>7. CASE M!SendAllFails("sender")
  BY Zenon, <1>7, MsgFails
<1> QED
  BY Zenon, <1>1, <1>2, <1>3, <1>4, <1>5, <1>6, <1>7, MsgNext

LEMMA MsgStarts ==
  ASSUME program = "msgsnd", Init
  PROVE  MsgInv
<1>1. PICK input \in Inputs :
        /\ pc = [t \in {"sender", "receiver"} |-> "get"]
        /\ mem = [input |-> input \o <<"end">>, sent |-> <<>>, got |-> <<>>, queue |-> <<>>,
                  created |-> 0, id |-> 0, used |-> [t \in {"sender", "receiver"} |-> 0]]
  BY DEF Init, B!Init, C!Init, M!Init, R!Init, L!Init, S!Init, K!Init, B!Start, C!Start,
     M!Start, R!Start, L!Start, S!Start, K!Start, C!Threaded, C!Programs
<1>2. /\ MsgShape /\ mem.input = input \o <<"end">> /\ mem.sent = <<>> /\ mem.got = <<>>
      /\ mem.queue = <<>> /\ mem.created = 0 /\ mem.used = [t \in {"sender", "receiver"} |-> 0]
  BY Zenon, <1>1 DEF MsgShape
<1>3. <<>> \in Seq(Lines) /\ <<"end">> \in Seq(Lines)
  BY DEF Lines
<1>4. input \o <<"end">> \in Seq(Lines)
  BY <1>3, InputIsLines
<1>5. pc \in [{"sender", "receiver"} -> MsgLabels] /\ pc["sender"] = "get" /\ pc["receiver"] = "get"
  BY <1>1 DEF MsgLabels
<1>6. 0 \in Nat /\ "get" # "done" /\ "get" # "receive" /\ "get" # "error"
      /\ <<>> \o <<>> = <<>> /\ <<>> = SubSeq(<<>>, 1, Len(<<>>)) /\ ~M!Holds(<<>>, "end")
  BY DEF M!Holds
<1>7. MsgType
  BY Zenon, <1>2, <1>3, <1>4, <1>5, <1>6 DEF MsgType
<1> QED
  BY Zenon, <1>2, <1>5, <1>6, <1>7 DEF MsgInv, MsgIds, MsgPrefix, MsgOrder, MsgEnds

LEMMA MessagesInOrder ==
  ASSUME program = "two_way_msg" => TwoInv, program = "msgsnd" => MsgInv
  PROVE  M!InOrder
<1>1. ASSUME program = "two_way_msg"
      PROVE  \A p \in M!Proc :
               /\ mem.got[p] \o mem.queue[M!Peer(p)] = mem.old[M!Peer(p)] \o mem.sent[M!Peer(p)]
               /\ \A k \in DOMAIN mem.got[p] : mem.got[p][k] = "end" <=>
                    (k = Len(mem.got[p]) /\ pc[M!Receiver(p)] = "done")
  BY Zenon, <1>1, Peers DEF TwoInv, EndsAt
<1>2. ASSUME program = "msgsnd"
      PROVE  /\ mem.got = SubSeq(mem.sent, 1, Len(mem.got))
             /\ mem.got \o mem.queue = mem.sent \/ pc["sender"] = "done"
             /\ pc["receiver"] = "error" => (pc["sender"] = "done" /\ ~M!Holds(mem.got, "end"))
  <2>1. "error" # "done"
    OBVIOUS
  <2> QED
    BY Zenon, <1>2, <2>1 DEF MsgInv, MsgIds, MsgPrefix, MsgOrder, MsgEnds
<1> QED
  BY Zenon, <1>1, <1>2 DEF M!InOrder

-----------------------------------------------------------------------------
(* ex1seqlock *)

PairLabels == {"lock", "begin", "store1", "store2", "end", "unlock", "done", "copy1", "copy2", "same", "changed"}
PairShape == mem = [lock |-> mem.lock, sequence |-> mem.sequence, value |-> mem.value, writes |-> mem.writes,
                    seq |-> mem.seq, copy |-> mem.copy]
PairType == /\ PairShape /\ pc \in [{"writer", "reader"} -> PairLabels]
            /\ mem.sequence \in Nat /\ mem.seq \in Nat
            /\ DOMAIN mem.value = {1, 2} /\ DOMAIN mem.copy = {1, 2}

(* The sequence is odd while the writer writes; while it is the one the    *)
(* reader took, what the reader has copied is what there is.               *)
Writing == {"store1", "store2", "end"}
PairInv == /\ PairType
           /\ mem.sequence % 2 = IF pc["writer"] \in Writing THEN 1 ELSE 0
           /\ IF pc["writer"] = "store2" THEN mem.value[1] = mem.writes ELSE mem.value[1] = mem.value[2]
           /\ mem.seq % 2 = 0 /\ mem.seq <= mem.sequence
           /\ pc["reader"] \in {"copy2", "unlock"} /\ mem.seq = mem.sequence => mem.copy[1] = mem.value[1]
           /\ pc["reader"] = "unlock" /\ mem.seq = mem.sequence => mem.copy[2] = mem.value[2]
           /\ pc["reader"] = "same" => mem.copy[1] = mem.copy[2]

LEMMA PairNext ==
  ASSUME program = "ex1seqlock", [Next]_vars, PairShape
  PROVE  L!WriterStep("writer") \/ L!ReaderStep("reader") \/ UNCHANGED vars
<1>1. ~SpuriousWakeup
  BY Zenon DEF SpuriousWakeup, PairShape
<1>2. L!Next \/ UNCHANGED vars
  BY <1>1 DEF Next, B!Next, C!Next, M!Next, R!Next, S!Next, K!Next, B!Step, C!Step, M!Step, M!SendFails,
     R!Manage, R!Dine, R!Detect, R!Main, S!Step, vars,
     C!Programs, C!Threaded, B!PcProducer, B!PcConsumer
<1>3. program # "lock_free"
  OBVIOUS
<1> QED
  BY Zenon, <1>2, <1>3 DEF L!Next, L!Step

LEMMA PairWriterMoves ==
  ASSUME PairShape, L!WriterStep("writer")
  PROVE  /\ PairShape' /\ UNCHANGED <<mem.seq, mem.copy>>
         /\ \/ /\ pc["writer"] = "lock" /\ UNCHANGED <<mem.sequence, mem.value, mem.writes>>
               /\ \E l \in {"begin", "done"} : pc' = [pc EXCEPT !["writer"] = l]
            \/ /\ pc["writer"] = "begin" /\ pc' = [pc EXCEPT !["writer"] = "store1"]
               /\ mem'.sequence = mem.sequence + 1 /\ UNCHANGED mem.value
            \/ /\ pc["writer"] = "store1" /\ pc' = [pc EXCEPT !["writer"] = "store2"]
               /\ mem'.value = [mem.value EXCEPT ![1] = mem.writes] /\ UNCHANGED <<mem.sequence, mem.writes>>
            \/ /\ pc["writer"] = "store2" /\ pc' = [pc EXCEPT !["writer"] = "end"]
               /\ mem'.value = [mem.value EXCEPT ![2] = mem.writes] /\ UNCHANGED <<mem.sequence, mem.writes>>
            \/ /\ pc["writer"] = "end" /\ pc' = [pc EXCEPT !["writer"] = "unlock"]
               /\ mem'.sequence = mem.sequence + 1 /\ UNCHANGED <<mem.value, mem.writes>>
            \/ /\ pc["writer"] = "unlock" /\ pc' = [pc EXCEPT !["writer"] = "lock"]
               /\ UNCHANGED <<mem.sequence, mem.value, mem.writes>>
BY Zenon DEF PairShape, L!WriterStep, L!Lock, L!Unlock, L!Move, L!Goto

LEMMA PairReaderMoves ==
  ASSUME PairShape, L!ReaderStep("reader")
  PROVE  /\ PairShape' /\ UNCHANGED <<mem.sequence, mem.value, mem.writes>>
         /\ \/ /\ pc["reader"] = "lock" /\ pc' = [pc EXCEPT !["reader"] = "copy1"]
               /\ mem.sequence % 2 = 0 /\ mem'.seq = mem.sequence /\ UNCHANGED mem.copy
            \/ /\ pc["reader"] = "copy1" /\ pc' = [pc EXCEPT !["reader"] = "copy2"]
               /\ mem'.copy = [mem.copy EXCEPT ![1] = mem.value[1]] /\ UNCHANGED mem.seq
            \/ /\ pc["reader"] = "copy2" /\ pc' = [pc EXCEPT !["reader"] = "unlock"]
               /\ mem'.copy = [mem.copy EXCEPT ![2] = mem.value[2]] /\ UNCHANGED mem.seq
            \/ /\ pc["reader"] = "unlock" /\ UNCHANGED <<mem.copy, mem.seq>>
               /\ pc' = [pc EXCEPT !["reader"] = IF mem.sequence = mem.seq THEN "same" ELSE "changed"]
<1>1. CASE L!Goto("reader", "unlock", IF mem.sequence = mem.seq THEN "same" ELSE "changed")
  BY Zenon, <1>1 DEF PairShape, L!Move, L!Goto
<1>2. CASE ~L!Goto("reader", "unlock", IF mem.sequence = mem.seq THEN "same" ELSE "changed")
  BY Zenon, <1>2 DEF PairShape, L!ReaderStep, L!Move
<1> QED
  BY Zenon, <1>1, <1>2

LEMMA PairKeeps ==
  ASSUME program = "ex1seqlock", PairInv, [Next]_vars
  PROVE  PairInv'
<1>1. PairShape
  BY Zenon DEF PairInv, PairType
<1>2. CASE UNCHANGED vars
  BY Zenon, <1>2 DEF vars, PairInv, PairType, PairShape
<1>3. CASE L!WriterStep("writer")
  BY <1>1, <1>3, PairWriterMoves DEF PairInv, PairType, Writing, PairLabels
<1>4. CASE L!ReaderStep("reader")
  BY <1>1, <1>4, PairReaderMoves DEF PairInv, PairType, Writing, PairLabels
<1> QED
  BY Zenon, <1>1, <1>2, <1>3, <1>4, PairNext

LEMMA PairStarts ==
  ASSUME program = "ex1seqlock", Init
  PROVE  PairInv
<1>1. /\ pc = [t \in {"writer", "reader"} |-> "lock"]
      /\ mem = [lock |-> Free, sequence |-> 0, value |-> <<0, 0>>, writes |-> 0,
                seq |-> 0, copy |-> <<0, 0>>]
  BY DEF Init, B!Init, C!Init, M!Init, R!Init, L!Init, S!Init, K!Init, B!Start, C!Start,
     M!Start, R!Start, L!Start, S!Start, K!Start, C!Threaded, C!Programs
<1>2. PairShape
  BY Zenon, <1>1 DEF PairShape
<1> QED
  BY <1>1, <1>2 DEF PairInv, PairType, Writing, PairLabels

-----------------------------------------------------------------------------
(* lock_free: the stack *)

(* The nodes of a stack from its bottom, s[1], to its head, s[n]. *)
IsStack(head, next, in, s, n) ==
  /\ s \in [1 .. n -> Nodes] /\ in = {s[k] : k \in 1 .. n}
  /\ \A j, k \in 1 .. n : s[j] = s[k] => j = k
  /\ head = IF n = 0 THEN 0 ELSE s[n]
  /\ \A k \in 1 .. n : next[s[k]] = IF k = 1 THEN 0 ELSE s[k - 1]
Stack(head, next, in) == \E n \in Nat : \E s \in [1 .. n -> Nodes] : IsStack(head, next, in, s, n)

LEMMA EmptyStack ==
  ASSUME NEW next
  PROVE  Stack(0, next, {})
<1>1. 0 \in Nat /\ IsStack(0, next, {}, [k \in 1 .. 0 |-> 0], 0)
  BY DEF IsStack
<1>2. [k \in 1 .. 0 |-> 0] \in [1 .. 0 -> Nodes]
  OBVIOUS
<1> QED
  BY Zenon, <1>1, <1>2 DEF Stack

LEMMA StackHead ==
  ASSUME NEW head, NEW next, NEW in, Stack(head, next, in)
  PROVE  /\ in \subseteq Nodes /\ (head = 0 <=> in = {}) /\ (head # 0 => head \in in)
<1>1. PICK n \in Nat : \E s \in [1 .. n -> Nodes] : IsStack(head, next, in, s, n)
  BY Zenon DEF Stack
<1>2. PICK s \in [1 .. n -> Nodes] : IsStack(head, next, in, s, n)
  BY Zenon, <1>1
<1> QED
  BY <1>2, LockFreeAssumption DEF IsStack

(* A node that is not on the stack may be linked anywhere. *)
LEMMA StackElsewhere ==
  ASSUME NEW head, NEW next \in [Nodes -> Nodes \cup {0}], NEW in, Stack(head, next, in),
         NEW node, node \notin in, NEW to
  PROVE  Stack(head, [next EXCEPT ![node] = to], in)
<1>1. PICK n \in Nat : \E s \in [1 .. n -> Nodes] : IsStack(head, next, in, s, n)
  BY Zenon DEF Stack
<1>2. PICK s \in [1 .. n -> Nodes] : IsStack(head, next, in, s, n)
  BY Zenon, <1>1
<1>3. \A k \in 1 .. n : s[k] # node
  BY <1>2 DEF IsStack
<1>4. IsStack(head, [next EXCEPT ![node] = to], in, s, n)
  BY <1>2, <1>3 DEF IsStack
<1> QED
  BY Zenon, <1>4 DEF Stack

LEMMA StackPushed ==
  ASSUME NEW head, NEW next, NEW in, Stack(head, next, in), NEW node \in Nodes, node \notin in,
         next[node] = head
  PROVE  Stack(node, next, in \cup {node})
<1>1. PICK n \in Nat : \E s \in [1 .. n -> Nodes] : IsStack(head, next, in, s, n)
  BY Zenon DEF Stack
<1>2. PICK s \in [1 .. n -> Nodes] : IsStack(head, next, in, s, n)
  BY Zenon, <1>1
<1> DEFINE t == [k \in 1 .. n + 1 |-> IF k = n + 1 THEN node ELSE s[k]]
<1>3. /\ t \in [1 .. n + 1 -> Nodes] /\ t[n + 1] = node /\ \A k \in 1 .. n : t[k] = s[k]
      /\ 1 .. n + 1 = (1 .. n) \cup {n + 1} /\ n + 1 \in Nat /\ n + 1 # 0
  OBVIOUS
<1> HIDE DEF t
<1>4. /\ in = {s[k] : k \in 1 .. n}
      /\ \A j, k \in 1 .. n : s[j] = s[k] => j = k
      /\ head = IF n = 0 THEN 0 ELSE s[n]
      /\ \A k \in 1 .. n : next[s[k]] = IF k = 1 THEN 0 ELSE s[k - 1]
  BY Zenon, <1>2 DEF IsStack
<1>5. in \cup {node} = {t[k] : k \in 1 .. n + 1}
  BY <1>3, <1>4
<1>6. \A k \in 1 .. n : s[k] # node
  BY <1>4
<1>7. \A j, k \in 1 .. n + 1 : t[j] = t[k] => j = k
  BY <1>3, <1>4, <1>6
<1>8. \A k \in 1 .. n + 1 : next[t[k]] = IF k = 1 THEN 0 ELSE t[k - 1]
  <2>1. ASSUME NEW k \in 1 .. n PROVE next[t[k]] = IF k = 1 THEN 0 ELSE t[k - 1]
    <3>1. k = 1 \/ k - 1 \in 1 .. n
      OBVIOUS
    <3> QED
      BY <1>3, <1>4, <3>1
  <2>2. next[t[n + 1]] = IF n + 1 = 1 THEN 0 ELSE t[(n + 1) - 1]
    <3>1. n = 0 \/ (n \in 1 .. n /\ n + 1 # 1)
      OBVIOUS
    <3>2. (n + 1) - 1 = n
      OBVIOUS
    <3> QED
      BY <1>3, <1>4, <3>1, <3>2
  <2> QED
    BY <1>3, <2>1, <2>2
<1>9. IsStack(node, next, in \cup {node}, t, n + 1)
  BY Zenon, <1>3, <1>5, <1>7, <1>8 DEF IsStack
<1> QED
  BY Zenon, <1>3, <1>9 DEF Stack

LEMMA StackPopped ==
  ASSUME NEW head, NEW next, NEW in, Stack(head, next, in), head # 0
  PROVE  Stack(next[head], next, in \ {head})
<1>1. PICK n \in Nat : \E s \in [1 .. n -> Nodes] : IsStack(head, next, in, s, n)
  BY Zenon DEF Stack
<1>2. PICK s \in [1 .. n -> Nodes] : IsStack(head, next, in, s, n)
  BY Zenon, <1>1
<1>3. /\ in = {s[k] : k \in 1 .. n}
      /\ \A j, k \in 1 .. n : s[j] = s[k] => j = k
      /\ head = IF n = 0 THEN 0 ELSE s[n]
      /\ \A k \in 1 .. n : next[s[k]] = IF k = 1 THEN 0 ELSE s[k - 1]
  BY Zenon, <1>2 DEF IsStack
<1>4. PICK m \in Nat : n = m + 1
  <2>1. n # 0
    BY <1>3
  <2>2. n - 1 \in Nat /\ n = (n - 1) + 1
    BY <2>1
  <2> QED
    BY Zenon, <2>2
<1> DEFINE t == [k \in 1 .. m |-> s[k]]
<1>5. /\ t \in [1 .. m -> Nodes] /\ \A k \in 1 .. m : t[k] = s[k] /\ k \in 1 .. n /\ k # n
      /\ 1 .. n = (1 .. m) \cup {n}
  BY <1>4
<1> HIDE DEF t
<1>6. head = s[n] /\ n \in 1 .. n
  BY <1>3, <1>4
<1>7. in \ {head} = {t[k] : k \in 1 .. m}
  BY <1>3, <1>5, <1>6
<1>8. \A j, k \in 1 .. m : t[j] = t[k] => j = k
  BY Zenon, <1>3, <1>5
<1>9. next[head] = IF m = 0 THEN 0 ELSE t[m]
  <2>1. next[head] = IF n = 1 THEN 0 ELSE s[n - 1]
    BY Zenon, <1>3, <1>6
  <2>2. (n = 1 <=> m = 0) /\ n - 1 = m /\ (m # 0 => m \in 1 .. m)
    BY <1>4
  <2> QED
    BY Zenon, <1>5, <2>1, <2>2
<1>10. \A k \in 1 .. m : next[t[k]] = IF k = 1 THEN 0 ELSE t[k - 1]
  <2> TAKE k \in 1 .. m
  <2>1. next[s[k]] = IF k = 1 THEN 0 ELSE s[k - 1]
    BY Zenon, <1>3, <1>5
  <2>2. k = 1 \/ k - 1 \in 1 .. m
    BY <1>4
  <2> QED
    BY Zenon, <1>5, <2>1, <2>2
<1>11. IsStack(next[head], next, in \ {head}, t, m)
  BY Zenon, <1>5, <1>7, <1>8, <1>9, <1>10 DEF IsStack
<1> QED
  BY Zenon, <1>5, <1>11 DEF Stack

(* The nodes that k links lead to are the k + 1 upper ones. *)
IsChain(f, head, next, c) ==
  f = [k \in 0 .. c |-> IF k = 0 THEN {head} \ {0}
                        ELSE f[k - 1] \cup ({next[n] : n \in f[k - 1]} \ {0})]
Upper(s, n, k) == {s[j] : j \in {i \in 1 .. n : i >= n - k}}

LEMMA UpperStep ==
  ASSUME NEW head, NEW next, NEW in, NEW n \in Nat, NEW s \in [1 .. n -> Nodes],
         IsStack(head, next, in, s, n), NEW k \in Nat, k # 0
  PROVE  Upper(s, n, k) = Upper(s, n, k - 1) \cup ({next[m] : m \in Upper(s, n, k - 1)} \ {0})
<1>1. \A j \in 1 .. n : s[j] # 0 /\ next[s[j]] = IF j = 1 THEN 0 ELSE s[j - 1]
  BY LockFreeAssumption DEF IsStack
<1>2. ASSUME NEW j \in 1 .. n, j >= n - k
      PROVE  s[j] \in Upper(s, n, k - 1) \cup ({next[m] : m \in Upper(s, n, k - 1)} \ {0})
  <2>1. CASE j >= n - (k - 1)
    BY <2>1 DEF Upper
  <2>2. CASE ~(j >= n - (k - 1))
    <3>1. j + 1 \in 1 .. n /\ j + 1 >= n - (k - 1) /\ j + 1 # 1 /\ (j + 1) - 1 = j
      BY <1>2, <2>2
    <3>2. next[s[j + 1]] = s[j] /\ s[j] # 0
      BY <1>1, <3>1
    <3>3. s[j + 1] \in Upper(s, n, k - 1)
      BY <3>1 DEF Upper
    <3> QED
      BY Zenon, <3>2, <3>3
  <2> QED
    BY <2>1, <2>2
<1>3. ASSUME NEW j \in 1 .. n, j >= n - (k - 1)
      PROVE  s[j] \in Upper(s, n, k) /\ (next[s[j]] # 0 => next[s[j]] \in Upper(s, n, k))
  <2>1. j >= n - k
    BY <1>3
  <2>2. j # 1 => (j - 1 \in 1 .. n /\ j - 1 >= n - k /\ next[s[j]] = s[j - 1])
    BY <1>1, <1>3
  <2>3. j = 1 => next[s[j]] = 0
    BY <1>1
  <2> QED
    BY Zenon, <2>1, <2>2, <2>3 DEF Upper
<1>4. Upper(s, n, k) \subseteq Upper(s, n, k - 1) \cup ({next[m] : m \in Upper(s, n, k - 1)} \ {0})
  <2>1. \A x \in Upper(s, n, k) : \E j \in 1 .. n : j >= n - k /\ x = s[j]
    BY Zenon DEF Upper
  <2> QED
    BY Zenon, <1>2, <2>1
<1>5. Upper(s, n, k - 1) \cup ({next[m] : m \in Upper(s, n, k - 1)} \ {0}) \subseteq Upper(s, n, k)
  <2>1. \A x \in Upper(s, n, k - 1) : \E j \in 1 .. n : j >= n - (k - 1) /\ x = s[j]
    BY Zenon DEF Upper
  <2>2. \A x \in Upper(s, n, k - 1) : x \in Upper(s, n, k) /\ (next[x] # 0 => next[x] \in Upper(s, n, k))
    BY Zenon, <1>3, <2>1
  <2> QED
    BY <2>2
<1> QED
  BY Zenon, <1>4, <1>5

LEMMA UpperChain ==
  ASSUME NEW head, NEW next, NEW in, NEW n \in Nat, NEW s \in [1 .. n -> Nodes],
         IsStack(head, next, in, s, n), NEW c \in Nat
  PROVE  IsChain([k \in 0 .. c |-> Upper(s, n, k)], head, next, c)
<1> DEFINE h == [k \in 0 .. c |-> Upper(s, n, k)]
<1>1. Upper(s, n, 0) = {head} \ {0}
  <2>1. CASE n = 0
    BY <2>1 DEF Upper, IsStack
  <2>2. CASE n # 0
    <3>1. {i \in 1 .. n : i >= n - 0} = {n}
      BY <2>2
    <3>2. Upper(s, n, 0) = {s[n]}
      BY <3>1 DEF Upper
    <3>3. s[n] # 0 /\ head = s[n]
      BY <2>2, LockFreeAssumption DEF IsStack
    <3> QED
      BY <3>2, <3>3
  <2> QED
    BY <2>1, <2>2
<1>2. ASSUME NEW k \in 0 .. c
      PROVE  Upper(s, n, k) = IF k = 0 THEN {head} \ {0}
                              ELSE h[k - 1] \cup ({next[m] : m \in h[k - 1]} \ {0})
  <2>1. k # 0 => (k - 1 \in 0 .. c /\ k \in Nat)
    OBVIOUS
  <2>2. k # 0 => h[k - 1] = Upper(s, n, k - 1)
    BY Zenon, <2>1
  <2> HIDE DEF h
  <2>3. k # 0 => Upper(s, n, k) = Upper(s, n, k - 1) \cup ({next[m] : m \in Upper(s, n, k - 1)} \ {0})
    BY <2>1, UpperStep
  <2>4. k = 0 => Upper(s, n, k) = {head} \ {0}
    BY Zenon, <1>1
  <2> QED
    BY Zenon, <2>2, <2>3, <2>4
<1>3. h = [k \in 0 .. c |-> IF k = 0 THEN {head} \ {0}
                            ELSE h[k - 1] \cup ({next[m] : m \in h[k - 1]} \ {0})]
  BY Zenon, <1>2
<1> QED
  BY Zenon, <1>3 DEF IsChain

LEMMA SmallestOf ==
  ASSUME NEW c \in Nat, NEW T \in SUBSET (0 .. c), T # {}
  PROVE  \E k \in T : k = 0 \/ k - 1 \notin T
<1>1. PICK D : D = 0 .. c
  OBVIOUS
<1>2. IsFiniteSet(D)
  BY <1>1, FS_Interval
<1> DEFINE F == {A \in SUBSET D : \E k \in T : A = 0 .. k}
<1>3. F \in SUBSET (SUBSET D)
  OBVIOUS
<1>4. F # {}
  <2>1. PICK k \in T : TRUE
    OBVIOUS
  <2>2. 0 .. k \in SUBSET D
    BY <1>1
  <2> QED
    BY Zenon, <2>2
<1>5. PICK A \in F : \A E \in F : E \subseteq A => E = A
  <2> HIDE DEF F
  <2> QED
    BY <1>2, <1>3, <1>4, SmallestMember
<1>6. PICK k \in T : A = 0 .. k
  OBVIOUS
<1>7. ASSUME k # 0, k - 1 \in T PROVE FALSE
  <2>1. 0 .. (k - 1) \in SUBSET D /\ 0 .. (k - 1) \subseteq A /\ 0 .. (k - 1) # A
    BY <1>1, <1>6, <1>7
  <2>2. 0 .. (k - 1) \in F
    BY Zenon, <1>7, <2>1
  <2> HIDE DEF F
  <2> QED
    BY Zenon, <1>5, <2>1, <2>2
<1> QED
  BY <1>7

(* There is one chain. *)
LEMMA ChainsAgree ==
  ASSUME NEW head, NEW next, NEW c \in Nat, NEW f, NEW h, IsChain(f, head, next, c), IsChain(h, head, next, c)
  PROVE  f[c] = h[c]
<1> DEFINE T == {k \in 0 .. c : f[k] # h[k]}
<1> SUFFICES ASSUME f[c] # h[c] PROVE FALSE
  OBVIOUS
<1>1. T \in SUBSET (0 .. c) /\ T # {}
  OBVIOUS
<1>2. PICK k \in T : k = 0 \/ k - 1 \notin T
  <2> HIDE DEF T
  <2> QED
    BY Zenon, <1>1, SmallestOf
<1>3. k \in 0 .. c /\ f[k] # h[k]
  OBVIOUS
<1>4. ASSUME NEW j \in 0 .. c
      PROVE  /\ f[j] = IF j = 0 THEN {head} \ {0} ELSE f[j - 1] \cup ({next[m] : m \in f[j - 1]} \ {0})
             /\ h[j] = IF j = 0 THEN {head} \ {0} ELSE h[j - 1] \cup ({next[m] : m \in h[j - 1]} \ {0})
  BY Zenon DEF IsChain
<1>5. k # 0
  BY Zenon, <1>3, <1>4
<1>6. k - 1 \in 0 .. c
  BY <1>3, <1>5
<1>7. f[k - 1] = h[k - 1]
  BY Zenon, <1>2, <1>5, <1>6
<1> QED
  BY Zenon, <1>3, <1>4, <1>5, <1>7

LEMMA ChainIsStack ==
  ASSUME Stack(mem.head, mem.next, mem.in)
  PROVE  L!Chain[L!Cardinality(Nodes)] = mem.in
<1> DEFINE c == Cardinality(Nodes)
<1>1. PICK n \in Nat : \E s \in [1 .. n -> Nodes] : IsStack(mem.head, mem.next, mem.in, s, n)
  BY Zenon DEF Stack
<1>2. PICK s \in [1 .. n -> Nodes] : IsStack(mem.head, mem.next, mem.in, s, n)
  BY Zenon, <1>1
<1>3. c \in Nat /\ n <= c
  <2>1. s \in Injection(1 .. n, Nodes)
    BY <1>2 DEF IsStack, Injection, IsInjective
  <2>2. Cardinality(1 .. n) <= c
    BY Zenon, <2>1, FS_Injection, LockFreeAssumption
  <2>3. Cardinality(1 .. n) = n
    BY FS_Interval
  <2>4. c \in Nat
    BY FS_CardinalityType, LockFreeAssumption
  <2> QED
    BY Zenon, <2>2, <2>3, <2>4
<1> HIDE DEF c
<1>4. L!Cardinality(Nodes) = c
  BY Zenon DEF c, L!Cardinality, Cardinality
<1>5. IsChain([k \in 0 .. c |-> Upper(s, n, k)], mem.head, mem.next, c)
  BY Zenon, <1>2, <1>3, UpperChain
<1> DEFINE h == [k \in 0 .. c |-> Upper(s, n, k)]
<1>9. IsChain(h, mem.head, mem.next, c)
  BY Zenon, <1>5
<1> HIDE DEF h
<1>6. IsChain(L!Chain, mem.head, mem.next, c)
  BY Zenon, <1>4, <1>9 DEF IsChain, L!Chain, L!NULL
<1>7. L!Chain[c] = h[c]
  BY <1>3, <1>6, <1>9, ChainsAgree
<1>8. h[c] = mem.in
  <2>1. h[c] = Upper(s, n, c)
    BY <1>3 DEF h
  <2>2. {i \in 1 .. n : i >= n - c} = 1 .. n
    BY <1>3
  <2> QED
    BY Zenon, <1>2, <2>1, <2>2 DEF Upper, IsStack
<1> QED
  BY Zenon, <1>4, <1>7, <1>8

-----------------------------------------------------------------------------
(* lock_free: the clients *)

LfLabels == {"push", "load", "cas", "next", "popcas", "free", "pop", "done",
             "crashed"}
LfShape == mem = [head |-> mem.head, next |-> mem.next, used |-> mem.used, node |-> mem.node,
                  old |-> mem.old, after |-> mem.after, pushed |-> mem.pushed, stale |-> mem.stale,
                  in |-> mem.in, undefined |-> mem.undefined]
LfLinks == mem.next \in [Nodes -> Nodes \cup {0}]
LfType == /\ LfShape
          /\ DOMAIN pc \in {{"main"}, {"main", "other"}} /\ pc \in [DOMAIN pc -> LfLabels]
          /\ DOMAIN mem.node = DOMAIN pc /\ DOMAIN mem.old = DOMAIN pc /\ DOMAIN mem.after = DOMAIN pc
          /\ LfLinks

(* The nodes in a client's hands: the one it pushes, the one it frees. *)
InHand(l, node, old) == IF l \in {"load", "cas"} THEN {node} ELSE IF l = "free" THEN {old} ELSE {}
Hand(c) == InHand(pc[c], mem.node[c], mem.old[c])

(* A node is on the stack, in one client's hands, or free. *)
LfHands == /\ mem.in \subseteq mem.used /\ mem.used \subseteq Nodes
           /\ \A c \in DOMAIN pc : Hand(c) \subseteq mem.used /\ Hand(c) \cap mem.in = {}
           /\ \A c, d \in DOMAIN pc : c # d => Hand(c) \cap Hand(d) = {}

(* A client that is not stale looks at a node of the stack, or at one that *)
(* the other client has popped but not freed; the link it has read is the  *)
(* node's.                                                                 *)
Safe(c) == mem.old[c] \in mem.in \/ \E d \in DOMAIN pc : d # c /\ pc[d] = "free" /\ mem.old[d] = mem.old[c]
LfReads == \A c \in DOMAIN pc :
             /\ pc[c] = "cas" => mem.next[mem.node[c]] = mem.old[c]
             /\ pc[c] \in {"next", "popcas"} /\ c \notin mem.stale => Safe(c)
             /\ pc[c] = "popcas" /\ c \notin mem.stale => mem.after[c] = mem.next[mem.old[c]]

LfSound == Stack(mem.head, mem.next, mem.in) /\ LfHands /\ LfReads

(* Only the other client makes a client stale. *)
LfAlone == (mem.stale # {} \/ mem.undefined) => DOMAIN pc = {"main", "other"}

LfInv == LfType /\ LfAlone /\ (~mem.undefined => LfSound)

LEMMA LfNext ==
  ASSUME program = "lock_free", [Next]_vars, LfShape
  PROVE  UNCHANGED vars \/ \E c \in DOMAIN pc : L!ClientStep(c)
<1>1. ~SpuriousWakeup
  BY Zenon DEF SpuriousWakeup, LfShape
<1>2. L!Next \/ UNCHANGED vars
  BY <1>1 DEF Next, B!Next, C!Next, M!Next, R!Next, S!Next, K!Next, B!Step, C!Step, M!Step, M!SendFails,
     R!Manage, R!Dine, R!Detect, R!Main, S!Step, vars,
     C!Programs, C!Threaded, B!PcProducer, B!PcConsumer
<1>3. program # "ex1seqlock"
  OBVIOUS
<1> QED
  BY Zenon, <1>2, <1>3 DEF L!Next, L!Step

(* What a step does to a client: its label and what it remembers. *)
Client(c, from, to, node, old, after) ==
  /\ pc[c] = from /\ pc' = [pc EXCEPT ![c] = to]
  /\ DOMAIN mem'.node = DOMAIN pc /\ DOMAIN mem'.old = DOMAIN pc /\ DOMAIN mem'.after = DOMAIN pc
  /\ mem'.node[c] = node /\ mem'.old[c] = old /\ mem'.after[c] = after
  /\ \A d \in DOMAIN pc : d # c => /\ mem'.node[d] = mem.node[d] /\ mem'.old[d] = mem.old[d]
                                  /\ mem'.after[d] = mem.after[d]

DidMalloc(c) ==
  \E n \in Nodes \ mem.used :
    /\ Client(c, "push", "load", n, mem.old[c], mem.after[c])
    /\ mem'.used = mem.used \cup {n} /\ UNCHANGED <<mem.head, mem.next, mem.in, mem.stale>>
DidLoad(c) ==
  /\ Client(c, "load", "cas", mem.node[c], mem.head, mem.after[c])
  /\ mem'.next = [mem.next EXCEPT ![mem.node[c]] = mem.head] /\ mem'.stale = mem.stale \ {c}
  /\ UNCHANGED <<mem.head, mem.used, mem.in>>
DidSwap(c) ==
  /\ mem.head = mem.old[c] /\ Client(c, "cas", "push", mem.node[c], mem.old[c], mem.after[c])
  /\ mem'.head = mem.node[c] /\ mem'.in = mem.in \cup {mem.node[c]}
  /\ UNCHANGED <<mem.next, mem.used, mem.stale>>
DidPopLoad(c) ==
  \E l \in {"push", "pop"}, to \in {"push", "done", "next"} :
    /\ Client(c, l, to, mem.node[c], mem.head, mem.after[c]) /\ (to = "next" => mem.head # 0)
    /\ mem'.stale = mem.stale \ {c} /\ UNCHANGED <<mem.head, mem.next, mem.used, mem.in>>
DidPopNext(c) ==
  /\ Client(c, "next", "popcas", mem.node[c], mem.old[c], mem.next[mem.old[c]])
  /\ UNCHANGED <<mem.head, mem.next, mem.used, mem.in, mem.stale>>
DidPopSwap(c) ==
  /\ mem.head = mem.old[c] /\ Client(c, "popcas", "free", mem.node[c], mem.old[c], mem.after[c])
  /\ mem'.head = mem.after[c] /\ mem'.in = mem.in \ {mem.old[c]}
  /\ UNCHANGED <<mem.next, mem.used, mem.stale>>
DidFail(c) ==
  /\ \/ Client(c, "cas", "load", mem.node[c], mem.old[c], mem.after[c])
     \/ Client(c, "popcas", "pop", mem.node[c], mem.old[c], mem.after[c])
  /\ UNCHANGED <<mem.head, mem.next, mem.used, mem.in, mem.stale>>
DidFree(c) ==
  /\ \E to \in {"push", "pop"} : Client(c, "free", to, mem.node[c], mem.old[c], mem.after[c])
  /\ mem'.used = mem.used \ {mem.old[c]}
  /\ mem'.stale = mem.stale \cup {d \in DOMAIN pc : d # c /\ mem.old[d] = mem.old[c]}
  /\ UNCHANGED <<mem.head, mem.next, mem.in>>

LEMMA LfMoves ==
  ASSUME LfType, NEW c \in DOMAIN pc, L!ClientStep(c), ~L!MallocFails(c)
  PROVE  /\ LfShape' /\ ~mem.undefined
         /\ \/ (DidMalloc(c) \/ DidLoad(c) \/ DidSwap(c) \/ DidPopLoad(c) \/ DidFail(c) \/ DidFree(c))
               /\ UNCHANGED mem.undefined
            \/ (DidPopNext(c) \/ DidPopSwap(c)) /\ mem'.undefined = (c \in mem.stale)
<1>1. ~mem.undefined /\ \/ L!Malloc(c) \/ L!Load(c) \/ L!Swap(c)
                        \/ L!PopLoad(c) \/ L!PopNext(c) \/ L!PopSwap(c) \/ L!FreeNode(c)
  BY Zenon DEF L!ClientStep
<1>2. /\ LfShape /\ DOMAIN mem.node = DOMAIN pc /\ DOMAIN mem.old = DOMAIN pc /\ DOMAIN mem.after = DOMAIN pc
  BY Zenon DEF LfType
<1>3. CASE L!Malloc(c)
  <2>1. PICK n \in Nodes \ mem.used :
          /\ pc[c] = "push" /\ pc' = [pc EXCEPT ![c] = "load"]
          /\ mem' = [mem EXCEPT !.used = @ \cup {n}, !.node[c] = n]
    BY Zenon, <1>3 DEF L!Malloc, L!Move
  <2>2. /\ LfShape' /\ mem'.used = mem.used \cup {n} /\ mem'.node = [mem.node EXCEPT ![c] = n]
        /\ UNCHANGED <<mem.head, mem.next, mem.in, mem.stale, mem.old, mem.after, mem.undefined>>
    BY Zenon, <1>2, <2>1 DEF LfShape
  <2>3. Client(c, "push", "load", n, mem.old[c], mem.after[c])
    <3>1. pc[c] = "push" /\ pc' = [pc EXCEPT ![c] = "load"]
      BY Zenon, <2>1
    <3>2. mem'.node = [mem.node EXCEPT ![c] = n] /\ mem'.old = mem.old /\ mem'.after = mem.after
      BY Zenon, <2>2
    <3> QED
      BY Zenon, <1>2, <3>1, <3>2 DEF Client
  <2> QED
    BY Zenon, <1>1, <2>2, <2>3 DEF DidMalloc
<1>4. CASE L!Load(c)
  <2>1. /\ LfShape' /\ mem'.old = [mem.old EXCEPT ![c] = mem.head] /\ mem'.stale = mem.stale \ {c}
        /\ mem'.next = [mem.next EXCEPT ![mem.node[c]] = mem.head]
        /\ UNCHANGED <<mem.head, mem.used, mem.in, mem.node, mem.after, mem.undefined>>
    BY Zenon, <1>2, <1>4 DEF L!Load, L!Move, LfShape
  <2>2. pc[c] = "load" /\ pc' = [pc EXCEPT ![c] = "cas"]
    BY Zenon, <1>4 DEF L!Load, L!Move
  <2>3. Client(c, "load", "cas", mem.node[c], mem.head, mem.after[c])
    <3>1. mem'.old = [mem.old EXCEPT ![c] = mem.head] /\ mem'.node = mem.node /\ mem'.after = mem.after
      BY Zenon, <2>1
    <3> QED
      BY Zenon, <1>2, <2>2, <3>1 DEF Client
  <2> QED
    BY Zenon, <1>1, <2>1, <2>3 DEF DidLoad
<1>5. CASE L!Swap(c)
  <2>1. CASE mem.head = mem.old[c]
    <3>1. /\ LfShape' /\ mem'.head = mem.node[c] /\ mem'.in = mem.in \cup {mem.node[c]}
          /\ UNCHANGED <<mem.next, mem.used, mem.stale, mem.node, mem.old, mem.after, mem.undefined>>
      BY Zenon, <1>2, <1>5, <2>1 DEF L!Swap, L!Move, LfShape
    <3>2. pc[c] = "cas" /\ pc' = [pc EXCEPT ![c] = "push"]
      BY Zenon, <1>5, <2>1 DEF L!Swap, L!Move
    <3>3. Client(c, "cas", "push", mem.node[c], mem.old[c], mem.after[c])
      BY Zenon, <1>2, <3>1, <3>2 DEF Client
    <3> QED
      BY Zenon, <1>1, <2>1, <3>1, <3>3 DEF DidSwap
  <2>2. CASE mem.head # mem.old[c]
    <3>1. mem' = mem /\ pc[c] = "cas" /\ pc' = [pc EXCEPT ![c] = "load"]
      BY Zenon, <1>5, <2>2 DEF L!Swap, L!Move, L!Goto
    <3>2. Client(c, "cas", "load", mem.node[c], mem.old[c], mem.after[c])
      BY Zenon, <1>2, <3>1 DEF Client
    <3> QED
      BY Zenon, <1>1, <1>2, <3>1, <3>2 DEF DidFail, LfShape
  <2> QED
    BY Zenon, <2>1, <2>2
<1>6. CASE L!PopLoad(c)
  <2>1. PICK l \in {"push", "pop"} :
          L!Move(c, l, IF mem.head # L!NULL THEN "next"
                       ELSE IF mem.pushed[c] < PUSHES THEN "push" ELSE "done",
                 [mem EXCEPT !.old[c] = mem.head, !.stale = @ \ {c}])
    BY Zenon, <1>6 DEF L!PopLoad
  <2>2. PICK to \in {"push", "done", "next"} :
          (to = "next" => mem.head # 0) /\ pc[c] = l /\ pc' = [pc EXCEPT ![c] = to]
    <3>1. pc[c] = l /\ pc' = [pc EXCEPT ![c] =
                              IF mem.head # 0 THEN "next" ELSE IF mem.pushed[c] < PUSHES THEN "push" ELSE "done"]
      BY Zenon, <2>1 DEF L!Move, L!NULL
    <3>2. "next" # "push" /\ "next" # "done"
      OBVIOUS
    <3> QED
      BY Zenon, <3>1, <3>2
  <2>3. /\ LfShape' /\ mem'.old = [mem.old EXCEPT ![c] = mem.head] /\ mem'.stale = mem.stale \ {c}
        /\ UNCHANGED <<mem.head, mem.next, mem.used, mem.in, mem.node, mem.after, mem.undefined>>
    BY Zenon, <1>2, <2>1 DEF L!Move, LfShape
  <2>4. Client(c, l, to, mem.node[c], mem.head, mem.after[c])
    BY Zenon, <1>2, <2>2, <2>3 DEF Client
  <2> QED
    BY Zenon, <1>1, <2>2, <2>3, <2>4 DEF DidPopLoad
<1>7. CASE L!PopNext(c)
  <2>1. /\ LfShape' /\ mem'.after = [mem.after EXCEPT ![c] = mem.next[mem.old[c]]]
        /\ mem'.undefined = (c \in mem.stale)
        /\ UNCHANGED <<mem.head, mem.next, mem.used, mem.in, mem.stale, mem.node, mem.old>>
    BY Zenon, <1>2, <1>7 DEF L!PopNext, L!Move, LfShape
  <2>2. pc[c] = "next" /\ pc' = [pc EXCEPT ![c] = "popcas"]
    BY Zenon, <1>7 DEF L!PopNext, L!Move
  <2>3. Client(c, "next", "popcas", mem.node[c], mem.old[c], mem.next[mem.old[c]])
    BY Zenon, <1>2, <2>1, <2>2 DEF Client
  <2> QED
    BY Zenon, <1>1, <2>1, <2>3 DEF DidPopNext
<1>8. CASE L!PopSwap(c)
  <2>1. CASE mem.head = mem.old[c]
    <3>1. /\ LfShape' /\ mem'.head = mem.after[c] /\ mem'.in = mem.in \ {mem.old[c]}
          /\ mem'.undefined = (c \in mem.stale)
          /\ UNCHANGED <<mem.next, mem.used, mem.stale, mem.node, mem.old, mem.after>>
      BY Zenon, <1>2, <1>8, <2>1 DEF L!PopSwap, L!Move, LfShape
    <3>2. pc[c] = "popcas" /\ pc' = [pc EXCEPT ![c] = "free"]
      BY Zenon, <1>8, <2>1 DEF L!PopSwap, L!Move
    <3>3. Client(c, "popcas", "free", mem.node[c], mem.old[c], mem.after[c])
      BY Zenon, <1>2, <3>1, <3>2 DEF Client
    <3> QED
      BY Zenon, <1>1, <2>1, <3>1, <3>3 DEF DidPopSwap
  <2>2. CASE mem.head # mem.old[c]
    <3>1. mem' = mem /\ pc[c] = "popcas" /\ pc' = [pc EXCEPT ![c] = "pop"]
      BY Zenon, <1>8, <2>2 DEF L!PopSwap, L!Move, L!Goto
    <3>2. Client(c, "popcas", "pop", mem.node[c], mem.old[c], mem.after[c])
      BY Zenon, <1>2, <3>1 DEF Client
    <3> QED
      BY Zenon, <1>1, <1>2, <3>1, <3>2 DEF DidFail, LfShape
  <2> QED
    BY Zenon, <2>1, <2>2
<1>9. CASE L!FreeNode(c)
  <2>1. /\ LfShape' /\ mem'.used = mem.used \ {mem.old[c]}
        /\ mem'.stale = mem.stale \cup {d \in DOMAIN pc : d # c /\ mem.old[d] = mem.old[c]}
        /\ UNCHANGED <<mem.head, mem.next, mem.in, mem.node, mem.old, mem.after, mem.undefined>>
    BY Zenon, <1>2, <1>9 DEF L!FreeNode, L!Move, LfShape
  <2>2. pc[c] = "free" /\ \E to \in {"push", "pop"} : pc' = [pc EXCEPT ![c] = to]
    BY Zenon, <1>9 DEF L!FreeNode, L!Move
  <2>3. \E to \in {"push", "pop"} : Client(c, "free", to, mem.node[c], mem.old[c], mem.after[c])
    BY Zenon, <1>2, <2>1, <2>2 DEF Client
  <2> QED
    BY Zenon, <1>1, <2>1, <2>3 DEF DidFree
<1> QED
  BY Zenon, <1>1, <1>3, <1>4, <1>5, <1>6, <1>7, <1>8, <1>9

(* The parts of the invariant that look at one client at a time: what a    *)
(* client's step leaves in its hands, and in the hands of the others.      *)
Turns(c, from, to, hand) ==
  /\ LfType' /\ DOMAIN pc' = DOMAIN pc /\ pc[c] = from /\ pc'[c] = to /\ Hand(c)' = hand
  /\ \A d \in DOMAIN pc : d # c => (pc'[d] = pc[d] /\ Hand(d)' = Hand(d))

LEMMA LfOthers ==
  ASSUME LfType, NEW c \in DOMAIN pc, NEW from \in LfLabels, NEW to \in LfLabels, NEW node, NEW old, NEW after,
         LfShape', LfLinks', Client(c, from, to, node, old, after)
  PROVE  Turns(c, from, to, InHand(to, node, old))
<1>1. /\ pc \in [DOMAIN pc -> LfLabels] /\ DOMAIN pc \in {{"main"}, {"main", "other"}}
      /\ pc[c] = from /\ pc' = [pc EXCEPT ![c] = to]
  BY Zenon DEF LfType, Client
<1>2. /\ DOMAIN pc' = DOMAIN pc /\ pc' \in [DOMAIN pc -> LfLabels] /\ pc'[c] = to
      /\ \A d \in DOMAIN pc : d # c => pc'[d] = pc[d]
  BY Zenon, <1>1
<1>3. DOMAIN mem'.node = DOMAIN pc' /\ DOMAIN mem'.old = DOMAIN pc' /\ DOMAIN mem'.after = DOMAIN pc'
  BY Zenon, <1>2 DEF Client
<1>4. pc' \in [DOMAIN pc' -> LfLabels] /\ DOMAIN pc' \in {{"main"}, {"main", "other"}}
  BY Zenon, <1>1, <1>2
<1>5. LfType'
  BY Zenon, <1>3, <1>4 DEF LfType
<1>6. Hand(c)' = InHand(to, node, old)
  BY Zenon, <1>2 DEF Hand, Client
<1>7. \A d \in DOMAIN pc : d # c => Hand(d)' = Hand(d)
  BY Zenon, <1>2 DEF Hand, Client
<1> QED
  BY Zenon, <1>1, <1>2, <1>5, <1>6, <1>7 DEF Turns

LEMMA LfHandsMove ==
  ASSUME LfHands, NEW c \in DOMAIN pc, DOMAIN pc' = DOMAIN pc,
         \A d \in DOMAIN pc : d # c => Hand(d)' = Hand(d),
         mem'.in \subseteq mem'.used, mem'.used \subseteq Nodes,
         Hand(c)' \subseteq mem'.used, Hand(c)' \cap mem'.in = {},
         \A d \in DOMAIN pc : d # c => Hand(d) \subseteq mem'.used /\ Hand(d) \cap mem'.in = {}
                                       /\ Hand(d) \cap Hand(c)' = {}
  PROVE  LfHands'
<1>1. ASSUME NEW d \in DOMAIN pc PROVE Hand(d)' \subseteq mem'.used /\ Hand(d)' \cap mem'.in = {}
  BY Zenon
<1>2. ASSUME NEW d \in DOMAIN pc, NEW b \in DOMAIN pc, d # b PROVE Hand(d)' \cap Hand(b)' = {}
  <2>1. CASE d = c
    <3>1. Hand(b)' = Hand(b) /\ Hand(b) \cap Hand(c)' = {}
      BY Zenon, <1>2, <2>1
    <3> QED
      BY <2>1, <3>1
  <2>2. CASE b = c
    <3>1. Hand(d)' = Hand(d) /\ Hand(d) \cap Hand(c)' = {}
      BY Zenon, <1>2, <2>2
    <3> QED
      BY <2>2, <3>1
  <2>3. CASE d # c /\ b # c
    BY Zenon, <1>2, <2>3 DEF LfHands
  <2> QED
    BY Zenon, <2>1, <2>2, <2>3
<1> QED
  BY Zenon, <1>1, <1>2 DEF LfHands

LEMMA HandIs ==
  ASSUME NEW c
  PROVE  /\ pc[c] \in {"load", "cas"} => Hand(c) = {mem.node[c]}
         /\ pc[c] = "free" => Hand(c) = {mem.old[c]}
         /\ pc[c] \in {"push", "next", "popcas", "pop", "done"} => Hand(c) = {}
BY DEF Hand, InHand

LEMMA InHands ==
  ASSUME NEW node, NEW old
  PROVE  /\ InHand("load", node, old) = {node} /\ InHand("cas", node, old) = {node}
         /\ InHand("free", node, old) = {old}
         /\ \A l \in {"push", "next", "popcas", "pop", "done"} : InHand(l, node, old) = {}
BY DEF InHand

(* A safe client stays safe while nobody pops or frees a node. *)
LEMMA SafeKept ==
  ASSUME NEW c \in DOMAIN pc, pc[c] # "free", mem.in \subseteq mem'.in, DOMAIN pc' = DOMAIN pc,
         \A d \in DOMAIN pc : d # c => pc'[d] = pc[d] /\ mem'.old[d] = mem.old[d],
         NEW b \in DOMAIN pc, b # c, Safe(b)
  PROVE  Safe(b)'
<1>1. mem'.old[b] = mem.old[b]
  BY Zenon
<1>2. CASE mem.old[b] \in mem.in
  BY <1>1, <1>2 DEF Safe
<1>3. CASE \E d \in DOMAIN pc : d # b /\ pc[d] = "free" /\ mem.old[d] = mem.old[b]
  <2>1. PICK d \in DOMAIN pc : d # b /\ pc[d] = "free" /\ mem.old[d] = mem.old[b]
    BY Zenon, <1>3
  <2>2. d # c /\ d \in DOMAIN pc'
    BY Zenon, <2>1
  <2>3. pc'[d] = "free" /\ mem'.old[d] = mem'.old[b]
    BY Zenon, <1>1, <2>1, <2>2
  <2> QED
    BY Zenon, <2>1, <2>2, <2>3 DEF Safe
<1> QED
  BY Zenon, <1>2, <1>3 DEF Safe

LEMMA LfReadsMove ==
  ASSUME LfReads, NEW c \in DOMAIN pc, DOMAIN pc' = DOMAIN pc,
         \A d \in DOMAIN pc : d # c =>
           /\ pc'[d] = pc[d] /\ mem'.node[d] = mem.node[d] /\ mem'.old[d] = mem.old[d]
           /\ mem'.after[d] = mem.after[d],
         pc'[c] = "cas" => mem'.next[mem'.node[c]] = mem'.old[c],
         (pc'[c] \in {"next", "popcas"} /\ c \notin mem'.stale) => Safe(c)',
         (pc'[c] = "popcas" /\ c \notin mem'.stale) => mem'.after[c] = mem'.next[mem'.old[c]],
         \A d \in DOMAIN pc : d # c /\ pc[d] = "cas" => mem'.next[mem.node[d]] = mem.next[mem.node[d]],
         \A d \in DOMAIN pc : d # c /\ pc[d] \in {"next", "popcas"} /\ d \notin mem'.stale =>
           d \notin mem.stale /\ Safe(d)' /\ mem'.next[mem.old[d]] = mem.next[mem.old[d]]
  PROVE  LfReads'
<1> SUFFICES ASSUME NEW d \in DOMAIN pc
             PROVE  /\ pc'[d] = "cas" => mem'.next[mem'.node[d]] = mem'.old[d]
                    /\ pc'[d] \in {"next", "popcas"} /\ d \notin mem'.stale => Safe(d)'
                    /\ pc'[d] = "popcas" /\ d \notin mem'.stale => mem'.after[d] = mem'.next[mem'.old[d]]
  BY Zenon DEF LfReads
<1>1. CASE d = c
  BY Zenon, <1>1
<1>2. CASE d # c
  <2>1. /\ pc'[d] = pc[d] /\ mem'.node[d] = mem.node[d] /\ mem'.old[d] = mem.old[d]
        /\ mem'.after[d] = mem.after[d]
    BY Zenon, <1>2
  <2>2. /\ pc[d] = "cas" => mem.next[mem.node[d]] = mem.old[d]
        /\ (pc[d] = "popcas" /\ d \notin mem.stale) => mem.after[d] = mem.next[mem.old[d]]
    BY Zenon DEF LfReads
  <2>3. ASSUME pc'[d] = "cas" PROVE mem'.next[mem'.node[d]] = mem'.old[d]
    BY Zenon, <1>2, <2>1, <2>2, <2>3
  <2>4. ASSUME pc'[d] \in {"next", "popcas"}, d \notin mem'.stale PROVE Safe(d)'
    BY Zenon, <1>2, <2>1, <2>4
  <2>5. ASSUME pc'[d] = "popcas", d \notin mem'.stale PROVE mem'.after[d] = mem'.next[mem'.old[d]]
    <3>1. pc[d] = "popcas" /\ pc[d] \in {"next", "popcas"}
      BY Zenon, <2>1, <2>5
    <3>2. d \notin mem.stale /\ mem'.next[mem.old[d]] = mem.next[mem.old[d]]
      BY Zenon, <1>2, <2>5, <3>1
    <3> QED
      BY Zenon, <2>1, <2>2, <3>1, <3>2
  <2> QED
    BY Zenon, <2>3, <2>4, <2>5
<1> QED
  BY Zenon, <1>1, <1>2

LEMMA LfLabelsAre ==
  /\ "push" \in LfLabels /\ "load" \in LfLabels /\ "cas" \in LfLabels /\ "next" \in LfLabels
  /\ "popcas" \in LfLabels /\ "free" \in LfLabels /\ "pop" \in LfLabels /\ "done" \in LfLabels
  /\ "crashed" \in LfLabels /\ "crashed" \notin {"load", "cas", "next", "popcas", "free"}
  /\ "load" # "cas" /\ "push" # "cas" /\ "push" # "free" /\ "load" # "free" /\ "cas" # "free" /\ "next" # "free"
  /\ "popcas" # "free" /\ "pop" # "free" /\ "popcas" # "cas" /\ "next" # "cas" /\ "pop" # "cas" /\ "done" # "cas"
  /\ "free" # "cas" /\ "next" # "popcas" /\ "free" # "popcas"
  /\ \A l \in {"push", "load", "cas", "pop", "done", "free"} : l \notin {"next", "popcas"} /\ l # "popcas"
BY DEF LfLabels

LEMMA LfFacts ==
  ASSUME LfType, LfSound
  PROVE  /\ mem.next \in [Nodes -> Nodes \cup {0}] /\ Stack(mem.head, mem.next, mem.in) /\ LfHands /\ LfReads
         /\ mem.in \subseteq mem.used /\ mem.used \subseteq Nodes
         /\ \A c \in DOMAIN pc : Hand(c) \subseteq mem.used /\ Hand(c) \cap mem.in = {}
         /\ \A c, d \in DOMAIN pc : c # d => Hand(c) \cap Hand(d) = {}
         /\ mem.in \subseteq Nodes /\ (mem.head # 0 => mem.head \in mem.in) /\ mem.head \in Nodes \cup {0}
<1>1. /\ mem.next \in [Nodes -> Nodes \cup {0}] /\ Stack(mem.head, mem.next, mem.in) /\ LfHands /\ LfReads
  BY Zenon DEF LfType, LfLinks, LfSound
<1>2. mem.in \subseteq Nodes /\ (mem.head # 0 => mem.head \in mem.in)
  BY Zenon, <1>1, StackHead
<1>3. mem.head \in Nodes \cup {0}
  BY <1>2
<1> QED
  BY Zenon, <1>1, <1>2, <1>3 DEF LfHands

(* A step that moves no node: a load of the head, a link that is read, an  *)
(* exchange that fails.                                                    *)
LEMMA LfStays ==
  ASSUME LfType, LfSound, NEW c \in DOMAIN pc, LfShape', NEW from \in LfLabels, NEW to \in LfLabels,
         NEW old, NEW after, Client(c, from, to, mem.node[c], old, after),
         UNCHANGED <<mem.head, mem.next, mem.used, mem.in>>,
         InHand(to, mem.node[c], old) = InHand(from, mem.node[c], mem.old[c]), from # "free",
         mem.stale \subseteq mem'.stale \cup {c}, to # "cas",
         to \in {"next", "popcas"} => Safe(c)' \/ c \in mem'.stale,
         to = "popcas" => mem'.after[c] = mem'.next[mem'.old[c]]
  PROVE  LfType' /\ LfSound'
<1>1. /\ mem.next \in [Nodes -> Nodes \cup {0}] /\ Stack(mem.head, mem.next, mem.in) /\ LfHands /\ LfReads
  BY Zenon, LfFacts
<1>2. /\ LfType' /\ DOMAIN pc' = DOMAIN pc /\ pc[c] = from /\ pc'[c] = to /\ Hand(c)' = InHand(to, mem.node[c], old)
      /\ \A d \in DOMAIN pc : d # c => (pc'[d] = pc[d] /\ Hand(d)' = Hand(d))
  <2>1. LfLinks'
    BY Zenon, <1>1 DEF LfLinks
  <2>2. Turns(c, from, to, InHand(to, mem.node[c], old))
    BY Zenon, <2>1, LfOthers
  <2> QED
    BY Zenon, <2>2 DEF Turns
<1>3. \A d \in DOMAIN pc : d # c => /\ pc'[d] = pc[d] /\ mem'.node[d] = mem.node[d] /\ mem'.old[d] = mem.old[d]
                                    /\ mem'.after[d] = mem.after[d]
  BY Zenon, <1>2 DEF Client
<1>4. Stack(mem'.head, mem'.next, mem'.in)
  BY Zenon, <1>1
<1>5. LfHands'
  <2>1. Hand(c)' = Hand(c)
    BY Zenon, <1>2 DEF Hand
  <2>2. \A d \in DOMAIN pc : Hand(d)' = Hand(d)
    BY Zenon, <1>2, <2>1
  <2>3. /\ mem'.in \subseteq mem'.used /\ mem'.used \subseteq Nodes
        /\ \A d \in DOMAIN pc : Hand(d)' \subseteq mem'.used /\ Hand(d)' \cap mem'.in = {}
    BY Zenon, <1>1, <2>2 DEF LfHands
  <2>4. \A d, b \in DOMAIN pc : d # b => Hand(d)' \cap Hand(b)' = {}
    BY Zenon, <1>1, <2>2 DEF LfHands
  <2> QED
    BY Zenon, <1>2, <2>3, <2>4 DEF LfHands
<1>6. LfReads'
  <2>1. ASSUME NEW d \in DOMAIN pc, d # c, pc[d] \in {"next", "popcas"}, d \notin mem'.stale
        PROVE  d \notin mem.stale /\ Safe(d)' /\ mem'.next[mem.old[d]] = mem.next[mem.old[d]]
    <3>1. d \notin mem.stale
      BY <2>1
    <3>2. Safe(d)
      BY Zenon, <1>1, <2>1, <3>1 DEF LfReads
    <3>3. mem.in \subseteq mem'.in /\ pc[c] # "free"
      BY Zenon, <1>2
    <3>4. Safe(d)'
      BY Zenon, <1>2, <1>3, <2>1, <3>2, <3>3, SafeKept
    <3> QED
      BY Zenon, <3>1, <3>4
  <2>2. /\ pc'[c] # "cas" /\ (pc'[c] \in {"next", "popcas"} /\ c \notin mem'.stale => Safe(c)')
        /\ (pc'[c] = "popcas" /\ c \notin mem'.stale => mem'.after[c] = mem'.next[mem'.old[c]])
    BY Zenon, <1>2
  <2>3. \A d \in DOMAIN pc : d # c /\ pc[d] = "cas" => mem'.next[mem.node[d]] = mem.next[mem.node[d]]
    BY Zenon
  <2> QED
    BY Zenon, <1>1, <1>2, <1>3, <2>1, <2>2, <2>3, LfReadsMove
<1> QED
  BY Zenon, <1>2, <1>4, <1>5, <1>6 DEF LfSound

LEMMA LfPopLoads ==
  ASSUME LfType, LfSound, NEW c \in DOMAIN pc, LfShape', DidPopLoad(c)
  PROVE  LfType' /\ LfSound'
<1>1. PICK l \in {"push", "pop"}, to \in {"push", "done", "next"} :
        /\ Client(c, l, to, mem.node[c], mem.head, mem.after[c]) /\ (to = "next" => mem.head # 0)
        /\ mem'.stale = mem.stale \ {c} /\ UNCHANGED <<mem.head, mem.next, mem.used, mem.in>>
  BY Zenon DEF DidPopLoad
<1>2. l \in LfLabels /\ to \in LfLabels /\ l # "free" /\ to # "cas" /\ to # "popcas"
  BY DEF LfLabels
<1>3. InHand(to, mem.node[c], mem.head) = InHand(l, mem.node[c], mem.old[c])
  BY DEF InHand
<1>4. mem.stale \subseteq mem'.stale \cup {c}
  BY <1>1
<1>5. to \in {"next", "popcas"} => Safe(c)'
  <2>1. to = "next" => mem'.old[c] \in mem'.in
    <3>1. mem'.old[c] = mem.head /\ mem'.in = mem.in
      BY Zenon, <1>1 DEF Client
    <3> QED
      BY Zenon, <1>1, <3>1, LfFacts
  <2> QED
    BY Zenon, <1>2, <2>1 DEF Safe
<1> QED
  BY Zenon, <1>1, <1>2, <1>3, <1>4, <1>5, LfStays

LEMMA LfPopNexts ==
  ASSUME LfType, LfSound, NEW c \in DOMAIN pc, LfShape', DidPopNext(c)
  PROVE  LfType' /\ LfSound'
<1>1. /\ Client(c, "next", "popcas", mem.node[c], mem.old[c], mem.next[mem.old[c]])
      /\ UNCHANGED <<mem.head, mem.next, mem.used, mem.in, mem.stale>>
  BY Zenon DEF DidPopNext
<1>2. InHand("popcas", mem.node[c], mem.old[c]) = InHand("next", mem.node[c], mem.old[c])
  BY DEF InHand
<1>3. mem.stale \subseteq mem'.stale \cup {c}
  BY <1>1
<1>4. mem'.old[c] = mem.old[c] /\ mem'.after[c] = mem.next[mem.old[c]] /\ pc[c] = "next"
  BY Zenon, <1>1 DEF Client
<1>5. mem'.after[c] = mem'.next[mem'.old[c]]
  BY Zenon, <1>1, <1>4
<1>6. Safe(c)' \/ c \in mem'.stale
  <2>1. CASE c \in mem.stale
    BY Zenon, <1>1, <2>1
  <2>2. CASE c \notin mem.stale
    <3>1. Safe(c)
      BY Zenon, <1>4, <2>2, LfFacts DEF LfReads
    <3>2. CASE mem.old[c] \in mem.in
      BY Zenon, <1>1, <1>4, <3>2 DEF Safe
    <3>3. CASE \E d \in DOMAIN pc : d # c /\ pc[d] = "free" /\ mem.old[d] = mem.old[c]
      <4>1. PICK d \in DOMAIN pc : d # c /\ pc[d] = "free" /\ mem.old[d] = mem.old[c]
        BY Zenon, <3>3
      <4>2. d \in DOMAIN pc' /\ pc'[d] = "free" /\ mem'.old[d] = mem'.old[c]
        BY Zenon, <1>1, <1>4, <4>1 DEF Client
      <4> QED
        BY Zenon, <4>1, <4>2 DEF Safe
    <3> QED
      BY Zenon, <3>1, <3>2, <3>3 DEF Safe
  <2> QED
    BY Zenon, <2>1, <2>2
<1> QED
  BY Zenon, <1>1, <1>2, <1>3, <1>5, <1>6, LfStays, LfLabelsAre

LEMMA LfFails ==
  ASSUME LfType, LfSound, NEW c \in DOMAIN pc, LfShape', DidFail(c)
  PROVE  LfType' /\ LfSound'
<1>1. /\ UNCHANGED <<mem.head, mem.next, mem.used, mem.in, mem.stale>>
      /\ \/ Client(c, "cas", "load", mem.node[c], mem.old[c], mem.after[c])
         \/ Client(c, "popcas", "pop", mem.node[c], mem.old[c], mem.after[c])
  BY Zenon DEF DidFail
<1>2. /\ InHand("load", mem.node[c], mem.old[c]) = InHand("cas", mem.node[c], mem.old[c])
      /\ InHand("pop", mem.node[c], mem.old[c]) = InHand("popcas", mem.node[c], mem.old[c])
  BY DEF InHand
<1>3. mem.stale \subseteq mem'.stale \cup {c}
  BY <1>1
<1>4. "load" \notin {"next", "popcas"} /\ "pop" \notin {"next", "popcas"} /\ "load" # "popcas" /\ "pop" # "popcas"
  OBVIOUS
<1>5. CASE Client(c, "cas", "load", mem.node[c], mem.old[c], mem.after[c])
  BY Zenon, <1>1, <1>2, <1>3, <1>4, <1>5, LfStays, LfLabelsAre
<1>6. CASE Client(c, "popcas", "pop", mem.node[c], mem.old[c], mem.after[c])
  BY Zenon, <1>1, <1>2, <1>3, <1>4, <1>6, LfStays, LfLabelsAre
<1> QED
  BY Zenon, <1>1, <1>5, <1>6

LEMMA LfMallocs ==
  ASSUME LfType, LfSound, NEW c \in DOMAIN pc, LfShape', DidMalloc(c)
  PROVE  LfType' /\ LfSound'
<1>1. PICK n \in Nodes \ mem.used :
        /\ Client(c, "push", "load", n, mem.old[c], mem.after[c])
        /\ mem'.used = mem.used \cup {n} /\ UNCHANGED <<mem.head, mem.next, mem.in, mem.stale>>
  BY Zenon DEF DidMalloc
<1>2. /\ mem.next \in [Nodes -> Nodes \cup {0}] /\ Stack(mem.head, mem.next, mem.in) /\ LfHands /\ LfReads
      /\ mem.in \subseteq mem.used /\ mem.used \subseteq Nodes
      /\ \A d \in DOMAIN pc : Hand(d) \subseteq mem.used /\ Hand(d) \cap mem.in = {}
  BY Zenon, LfFacts
<1>3. /\ LfType' /\ DOMAIN pc' = DOMAIN pc /\ pc[c] = "push" /\ pc'[c] = "load" /\ Hand(c)' = {n}
      /\ \A d \in DOMAIN pc : d # c => (pc'[d] = pc[d] /\ Hand(d)' = Hand(d))
  <2>1. LfLinks'
    BY Zenon, <1>1, <1>2 DEF LfLinks
  <2>2. /\ LfType' /\ DOMAIN pc' = DOMAIN pc /\ pc[c] = "push" /\ pc'[c] = "load"
        /\ Hand(c)' = InHand("load", n, mem.old[c])
        /\ \A d \in DOMAIN pc : d # c => (pc'[d] = pc[d] /\ Hand(d)' = Hand(d))
    <3>1. "push" \in LfLabels /\ "load" \in LfLabels
      BY Zenon, LfLabelsAre
    <3>2. Client(c, "push", "load", n, mem.old[c], mem.after[c])
      BY Zenon, <1>1
    <3>3. Turns(c, "push", "load", InHand("load", n, mem.old[c]))
      BY Zenon, <2>1, <3>1, <3>2, LfOthers
    <3> QED
      BY Zenon, <3>3 DEF Turns
  <2> QED
    BY Zenon, <2>2, InHands
<1>4. \A d \in DOMAIN pc : d # c => /\ pc'[d] = pc[d] /\ mem'.node[d] = mem.node[d] /\ mem'.old[d] = mem.old[d]
                                    /\ mem'.after[d] = mem.after[d]
  BY Zenon, <1>1, <1>3 DEF Client
<1>5. Stack(mem'.head, mem'.next, mem'.in)
  BY Zenon, <1>1, <1>2
<1>6. LfHands'
  <2>1. /\ mem'.in \subseteq mem'.used /\ mem'.used \subseteq Nodes /\ Hand(c)' \subseteq mem'.used
        /\ Hand(c)' \cap mem'.in = {}
    BY <1>1, <1>2, <1>3
  <2>2. ASSUME NEW d \in DOMAIN pc, d # c
        PROVE  Hand(d) \subseteq mem'.used /\ Hand(d) \cap mem'.in = {} /\ Hand(d) \cap Hand(c)' = {}
    <3>1. Hand(d) \subseteq mem.used /\ Hand(d) \cap mem.in = {}
      BY Zenon, <1>2
    <3> QED
      BY <1>1, <1>3, <3>1
  <2> QED
    BY Zenon, <1>2, <1>3, <2>1, <2>2, LfHandsMove
<1>7. LfReads'
  <2>1. ASSUME NEW d \in DOMAIN pc, d # c, pc[d] \in {"next", "popcas"}, d \notin mem'.stale
        PROVE  d \notin mem.stale /\ Safe(d)' /\ mem'.next[mem.old[d]] = mem.next[mem.old[d]]
    <3>1. d \notin mem.stale
      BY Zenon, <1>1, <2>1
    <3>2. Safe(d)
      BY Zenon, <1>2, <2>1, <3>1 DEF LfReads
    <3>3. mem.in \subseteq mem'.in /\ pc[c] # "free"
      BY Zenon, <1>1, <1>3, LfLabelsAre
    <3>4. Safe(d)'
      BY Zenon, <1>3, <1>4, <2>1, <3>2, <3>3, SafeKept
    <3> QED
      BY Zenon, <1>1, <3>1, <3>4
  <2>2. pc'[c] # "cas" /\ pc'[c] \notin {"next", "popcas"} /\ pc'[c] # "popcas"
    BY <1>3
  <2>3. \A d \in DOMAIN pc : d # c /\ pc[d] = "cas" => mem'.next[mem.node[d]] = mem.next[mem.node[d]]
    BY Zenon, <1>1
  <2> QED
    BY ZenonT(40), <1>2, <1>3, <1>4, <2>1, <2>2, <2>3, LfReadsMove
<1> QED
  BY Zenon, <1>3, <1>5, <1>6, <1>7 DEF LfSound

LEMMA LfLoads ==
  ASSUME LfType, LfSound, NEW c \in DOMAIN pc, LfShape', DidLoad(c)
  PROVE  LfType' /\ LfSound'
<1>1. /\ Client(c, "load", "cas", mem.node[c], mem.head, mem.after[c])
      /\ mem'.next = [mem.next EXCEPT ![mem.node[c]] = mem.head] /\ mem'.stale = mem.stale \ {c}
      /\ UNCHANGED <<mem.head, mem.used, mem.in>>
  BY Zenon DEF DidLoad
<1>2. /\ mem.next \in [Nodes -> Nodes \cup {0}] /\ Stack(mem.head, mem.next, mem.in) /\ LfHands /\ LfReads
      /\ mem.in \subseteq mem.used /\ mem.used \subseteq Nodes /\ mem.head \in Nodes \cup {0}
      /\ \A d \in DOMAIN pc : Hand(d) \subseteq mem.used /\ Hand(d) \cap mem.in = {}
      /\ \A b, d \in DOMAIN pc : b # d => Hand(b) \cap Hand(d) = {}
  BY Zenon, LfFacts
<1>3. /\ LfType' /\ DOMAIN pc' = DOMAIN pc /\ pc[c] = "load" /\ pc'[c] = "cas" /\ Hand(c)' = {mem.node[c]}
      /\ \A d \in DOMAIN pc : d # c => (pc'[d] = pc[d] /\ Hand(d)' = Hand(d))
  <2>1. LfLinks'
    BY Zenon, <1>1, <1>2 DEF LfLinks
  <2>2. /\ LfType' /\ DOMAIN pc' = DOMAIN pc /\ pc[c] = "load" /\ pc'[c] = "cas"
        /\ Hand(c)' = InHand("cas", mem.node[c], mem.head)
        /\ \A d \in DOMAIN pc : d # c => (pc'[d] = pc[d] /\ Hand(d)' = Hand(d))
    <3>1. "load" \in LfLabels /\ "cas" \in LfLabels
      BY Zenon, LfLabelsAre
    <3>2. Client(c, "load", "cas", mem.node[c], mem.head, mem.after[c])
      BY Zenon, <1>1
    <3>3. Turns(c, "load", "cas", InHand("cas", mem.node[c], mem.head))
      BY Zenon, <2>1, <3>1, <3>2, LfOthers
    <3> QED
      BY Zenon, <3>3 DEF Turns
  <2> QED
    BY Zenon, <2>2, InHands
<1>4. \A d \in DOMAIN pc : d # c => /\ pc'[d] = pc[d] /\ mem'.node[d] = mem.node[d] /\ mem'.old[d] = mem.old[d]
                                    /\ mem'.after[d] = mem.after[d]
  BY Zenon, <1>1, <1>3 DEF Client
<1>5. Hand(c) = {mem.node[c]}
  <2>1. pc[c] \in {"load", "cas"}
    BY <1>3
  <2> QED
    BY Zenon, <2>1, HandIs
<1>6. mem.node[c] \notin mem.in /\ mem.node[c] \in Nodes
  <2>1. Hand(c) \subseteq mem.used /\ Hand(c) \cap mem.in = {}
    BY Zenon, <1>2
  <2> QED
    BY <1>2, <1>5, <2>1
<1>7. Stack(mem'.head, mem'.next, mem'.in)
  <2>1. Stack(mem.head, [mem.next EXCEPT ![mem.node[c]] = mem.head], mem.in)
    BY Zenon, <1>2, <1>6, StackElsewhere
  <2> QED
    BY Zenon, <1>1, <2>1
<1>8. LfHands'
  <2>1. \A d \in DOMAIN pc : Hand(d)' = Hand(d)
    BY Zenon, <1>3, <1>5
  <2>2. /\ mem'.in \subseteq mem'.used /\ mem'.used \subseteq Nodes
        /\ \A d \in DOMAIN pc : Hand(d)' \subseteq mem'.used /\ Hand(d)' \cap mem'.in = {}
    <3>1. mem'.in = mem.in /\ mem'.used = mem.used
      BY Zenon, <1>1
    <3> QED
      BY Zenon, <1>2, <2>1, <3>1
  <2>3. \A d, b \in DOMAIN pc : d # b => Hand(d)' \cap Hand(b)' = {}
    BY Zenon, <1>2, <2>1
  <2> QED
    BY Zenon, <1>3, <2>2, <2>3 DEF LfHands
<1>9. ASSUME NEW x, x # mem.node[c] PROVE mem'.next[x] = mem.next[x] \/ x \notin Nodes
  BY Zenon, <1>1, <1>2, <1>9
<1>10. ASSUME NEW d \in DOMAIN pc, d # c, NEW x \in Hand(d) PROVE x # mem.node[c] /\ x \in Nodes
  <2>1. Hand(d) \cap Hand(c) = {} /\ Hand(d) \subseteq Nodes
    BY <1>2, <1>10
  <2> QED
    BY <1>5, <2>1
<1>11. LfReads'
  <2>1. ASSUME NEW d \in DOMAIN pc, d # c, pc[d] \in {"next", "popcas"}, d \notin mem'.stale
        PROVE  d \notin mem.stale /\ Safe(d)' /\ mem'.next[mem.old[d]] = mem.next[mem.old[d]]
    <3>1. d \notin mem.stale
      BY <1>1, <2>1
    <3>2. Safe(d)
      BY Zenon, <1>2, <2>1, <3>1 DEF LfReads
    <3>3. mem.in \subseteq mem'.in /\ pc[c] # "free"
      BY Zenon, <1>1, <1>3, LfLabelsAre
    <3>4. Safe(d)'
      BY Zenon, <1>3, <1>4, <2>1, <3>2, <3>3, SafeKept
    <3>5. mem.old[d] # mem.node[c] /\ mem.old[d] \in Nodes
      <4>1. CASE mem.old[d] \in mem.in
        BY <1>2, <1>6, <4>1
      <4>2. CASE \E b \in DOMAIN pc : b # d /\ pc[b] = "free" /\ mem.old[b] = mem.old[d]
        <5>1. PICK b \in DOMAIN pc : pc[b] = "free" /\ mem.old[b] = mem.old[d]
          BY Zenon, <4>2
        <5>2. b # c /\ mem.old[b] \in Hand(b)
          BY Zenon, <3>3, <5>1, HandIs
        <5> QED
          BY Zenon, <1>10, <5>1, <5>2
      <4> QED
        BY Zenon, <3>2, <4>1, <4>2 DEF Safe
    <3> QED
      BY Zenon, <1>9, <3>1, <3>4, <3>5
  <2>2. /\ mem'.next[mem'.node[c]] = mem'.old[c] /\ pc'[c] \notin {"next", "popcas"} /\ pc'[c] # "popcas"
    <3>1. mem'.node[c] = mem.node[c] /\ mem'.old[c] = mem.head
      BY Zenon, <1>1 DEF Client
    <3>2. mem'.next[mem.node[c]] = mem.head
      BY Zenon, <1>1, <1>2, <1>6
    <3> QED
      BY Zenon, <1>3, <3>1, <3>2, LfLabelsAre
  <2>3. ASSUME NEW d \in DOMAIN pc, d # c, pc[d] = "cas" PROVE mem'.next[mem.node[d]] = mem.next[mem.node[d]]
    <3>1. pc[d] \in {"load", "cas"}
      BY <2>3
    <3>2. mem.node[d] \in Hand(d)
      BY Zenon, <3>1, HandIs
    <3> QED
      BY Zenon, <1>9, <1>10, <2>3, <3>2
  <2> QED
    BY ZenonT(40), <1>2, <1>3, <1>4, <2>1, <2>2, <2>3, LfReadsMove
<1> QED
  BY Zenon, <1>3, <1>7, <1>8, <1>11 DEF LfSound

LEMMA LfSwaps ==
  ASSUME LfType, LfSound, NEW c \in DOMAIN pc, LfShape', DidSwap(c)
  PROVE  LfType' /\ LfSound'
<1>1. /\ mem.head = mem.old[c] /\ Client(c, "cas", "push", mem.node[c], mem.old[c], mem.after[c])
      /\ mem'.head = mem.node[c] /\ mem'.in = mem.in \cup {mem.node[c]}
      /\ UNCHANGED <<mem.next, mem.used, mem.stale>>
  BY Zenon DEF DidSwap
<1>2. /\ mem.next \in [Nodes -> Nodes \cup {0}] /\ Stack(mem.head, mem.next, mem.in) /\ LfHands /\ LfReads
      /\ mem.in \subseteq mem.used /\ mem.used \subseteq Nodes
      /\ \A d \in DOMAIN pc : Hand(d) \subseteq mem.used /\ Hand(d) \cap mem.in = {}
      /\ \A b, d \in DOMAIN pc : b # d => Hand(b) \cap Hand(d) = {}
  BY Zenon, LfFacts
<1>3. /\ LfType' /\ DOMAIN pc' = DOMAIN pc /\ pc[c] = "cas" /\ pc'[c] = "push" /\ Hand(c)' = {}
      /\ \A d \in DOMAIN pc : d # c => (pc'[d] = pc[d] /\ Hand(d)' = Hand(d))
  <2>1. LfLinks'
    BY Zenon, <1>1, <1>2 DEF LfLinks
  <2>2. "cas" \in LfLabels /\ "push" \in LfLabels
    BY Zenon, LfLabelsAre
  <2>3. /\ LfType' /\ DOMAIN pc' = DOMAIN pc /\ pc[c] = "cas" /\ pc'[c] = "push"
        /\ Hand(c)' = InHand("push", mem.node[c], mem.old[c])
        /\ \A d \in DOMAIN pc : d # c => (pc'[d] = pc[d] /\ Hand(d)' = Hand(d))
    <3>1. Client(c, "cas", "push", mem.node[c], mem.old[c], mem.after[c])
      BY Zenon, <1>1
    <3>2. Turns(c, "cas", "push", InHand("push", mem.node[c], mem.old[c]))
      BY Zenon, <2>1, <2>2, <3>1, LfOthers
    <3> QED
      BY Zenon, <3>2 DEF Turns
  <2>4. InHand("push", mem.node[c], mem.old[c]) = {}
    BY DEF InHand
  <2> QED
    BY Zenon, <2>3, <2>4
<1>4. \A d \in DOMAIN pc : d # c => /\ pc'[d] = pc[d] /\ mem'.node[d] = mem.node[d] /\ mem'.old[d] = mem.old[d]
                                    /\ mem'.after[d] = mem.after[d]
  BY Zenon, <1>1, <1>3 DEF Client
<1>5. Hand(c) = {mem.node[c]}
  <2>1. pc[c] \in {"load", "cas"}
    BY <1>3
  <2> QED
    BY Zenon, <2>1, HandIs
<1>6. mem.node[c] \notin mem.in /\ mem.node[c] \in mem.used
  <2>1. Hand(c) \subseteq mem.used /\ Hand(c) \cap mem.in = {}
    BY Zenon, <1>2
  <2> QED
    BY <1>5, <2>1
<1>7. Stack(mem'.head, mem'.next, mem'.in)
  <2>1. mem.next[mem.node[c]] = mem.head
    BY Zenon, <1>1, <1>2, <1>3 DEF LfReads
  <2>2. mem.node[c] \in Nodes
    BY <1>2, <1>6
  <2>3. Stack(mem.node[c], mem.next, mem.in \cup {mem.node[c]})
    BY Zenon, <1>2, <1>6, <2>1, <2>2, StackPushed
  <2> QED
    BY Zenon, <1>1, <2>3
<1>8. LfHands'
  <2>1. /\ mem'.in \subseteq mem'.used /\ mem'.used \subseteq Nodes /\ Hand(c)' \subseteq mem'.used
        /\ Hand(c)' \cap mem'.in = {}
    BY <1>1, <1>2, <1>3, <1>6
  <2>2. ASSUME NEW d \in DOMAIN pc, d # c
        PROVE  Hand(d) \subseteq mem'.used /\ Hand(d) \cap mem'.in = {} /\ Hand(d) \cap Hand(c)' = {}
    <3>1. Hand(d) \subseteq mem.used /\ Hand(d) \cap mem.in = {} /\ Hand(d) \cap Hand(c) = {}
      BY Zenon, <1>2, <2>2
    <3> QED
      BY <1>1, <1>3, <1>5, <3>1
  <2> QED
    BY Zenon, <1>2, <1>3, <2>1, <2>2, LfHandsMove
<1>9. LfReads'
  <2>1. ASSUME NEW d \in DOMAIN pc, d # c, pc[d] \in {"next", "popcas"}, d \notin mem'.stale
        PROVE  d \notin mem.stale /\ Safe(d)' /\ mem'.next[mem.old[d]] = mem.next[mem.old[d]]
    <3>1. d \notin mem.stale
      BY Zenon, <1>1, <2>1
    <3>2. Safe(d)
      BY Zenon, <1>2, <2>1, <3>1 DEF LfReads
    <3>3. mem.in \subseteq mem'.in /\ pc[c] # "free"
      BY <1>1, <1>3
    <3>4. Safe(d)'
      BY Zenon, <1>3, <1>4, <2>1, <3>2, <3>3, SafeKept
    <3> QED
      BY Zenon, <1>1, <3>1, <3>4
  <2>2. pc'[c] # "cas" /\ pc'[c] \notin {"next", "popcas"} /\ pc'[c] # "popcas"
    BY <1>3
  <2>3. \A d \in DOMAIN pc : d # c /\ pc[d] = "cas" => mem'.next[mem.node[d]] = mem.next[mem.node[d]]
    BY Zenon, <1>1
  <2> QED
    BY ZenonT(40), <1>2, <1>3, <1>4, <2>1, <2>2, <2>3, LfReadsMove
<1> QED
  BY Zenon, <1>3, <1>7, <1>8, <1>9 DEF LfSound

(* The exchange of a client that is not stale takes the head away. *)
LEMMA LfPopSwaps ==
  ASSUME LfType, LfSound, NEW c \in DOMAIN pc, LfShape', DidPopSwap(c), c \notin mem.stale
  PROVE  LfType' /\ LfSound'
<1>1. /\ mem.head = mem.old[c] /\ Client(c, "popcas", "free", mem.node[c], mem.old[c], mem.after[c])
      /\ mem'.head = mem.after[c] /\ mem'.in = mem.in \ {mem.old[c]}
      /\ UNCHANGED <<mem.next, mem.used, mem.stale>>
  BY Zenon DEF DidPopSwap
<1>2. /\ mem.next \in [Nodes -> Nodes \cup {0}] /\ Stack(mem.head, mem.next, mem.in) /\ LfHands /\ LfReads
      /\ mem.in \subseteq mem.used /\ mem.used \subseteq Nodes
      /\ \A d \in DOMAIN pc : Hand(d) \subseteq mem.used /\ Hand(d) \cap mem.in = {}
      /\ \A b, d \in DOMAIN pc : b # d => Hand(b) \cap Hand(d) = {}
      /\ mem.in \subseteq Nodes /\ (mem.head # 0 => mem.head \in mem.in)
  BY Zenon, LfFacts
<1>3. /\ LfType' /\ DOMAIN pc' = DOMAIN pc /\ pc[c] = "popcas" /\ pc'[c] = "free" /\ Hand(c)' = {mem.old[c]}
      /\ \A d \in DOMAIN pc : d # c => (pc'[d] = pc[d] /\ Hand(d)' = Hand(d))
  <2>1. LfLinks'
    BY Zenon, <1>1, <1>2 DEF LfLinks
  <2>2. "popcas" \in LfLabels /\ "free" \in LfLabels
    BY Zenon, LfLabelsAre
  <2>3. /\ LfType' /\ DOMAIN pc' = DOMAIN pc /\ pc[c] = "popcas" /\ pc'[c] = "free"
        /\ Hand(c)' = InHand("free", mem.node[c], mem.old[c])
        /\ \A d \in DOMAIN pc : d # c => (pc'[d] = pc[d] /\ Hand(d)' = Hand(d))
    <3>1. Client(c, "popcas", "free", mem.node[c], mem.old[c], mem.after[c])
      BY Zenon, <1>1
    <3>2. Turns(c, "popcas", "free", InHand("free", mem.node[c], mem.old[c]))
      BY Zenon, <2>1, <2>2, <3>1, LfOthers
    <3> QED
      BY Zenon, <3>2 DEF Turns
  <2>4. InHand("free", mem.node[c], mem.old[c]) = {mem.old[c]}
    BY DEF InHand
  <2> QED
    BY Zenon, <2>3, <2>4
<1>4. /\ \A d \in DOMAIN pc : d # c => /\ pc'[d] = pc[d] /\ mem'.node[d] = mem.node[d] /\ mem'.old[d] = mem.old[d]
                                       /\ mem'.after[d] = mem.after[d]
      /\ mem'.old[c] = mem.old[c]
  BY Zenon, <1>1, <1>3 DEF Client
<1>5. /\ Safe(c) /\ mem.after[c] = mem.next[mem.old[c]]
      /\ \A d \in DOMAIN pc : pc[d] \in {"next", "popcas"} /\ d \notin mem.stale => Safe(d)
  <2>1. pc[c] \in {"next", "popcas"}
    BY <1>3
  <2> QED
    BY Zenon, <1>2, <1>3, <2>1 DEF LfReads
<1>6. mem.old[c] \in mem.in /\ mem.head # 0
  <2>1. mem.old[c] \in Nodes
    <3>1. CASE mem.old[c] \in mem.in
      BY Zenon, <1>2, <3>1
    <3>2. CASE \E d \in DOMAIN pc : d # c /\ pc[d] = "free" /\ mem.old[d] = mem.old[c]
      <4>1. PICK d \in DOMAIN pc : pc[d] = "free" /\ mem.old[d] = mem.old[c]
        BY Zenon, <3>2
      <4>2. mem.old[d] \in Hand(d)
        BY Zenon, <4>1, HandIs
      <4>3. Hand(d) \subseteq Nodes
        BY <1>2
      <4> QED
        BY Zenon, <4>1, <4>2, <4>3
    <3> QED
      BY Zenon, <1>5, <3>1, <3>2 DEF Safe
  <2>2. mem.head # 0
    BY <1>1, <2>1, LockFreeAssumption
  <2> QED
    BY Zenon, <1>1, <1>2, <2>2
<1>7. Stack(mem'.head, mem'.next, mem'.in)
  <2>1. Stack(mem.next[mem.head], mem.next, mem.in \ {mem.head})
    BY Zenon, <1>2, <1>6, StackPopped
  <2>2. mem'.head = mem.next[mem.head] /\ mem'.next = mem.next /\ mem'.in = mem.in \ {mem.head}
    BY Zenon, <1>1, <1>5
  <2> QED
    BY Zenon, <2>1, <2>2
<1>8. LfHands'
  <2>1. /\ mem'.in \subseteq mem'.used /\ mem'.used \subseteq Nodes /\ Hand(c)' \subseteq mem'.used
        /\ Hand(c)' \cap mem'.in = {}
    BY <1>1, <1>2, <1>3, <1>6
  <2>2. ASSUME NEW d \in DOMAIN pc, d # c
        PROVE  Hand(d) \subseteq mem'.used /\ Hand(d) \cap mem'.in = {} /\ Hand(d) \cap Hand(c)' = {}
    <3>1. Hand(d) \subseteq mem.used /\ Hand(d) \cap mem.in = {}
      BY Zenon, <1>2
    <3> QED
      BY <1>1, <1>3, <1>6, <3>1
  <2> QED
    BY Zenon, <1>2, <1>3, <2>1, <2>2, LfHandsMove
<1>9. LfReads'
  <2>1. ASSUME NEW d \in DOMAIN pc, d # c, pc[d] \in {"next", "popcas"}, d \notin mem'.stale
        PROVE  d \notin mem.stale /\ Safe(d)' /\ mem'.next[mem.old[d]] = mem.next[mem.old[d]]
    <3>1. d \notin mem.stale /\ mem'.old[d] = mem.old[d]
      BY Zenon, <1>1, <1>4, <2>1
    <3>2. Safe(d)
      BY Zenon, <1>5, <2>1, <3>1
    <3>3. CASE mem.old[d] = mem.old[c]
      <4>1. c \in DOMAIN pc' /\ c # d /\ pc'[c] = "free" /\ mem'.old[c] = mem'.old[d]
        BY Zenon, <1>3, <1>4, <2>1, <3>1, <3>3
      <4> QED
        BY Zenon, <1>1, <3>1, <4>1 DEF Safe
    <3>4. CASE mem.old[d] # mem.old[c]
      <4>1. CASE mem.old[d] \in mem.in
        <5>1. mem'.old[d] \in mem'.in
          BY <1>1, <3>1, <3>4, <4>1
        <5> QED
          BY Zenon, <1>1, <3>1, <5>1 DEF Safe
      <4>2. CASE \E b \in DOMAIN pc : b # d /\ pc[b] = "free" /\ mem.old[b] = mem.old[d]
        <5>1. PICK b \in DOMAIN pc : b # d /\ pc[b] = "free" /\ mem.old[b] = mem.old[d]
          BY Zenon, <4>2
        <5>2. b # c
          BY Zenon, <3>4, <5>1
        <5>3. b \in DOMAIN pc' /\ pc'[b] = "free" /\ mem'.old[b] = mem'.old[d]
          BY Zenon, <1>3, <1>4, <3>1, <5>1, <5>2
        <5> QED
          BY Zenon, <1>1, <3>1, <5>1, <5>3 DEF Safe
      <4> QED
        BY Zenon, <3>2, <4>1, <4>2 DEF Safe
    <3> QED
      BY Zenon, <3>3, <3>4
  <2>2. pc'[c] # "cas" /\ pc'[c] \notin {"next", "popcas"} /\ pc'[c] # "popcas"
    BY <1>3
  <2>3. \A d \in DOMAIN pc : d # c /\ pc[d] = "cas" => mem'.next[mem.node[d]] = mem.next[mem.node[d]]
    BY Zenon, <1>1
  <2> QED
    BY ZenonT(40), <1>2, <1>3, <1>4, <2>1, <2>2, <2>3, LfReadsMove
<1> QED
  BY Zenon, <1>3, <1>7, <1>8, <1>9 DEF LfSound

(* A client whose old head is freed becomes stale. *)
LEMMA LfFrees ==
  ASSUME LfType, LfSound, NEW c \in DOMAIN pc, LfShape', DidFree(c)
  PROVE  LfType' /\ LfSound'
<1>0. /\ mem'.used = mem.used \ {mem.old[c]}
      /\ mem'.stale = mem.stale \cup {d \in DOMAIN pc : d # c /\ mem.old[d] = mem.old[c]}
      /\ UNCHANGED <<mem.head, mem.next, mem.in>>
  BY Zenon DEF DidFree
<1>1. PICK to \in {"push", "pop"} : Client(c, "free", to, mem.node[c], mem.old[c], mem.after[c])
  BY Zenon DEF DidFree
<1>2. /\ mem.next \in [Nodes -> Nodes \cup {0}] /\ Stack(mem.head, mem.next, mem.in) /\ LfHands /\ LfReads
      /\ mem.in \subseteq mem.used /\ mem.used \subseteq Nodes
      /\ \A d \in DOMAIN pc : Hand(d) \subseteq mem.used /\ Hand(d) \cap mem.in = {}
      /\ \A b, d \in DOMAIN pc : b # d => Hand(b) \cap Hand(d) = {}
  BY Zenon, LfFacts
<1>3. /\ LfType' /\ DOMAIN pc' = DOMAIN pc /\ pc[c] = "free" /\ pc'[c] = to /\ Hand(c)' = {}
      /\ \A d \in DOMAIN pc : d # c => (pc'[d] = pc[d] /\ Hand(d)' = Hand(d))
  <2>1. LfLinks'
    BY Zenon, <1>0, <1>2 DEF LfLinks
  <2>2. "free" \in LfLabels /\ to \in LfLabels
    BY DEF LfLabels
  <2>3. /\ LfType' /\ DOMAIN pc' = DOMAIN pc /\ pc[c] = "free" /\ pc'[c] = to
        /\ Hand(c)' = InHand(to, mem.node[c], mem.old[c])
        /\ \A d \in DOMAIN pc : d # c => (pc'[d] = pc[d] /\ Hand(d)' = Hand(d))
    <3>1. Turns(c, "free", to, InHand(to, mem.node[c], mem.old[c]))
      BY Zenon, <1>1, <2>1, <2>2, LfOthers
    <3> QED
      BY Zenon, <3>1 DEF Turns
  <2>4. InHand(to, mem.node[c], mem.old[c]) = {}
    BY DEF InHand
  <2> QED
    BY Zenon, <2>3, <2>4
<1>4. \A d \in DOMAIN pc : d # c => /\ pc'[d] = pc[d] /\ mem'.node[d] = mem.node[d] /\ mem'.old[d] = mem.old[d]
                                    /\ mem'.after[d] = mem.after[d]
  BY Zenon, <1>1, <1>3 DEF Client
<1>5. Hand(c) = {mem.old[c]}
  BY Zenon, <1>3, HandIs
<1>6. Stack(mem'.head, mem'.next, mem'.in)
  BY Zenon, <1>0, <1>2
<1>7. LfHands'
  <2>1. /\ mem'.in \subseteq mem'.used /\ mem'.used \subseteq Nodes /\ Hand(c)' \subseteq mem'.used
        /\ Hand(c)' \cap mem'.in = {}
    <3>1. Hand(c) \cap mem.in = {}
      BY Zenon, <1>2
    <3> QED
      BY <1>0, <1>2, <1>3, <1>5, <3>1
  <2>2. ASSUME NEW d \in DOMAIN pc, d # c
        PROVE  Hand(d) \subseteq mem'.used /\ Hand(d) \cap mem'.in = {} /\ Hand(d) \cap Hand(c)' = {}
    <3>1. Hand(d) \subseteq mem.used /\ Hand(d) \cap mem.in = {} /\ Hand(d) \cap Hand(c) = {}
      BY Zenon, <1>2, <2>2
    <3> QED
      BY <1>0, <1>3, <1>5, <3>1
  <2> QED
    BY Zenon, <1>2, <1>3, <2>1, <2>2, LfHandsMove
<1>8. LfReads'
  <2>1. ASSUME NEW d \in DOMAIN pc, d # c, pc[d] \in {"next", "popcas"}, d \notin mem'.stale
        PROVE  d \notin mem.stale /\ Safe(d)' /\ mem'.next[mem.old[d]] = mem.next[mem.old[d]]
    <3>1. d \notin mem.stale /\ mem.old[d] # mem.old[c]
      BY <1>0, <2>1
    <3>2. Safe(d) /\ mem'.old[d] = mem.old[d]
      BY Zenon, <1>2, <1>4, <2>1, <3>1 DEF LfReads
    <3>3. CASE mem.old[d] \in mem.in
      BY Zenon, <1>0, <3>1, <3>2, <3>3 DEF Safe
    <3>4. CASE \E b \in DOMAIN pc : b # d /\ pc[b] = "free" /\ mem.old[b] = mem.old[d]
      <4>1. PICK b \in DOMAIN pc : b # d /\ pc[b] = "free" /\ mem.old[b] = mem.old[d]
        BY Zenon, <3>4
      <4>2. b # c
        BY Zenon, <3>1, <4>1
      <4>3. b \in DOMAIN pc' /\ pc'[b] = "free" /\ mem'.old[b] = mem'.old[d]
        BY Zenon, <1>3, <1>4, <3>2, <4>1, <4>2
      <4> QED
        BY Zenon, <1>0, <3>1, <4>1, <4>3 DEF Safe
    <3> QED
      BY Zenon, <3>2, <3>3, <3>4 DEF Safe
  <2>2. pc'[c] # "cas" /\ pc'[c] \notin {"next", "popcas"} /\ pc'[c] # "popcas"
    BY <1>3
  <2>3. \A d \in DOMAIN pc : d # c /\ pc[d] = "cas" => mem'.next[mem.node[d]] = mem.next[mem.node[d]]
    BY Zenon, <1>0
  <2> QED
    BY ZenonT(40), <1>2, <1>3, <1>4, <2>1, <2>2, <2>3, LfReadsMove
<1> QED
  BY Zenon, <1>3, <1>6, <1>7, <1>8 DEF LfSound

LEMMA LfAloneMoves ==
  ASSUME LfType, LfAlone, NEW c \in DOMAIN pc, DOMAIN pc' = DOMAIN pc,
         \/ /\ (DidMalloc(c) \/ DidLoad(c) \/ DidSwap(c) \/ DidPopLoad(c) \/ DidFail(c) \/ DidFree(c))
            /\ UNCHANGED mem.undefined
         \/ (DidPopNext(c) \/ DidPopSwap(c)) /\ mem'.undefined = (c \in mem.stale)
  PROVE  LfAlone'
<1>1. DOMAIN pc \in {{"main"}, {"main", "other"}}
  BY Zenon DEF LfType
<1>2. mem'.undefined => (mem.undefined \/ mem.stale # {})
  BY Zenon
<1>3. ASSUME ~(mem'.stale \subseteq mem.stale) PROVE DOMAIN pc = {"main", "other"}
  <2>1. mem'.stale = mem.stale \cup {d \in DOMAIN pc : d # c /\ mem.old[d] = mem.old[c]}
    BY <1>3 DEF DidMalloc, DidLoad, DidSwap, DidPopLoad, DidFail, DidFree, DidPopNext, DidPopSwap
  <2>2. PICK d \in DOMAIN pc : d # c
    BY <1>3, <2>1
  <2> QED
    BY <1>1, <2>2
<1>4. CASE mem'.stale \subseteq mem.stale
  <2>1. mem'.stale # {} => mem.stale # {}
    BY <1>4
  <2> QED
    BY Zenon, <1>2, <2>1 DEF LfAlone
<1> QED
  BY Zenon, <1>3, <1>4 DEF LfAlone

(* A failing malloc ends all the clients: no node is in their hands. *)
LEMMA LfCrashes ==
  ASSUME LfType, LfAlone, LfSound, NEW c, L!MallocFails(c)
  PROVE  LfType' /\ LfAlone' /\ LfSound'
<1>1. pc' = [d \in DOMAIN pc |-> "crashed"] /\ mem' = mem
  BY Zenon DEF L!MallocFails
<1>2. DOMAIN pc' = DOMAIN pc /\ \A d \in DOMAIN pc : pc'[d] = "crashed"
  BY Zenon, <1>1
<1>3. LfType'
  <2>1. LfShape' /\ LfLinks'
    BY Zenon, <1>1 DEF LfType, LfShape, LfLinks
  <2>2. pc' \in [DOMAIN pc -> LfLabels]
    BY Zenon, <1>1, LfLabelsAre
  <2> QED
    BY Zenon, <1>1, <1>2, <2>1, <2>2 DEF LfType
<1>4. LfAlone'
  BY Zenon, <1>1, <1>2 DEF LfAlone
<1>5. \A d \in DOMAIN pc : Hand(d)' = {}
  BY <1>2 DEF Hand, InHand
<1>6. LfHands'
  <2>1. mem'.in \subseteq mem'.used /\ mem'.used \subseteq Nodes
    BY Zenon, <1>1 DEF LfSound, LfHands
  <2> QED
    BY <1>2, <1>5, <2>1 DEF LfHands
<1>7. LfReads'
  BY Zenon, <1>2, LfLabelsAre DEF LfReads
<1>8. Stack(mem.head, mem.next, mem.in)'
  BY Zenon, <1>1 DEF LfSound
<1> QED
  BY Zenon, <1>3, <1>4, <1>6, <1>7, <1>8 DEF LfSound

LEMMA LfKeeps ==
  ASSUME program = "lock_free", LfInv, [Next]_vars
  PROVE  LfInv'
<1>1. LfType /\ LfShape /\ LfAlone
  BY Zenon DEF LfInv, LfType
<1>2. CASE UNCHANGED vars
  <2>1. mem' = mem /\ pc' = pc
    BY Zenon, <1>2 DEF vars
  <2>2. LfType' /\ LfAlone'
    <3>1. LfShape' /\ LfLinks'
      BY Zenon, <1>1, <2>1 DEF LfType, LfShape, LfLinks
    <3>2. LfAlone'
      BY Zenon, <1>1, <2>1 DEF LfAlone
    <3> QED
      BY Zenon, <1>1, <2>1, <3>1, <3>2 DEF LfType
  <2>3. \A c : Hand(c)' = Hand(c) /\ Safe(c)' = Safe(c)
    BY Zenon, <2>1 DEF Hand, Safe
  <2>4. ~mem.undefined => LfHands' /\ LfReads' /\ Stack(mem.head, mem.next, mem.in)'
    BY Zenon, <2>1, <2>3 DEF LfInv, LfSound, LfHands, LfReads
  <2> QED
    BY Zenon, <2>1, <2>2, <2>4 DEF LfInv, LfSound
<1>3. ASSUME NEW c \in DOMAIN pc, L!ClientStep(c), ~L!MallocFails(c) PROVE LfInv'
  <2>1. /\ LfShape' /\ ~mem.undefined
        /\ \/ (DidMalloc(c) \/ DidLoad(c) \/ DidSwap(c) \/ DidPopLoad(c) \/ DidFail(c) \/ DidFree(c))
              /\ UNCHANGED mem.undefined
           \/ (DidPopNext(c) \/ DidPopSwap(c)) /\ mem'.undefined = (c \in mem.stale)
    BY Zenon, <1>1, <1>3, LfMoves
  <2>2. LfSound
    BY Zenon, <2>1 DEF LfInv
  <2>3. LfType' /\ (mem'.undefined \/ LfSound')
    <3>1. CASE DidMalloc(c) \/ DidLoad(c) \/ DidSwap(c)
      BY Zenon, <1>1, <2>1, <2>2, <3>1, LfMallocs, LfLoads, LfSwaps
    <3>2. CASE DidPopLoad(c) \/ DidFail(c) \/ DidFree(c)
      BY Zenon, <1>1, <2>1, <2>2, <3>2, LfPopLoads, LfFails, LfFrees
    <3>3. CASE DidPopNext(c)
      BY Zenon, <1>1, <2>1, <2>2, <3>3, LfPopNexts
    <3>4. CASE DidPopSwap(c) /\ mem'.undefined = (c \in mem.stale)
      <4>1. CASE c \in mem.stale
        <5>1. Client(c, "popcas", "free", mem.node[c], mem.old[c], mem.after[c]) /\ mem'.next = mem.next
          BY Zenon, <3>4 DEF DidPopSwap
        <5>2. LfLinks' /\ "popcas" \in LfLabels /\ "free" \in LfLabels
          BY Zenon, <1>1, <5>1, LfLabelsAre DEF LfType, LfLinks
        <5>3. Turns(c, "popcas", "free", InHand("free", mem.node[c], mem.old[c]))
          BY Zenon, <1>1, <2>1, <5>1, <5>2, LfOthers
        <5> QED
          BY Zenon, <3>4, <4>1, <5>3 DEF Turns
      <4>2. CASE c \notin mem.stale
        BY Zenon, <1>1, <2>1, <2>2, <3>4, <4>2, LfPopSwaps
      <4> QED
        BY Zenon, <4>1, <4>2
    <3> QED
      BY Zenon, <2>1, <3>1, <3>2, <3>3, <3>4
  <2>4. DOMAIN pc' = DOMAIN pc
    <3>1. \A from, to, node, old, after : Client(c, from, to, node, old, after) => DOMAIN pc' = DOMAIN pc
      BY Zenon DEF Client
    <3> QED
      BY Zenon, <2>1, <3>1 DEF DidMalloc, DidLoad, DidSwap, DidPopLoad, DidFail, DidFree, DidPopNext, DidPopSwap
  <2>5. LfAlone'
    BY Zenon, <1>1, <2>1, <2>4, LfAloneMoves
  <2> QED
    BY Zenon, <2>3, <2>5 DEF LfInv
<1>4. ASSUME NEW c \in DOMAIN pc, L!ClientStep(c), L!MallocFails(c) PROVE LfInv'
  <2>1. LfSound
    BY Zenon, <1>4 DEF LfInv, L!ClientStep
  <2> QED
    BY Zenon, <1>1, <1>4, <2>1, LfCrashes DEF LfInv
<1> QED
  BY Zenon, <1>1, <1>2, <1>3, <1>4, LfNext

LEMMA LfStarts ==
  ASSUME program = "lock_free", Init
  PROVE  LfInv
<1>1. PICK clients \in {{"main"}, {"main", "other"}} :
        /\ pc = [c \in clients |-> "push"]
        /\ mem = [head |-> 0, next |-> [n \in Nodes |-> 0], used |-> {},
                  node |-> [c \in clients |-> 0], old |-> [c \in clients |-> 0],
                  after |-> [c \in clients |-> 0], pushed |-> [c \in clients |-> 0],
                  stale |-> {}, in |-> {}, undefined |-> FALSE]
  BY DEF Init, B!Init, C!Init, M!Init, R!Init, L!Init, S!Init, K!Init, B!Start, C!Start,
     M!Start, R!Start, L!Start, S!Start, K!Start, C!Threaded, C!Programs, L!Clients, L!NULL
<1>2. /\ LfShape /\ mem.head = 0 /\ mem.next = [n \in Nodes |-> 0] /\ mem.used = {}
      /\ mem.node = [c \in clients |-> 0] /\ mem.old = [c \in clients |-> 0]
      /\ mem.after = [c \in clients |-> 0] /\ mem.stale = {} /\ mem.in = {} /\ mem.undefined = FALSE
  BY Zenon, <1>1 DEF LfShape
<1>3. DOMAIN pc = clients /\ \A c \in DOMAIN pc : pc[c] = "push"
  BY Zenon, <1>1
<1>4. LfType
  <2>1. mem.next \in [Nodes -> Nodes \cup {0}]
    BY <1>2
  <2>2. pc \in [DOMAIN pc -> LfLabels]
    BY <1>1 DEF LfLabels
  <2>3. DOMAIN mem.node = DOMAIN pc /\ DOMAIN mem.old = DOMAIN pc /\ DOMAIN mem.after = DOMAIN pc
    BY Zenon, <1>2, <1>3
  <2> QED
    BY Zenon, <1>2, <1>3, <2>1, <2>2, <2>3 DEF LfType, LfLinks
<1>5. \A c \in DOMAIN pc : Hand(c) = {} /\ pc[c] \notin {"next", "popcas"} /\ pc[c] # "cas" /\ pc[c] # "popcas"
  BY <1>3, HandIs
<1>6. LfHands
  BY <1>2, <1>5 DEF LfHands
<1>7. LfReads
  BY Zenon, <1>5 DEF LfReads
<1>8. Stack(mem.head, mem.next, mem.in)
  BY Zenon, <1>2, EmptyStack
<1> QED
  BY Zenon, <1>2, <1>4, <1>6, <1>7, <1>8 DEF LfInv, LfSound, LfAlone

LEMMA StructuresKept ==
  ASSUME program = "lock_free" => LfInv, program = "ex1seqlock" => PairInv
  PROVE  L!StructuresIntact
<1>1. ASSUME program = "lock_free"
      PROVE  /\ ~mem.undefined => (L!Chain[L!Cardinality(Nodes)] = mem.in /\ mem.in \subseteq mem.used)
             /\ mem.undefined => DOMAIN pc = L!Clients
  <2>1. ~mem.undefined => Stack(mem.head, mem.next, mem.in) /\ mem.in \subseteq mem.used
    BY Zenon, <1>1 DEF LfInv, LfSound, LfHands
  <2>2. mem.undefined => DOMAIN pc = {"main", "other"}
    BY Zenon, <1>1 DEF LfInv, LfAlone
  <2> QED
    BY Zenon, <2>1, <2>2, ChainIsStack DEF L!Clients
<1>2. ASSUME program = "ex1seqlock" PROVE pc["reader"] = "same" => mem.copy[1] = mem.copy[2]
  BY Zenon, <1>2 DEF PairInv
<1> QED
  BY Zenon, <1>1, <1>2 DEF L!StructuresIntact

-----------------------------------------------------------------------------
(* Every program *)

(* Of the invariants of the programs, the one of the program that runs. *)
IndInv ==
  /\ program = "pc" => PcInv
  /\ program \in WnPrograms => WnInv
  /\ program \in C!Programs => CntInv
  /\ program = "two_way_msg" => TwoInv
  /\ program = "msgsnd" => MsgInv
  /\ program = "async_res_request" => ArrInv
  /\ program = "dinPhil" => DinInv
  /\ program = "periodic_check" => PerInv
  /\ program = "lock_free" => LfInv
  /\ program = "ex1seqlock" => PairInv
  /\ program = "mmap_sharing" => MmapInv
  /\ program = "shm" => ShmInv
  /\ program = "calc" => CalcInv

(* No step changes which program runs. *)
LEMMA ProgramKept ==
  ASSUME [Next]_vars
  PROVE  program' = program
<1>1. CASE B!Next
  BY Zenon, <1>1 DEF B!Next, B!Step, B!PcProducer, B!PcConsumer, B!Producer, B!Consumer, B!Destroy,
     B!Join, B!SemWait, B!SemPost, B!Lock, B!Unlock, B!Wait, B!Relock, B!Signal, B!Goto, B!Move
<1>2. CASE C!Next
  BY Zenon, <1>2 DEF C!Next, C!Step, C!AdderStep, C!Open, C!Enter, C!Read, C!Write, C!End, C!Fork,
     C!Join, C!Lock, C!Unlock, C!Goto, C!Move
<1>3. CASE M!Next
  BY Zenon, <1>3 DEF M!Next, M!Step, M!SendFails, M!GetQueues, M!SendLine, M!LineFails, M!SendAllFails, M!Receive, M!GetQueue, M!SendAll,
     M!ReceiveAll, M!Join, M!Goto, M!Move
<1>4. CASE R!Next
  BY Zenon, <1>4 DEF R!Next, R!Manage, R!Dine, R!Detect, R!Main, R!ManagerStep, R!PhilosopherStep,
     R!DetectorStep, R!MainStep, R!Check, R!Leave, R!ReleaseBroadcasts, R!Join, R!SemWait, R!SemPost,
     R!Lock, R!Unlock, R!Wait, R!Relock, R!Broadcast, R!Goto, R!Move
<1>5. CASE L!Next
  BY Zenon, <1>5 DEF L!Next, L!Step, L!ClientStep, L!WriterStep, L!ReaderStep, L!Malloc, L!MallocFails, L!Load,
     L!Swap, L!PopLoad, L!PopNext, L!PopSwap, L!FreeNode, L!Lock, L!Unlock, L!Goto, L!Move
<1>6. CASE S!Next
  BY Zenon, <1>6 DEF S!Next, S!Step, S!ModeW, S!ModeR, S!Writer, S!Reader, S!WriteText, S!Get, S!Segment,
     S!Fail, S!Goto, S!Move
<1>7. CASE K!Next
  BY Zenon, <1>7 DEF K!Next, K!Step, K!Leave, K!SyntaxError, K!CalculateFails, K!CalculateCrashes,
     K!Calculate, K!Goto, K!Move
<1>8. CASE SpuriousWakeup
  BY Zenon, <1>8 DEF SpuriousWakeup
<1> QED
  BY Zenon, <1>1, <1>2, <1>3, <1>4, <1>5, <1>6, <1>7, <1>8 DEF Next, vars

LEMMA IndStarts ==
  ASSUME Init
  PROVE  IndInv
<1>1. program = "pc" => PcInv
  BY Zenon, PcStarts
<1>2. program \in WnPrograms => WnInv
  BY Zenon, WnStarts
<1>3. program \in C!Programs => CntInv
  BY Zenon, CntStarts
<1>4. program = "two_way_msg" => TwoInv
  BY Zenon, TwoStarts
<1>5. program = "msgsnd" => MsgInv
  BY Zenon, MsgStarts
<1>6. program = "async_res_request" => ArrInv
  BY Zenon, ArrStarts
<1>7. program = "dinPhil" => DinInv
  BY Zenon, DinStarts
<1>8. program = "periodic_check" => PerInv
  BY Zenon, PerStarts
<1>9. program = "lock_free" => LfInv
  BY Zenon, LfStarts
<1>10. program = "ex1seqlock" => PairInv
  BY Zenon, PairStarts
<1>11. program = "mmap_sharing" => MmapInv
  BY Zenon, MmapStarts
<1>12. program = "shm" => ShmInv
  BY Zenon, ShmStarts
<1>13. program = "calc" => CalcInv
  BY Zenon, CalcStarts
<1> QED
  BY Zenon, <1>1, <1>2, <1>3, <1>4, <1>5, <1>6, <1>7, <1>8, <1>9, <1>10, <1>11, <1>12, <1>13 DEF IndInv

LEMMA IndKeeps ==
  ASSUME IndInv, [Next]_vars
  PROVE  IndInv'
<1>1. program' = program /\ C!Programs' = C!Programs /\ WnPrograms' = WnPrograms
  BY ProgramKept DEF C!Programs, C!Threaded, WnPrograms
<1>2. program' = "pc" => PcInv'
  BY Zenon, <1>1, PcKeeps DEF IndInv
<1>3. program' \in WnPrograms' => WnInv'
  BY Zenon, <1>1, WnKeeps DEF IndInv
<1>4. program' \in C!Programs' => CntInv'
  BY Zenon, <1>1, CntKeeps DEF IndInv
<1>5. program' = "two_way_msg" => TwoInv'
  BY Zenon, <1>1, TwoKeeps DEF IndInv
<1>6. program' = "msgsnd" => MsgInv'
  BY Zenon, <1>1, MsgKeeps DEF IndInv
<1>7. program' = "async_res_request" => ArrInv'
  BY Zenon, <1>1, ArrKeeps DEF IndInv
<1>8. program' = "dinPhil" => DinInv'
  BY Zenon, <1>1, DinKeeps DEF IndInv
<1>9. program' = "periodic_check" => PerInv'
  BY Zenon, <1>1, PerKeeps DEF IndInv
<1>10. program' = "lock_free" => LfInv'
  BY Zenon, <1>1, LfKeeps DEF IndInv
<1>11. program' = "ex1seqlock" => PairInv'
  BY Zenon, <1>1, PairKeeps DEF IndInv
<1>12. program' = "mmap_sharing" => MmapInv'
  BY Zenon, <1>1, MmapKeeps DEF IndInv
<1>13. program' = "shm" => ShmInv'
  BY Zenon, <1>1, ShmKeeps DEF IndInv
<1>14. program' = "calc" => CalcInv'
  BY Zenon, <1>1, CalcKeeps DEF IndInv
<1> QED
  BY Zenon, <1>2, <1>3, <1>4, <1>5, <1>6, <1>7, <1>8, <1>9, <1>10, <1>11, <1>12, <1>13, <1>14 DEF IndInv

(* The inductive invariant of the small programs: each one has a shape of  *)
(* its memory, the counts and the holders that its locks and semaphores    *)
(* keep, and the sequences that it hands on.                               *)
THEOREM IndInvHolds == Spec => []IndInv
BY PTL, IndStarts, IndKeeps DEF Spec

-----------------------------------------------------------------------------
(* What follows *)

LEMMA NothingLostByInv ==
  ASSUME IndInv
  PROVE  NothingLost
<1>1. B!NothingLost
  <2>1. CASE program \in B!Programs
    <3>1. program = "pc" \/ program \in WnPrograms
      BY <2>1 DEF B!Programs, WnPrograms
    <3> QED
      BY Zenon, <3>1, PcNothingLost, WnNothingLost DEF IndInv
  <2>2. CASE program \notin B!Programs
    BY Zenon, <2>2 DEF B!NothingLost
  <2> QED
    BY Zenon, <2>1, <2>2
<1>2. M!InOrder
  BY Zenon, MessagesInOrder DEF IndInv
<1>3. S!TextShown
  BY Zenon, SharingKept DEF IndInv
<1>4. K!AnsIsLastResult
  BY Zenon DEF IndInv, CalcInv, K!AnsIsLastResult
<1> QED
  BY Zenon, <1>1, <1>2, <1>3, <1>4 DEF NothingLost

LEMMA ResourcesKeptByInv ==
  ASSUME IndInv
  PROVE  ResourcesKept
<1>1. B!SlotsKept
  <2>1. CASE program \in B!Programs
    <3>1. program = "pc" \/ program \in WnPrograms
      BY <2>1 DEF B!Programs, WnPrograms
    <3> QED
      BY Zenon, <3>1, PcSlotsKept, WnSlotsKept DEF IndInv
  <2>2. CASE program \notin B!Programs
    BY Zenon, <2>2 DEF B!SlotsKept
  <2> QED
    BY Zenon, <2>1, <2>2
<1>2. R!Conserved
  BY Zenon, ResourcesConserved DEF IndInv
<1>3. S!SegmentRemoved
  BY Zenon, SharingKept DEF IndInv
<1>4. L!StructuresIntact
  BY Zenon, StructuresKept DEF IndInv
<1> QED
  BY Zenon, <1>1, <1>2, <1>3, <1>4 DEF ResourcesKept

(* What one side hands to the other arrives once and in its order, in the  *)
(* buffers of pc.c, wait_noti.c and logbuf.c of any size, in the queues of *)
(* two_way_msg.c and msgsnd.c of any capacity and for any lines, in the    *)
(* shared memory of the readers and writers, and in the calculator's file. *)
THEOREM NothingLostHolds == Spec => []NothingLost
<1>1. IndInv => NothingLost
  BY NothingLostByInv
<1> QED
  BY PTL, <1>1, IndInvHolds

(* What is taken is given back or accounted for: slots, units for any      *)
(* requests, forks of any number of philosophers, the segment, the nodes   *)
(* of the lock-free stack; and every critical section has one owner.       *)
THEOREM ResourcesKeptHolds == Spec => []ResourcesKept
<1>1. IndInv => ResourcesKept
  BY ResourcesKeptByInv
<1> QED
  BY PTL, <1>1, IndInvHolds

(* How much two adders may lose, for any number of additions and any       *)
(* ratings: nothing with the mutex of shrdmem.c and shared_buffer.c, and   *)
(* without one (hello_thread.c, movie_ratings.c) never everything.         *)
THEOREM UpdatesBoundedHolds == Spec => []UpdatesBounded
<1>1. IndInv => UpdatesBounded
  BY Zenon, UpdatesBoundedByInv DEF IndInv, UpdatesBounded
<1> QED
  BY PTL, <1>1, IndInvHolds
=============================================================================
